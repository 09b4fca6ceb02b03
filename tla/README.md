# psi-tools in TLA+

TLA+ modules for psi-tools, a C++ library of byte buffers, an HTTP parser,
cryptographic primitives and small utilities. The modules are
checked by TLC on small instances; the theorems about them are proved with
TLAPS for every value of the constants. `PROJECT.json` links definitions to
source lines and lists runs, mutants, findings, hazards and theorems.

## 1. Inventory

| Component | State | Operations | What makes it correct |
|---|---|---|---|
| **ByteBuffer** (`ByteBuffer.h/.cpp`) | a raw owning pointer, its size, a read and a write cursor | seven constructors, destructor, `=`, `+=`, `+`, `[]`, `resize`, `clear`, resets, skips, typed, string, hex and line reads and writes, transfers between buffers | one owner per array; cursors inside the array; a refused call changes nothing; an exception stays local; bytes come out in the order they went in |
| **HttpParser** (`HttpParser.h/.cpp`) | none of its own: `remainingSz` is kept by the client between calls | `parseHttpChunkedMessage`, `parseHttpFragment`, `skipToHttpData` | the body is the payload, wherever a response is cut; the end is reported once, by the right call; a call returns, as long as it reads only what was written |
| **convertToSyncCall** (`Tools.h`) | a promise on the caller's stack, a shared `bool` | the call, any number of callbacks, the deadline | the answer or the fallback; the promise is used once and not after its end; the call ends |
| **sha256, hmac256, hkdf256** (`crypt/sha.cpp`) | cursors of several buffers, the block counter | padding, block loop, HMAC, HKDF loop | the output is that of FIPS 180-4 and RFC 5869 whatever the cursors of the arguments |
| **Tools** (`Tools.h/.cpp`) | none | hex, ISO 8601, UTF-8 and splitting functions, `swapEndian` | pure functions |
| **BigInteger** (`BigInteger.h/.cpp`) | a vector of words | construction from a word and from words, `+`, `-`, `+=`, `-=` with values and words, `toString` | integer arithmetic: carries and borrows arrive, the value grows and shrinks by whole words |
| **BitSet** (`BitSet.h/.cpp`) | words behind a `shared_ptr` | construction from a size, bytes or text, copies and moves, `set`, `test`, `inverse`, `reverse`, `toString` | variables that refer to sets of bits, whatever is in the words beyond the size |
| **base64** (`crypt/base64.cpp`) | the read cursor of the input | encode, decode | decoding undoes encoding; text that is no encoding is refused |
| **aes** (`crypt/aes.hpp`) | key schedule, one block, the result so far | encrypt and decrypt with keys of 128 and 256 bits | FIPS 197; decryption undoes encryption for data of every length; the result has the bytes that were allocated |
| **aes_gcm** (`crypt/aes_gcm.cpp`) | the cursors of data and iv | encrypt and decrypt with iv, additional data and tag | what is decrypted is what was encrypted, or nothing |
| **x25519** (`crypt/x25519.cpp`) | signed limbs of field elements, the bit of the ladder | base point and point multiplication | keys are multiples of points; both parties agree; limbs fit their type |
| **Encryptor** (`Encryptor.h/.cpp`) | none of its own; the client's buffers | a static facade over the primitives, session keys, `hkdf256ExpandLabel` | layers put around a text come off again |

How they interact: everything that handles bytes does so through ByteBuffer.
HttpParser depends on what `readLine` returns at the end of a buffer; sha
depends on the cursors that reads and transfers move, those of `const` arguments
included (`m_readIndex` is changed by `const` methods). The same holds for base64
and aes_gcm, which go by sizes, lengths and cursors that earlier calls have
moved. Encryptor calls the crypt functions. convertToSyncCall is the only place where threads meet.

Where it is hard:

* *numbers at their edge*: every bounds check is `index + N > size` on `size_t`,
  `remainingLength()` is a difference that wraps around, `padMessage` subtracts
  unsigned numbers, `remainingSz` uses 0 and 2^64-1 as markers, the HKDF counter
  is a byte, carries and borrows run over words of all ones and of zeros, limbs
  of field elements must not outgrow 64 bits;
* *failure in the middle*: `operator=` and `resize` free before they allocate,
  transfers have two checks, `readLine` allocates while it advances, `operator+`
  moves the cursors of its operands before it allocates;
* *aliasing*: `x += x`, `x + x`, a buffer read into itself, copies of a BitSet;
* *stale cursors*: a second call with an iv, a tag or a text whose cursor an
  earlier call has left at the end;
* *threads*: a plain `bool` guards a promise on the stack against callbacks that
  come twice, at once, or after the deadline;
* *order*: a response may be cut anywhere, and what a line means depends on the
  call before.

The list with source lines is under `hazards` in `PROJECT.json`.

## 2. Plan

In this order, the most used part first:

1. `ByteBufferOps` and `ByteBuffer`, with proofs: *done*.
2. `ByteRelay` refining `ByteChannel`, with proofs: *done*.
3. `SyncCall`, with proofs of its safety: *done*.
4. `HttpParser` on top of `ByteBufferOps`: *modelled and checked*; types, progress of
   the loops and all safety properties *proved* for every response and every cut.
5. `Sha` on top of `ByteBufferOps`: *modelled and checked*, its types and
   `EveryTurnAddsABlock` *proved* for every block and digest length, and
   `OkmFollowsRfc` for messages that leave room for their length.
6. `BigInteger`: carries and borrows against integer arithmetic: *modelled and
   checked*; types, sums and differences *proved* for every base and every length.
7. `BitSet` refining `SharedBits`: *modelled and checked*; types and refinement
   *proved* for every width of bytes and words.
8. `Base64`, `AesGcm` and the `Encryptor` that stacks them; `Aes`; `X25519` against
   `Montgomery`: *modelled and checked*; everything about `Aes` except its examples
   *proved* for every number of words, rounds and blocks; of `Encryptor`, types and that
   sound calls give the text back, for every block size, cipher and stack of layers;
   `LimbsStaySmall` of `X25519` for every radix that has room for the carries.
9. Left: `hkdf256ExpandLabel`, the UTF-8, hex, ISO 8601 and splitting functions (pure
   functions against reference definitions).

## 3. Modules

| Module | Models |
|---|---|
| `ByteBufferOps` | the methods that stay inside one array, as operators on a record with the four data members; a method yields the buffer after the call, its result and the bytes it handed out |
| `ByteBuffer` | a client with several buffers, the heap, failing allocations |
| `ByteChannel` | *abstract*: a first-in first-out channel of bytes |
| `ByteRelay` | two buffers in a row used as a channel |
| `SyncCall` | convertToSyncCall, its callbacks and their threads |
| `HttpParser` | the parser and the client that feeds it pieces of a response |
| `Sha` | padding, block loop, HMAC and the loop of hkdf256Expand |
| `SharedBits` | *abstract*: variables that refer to sets of bits |
| `BitSet` | implementations shared by a client's variables, their words, all methods |
| `BigInteger` | a client's variables, sums and differences word by word |
| `XorBytes` | exclusive or of bytes |
| `Aes` | one encryption and the decryption of its result, a word of the key schedule, a round or a block at a time |
| `Base64`, `AesGcm` | the calls, as operators on buffers |
| `Encryptor` | a client that stacks Base64, AES and GCM around a text, with one key, iv and tag |
| `Montgomery` | *reference*: the group of a Montgomery curve |
| `X25519` | two parties and their key exchange, a bit of the ladder at a time |
| `ByteBufferLemmas` | what the operators of `ByteBufferOps` return and preserve; recursion over numbers |
| `ByteBuffer_proofs`, `ByteRelay_proofs`, `HttpParser_proofs`, `Sha_proofs` | theorems |
| `Tools_proofs` | theorems about `SyncCall` and `BitSet` |
| `Encryptor_proofs` | theorems about `Aes`, `Base64` and `AesGcm` as `Encryptor` uses them |
| `Arithmetic_proofs` | theorems about `BigInteger` and `X25519` |
| `MC...` | instances for TLC |

`ByteRelay`, `HttpParser`, `Sha`, `Base64`, `AesGcm` and `Encryptor` compose their
component with `ByteBufferOps`: they call the same operators that `ByteBuffer` is
built from.

### ByteBuffer

`obj` holds the data members of each variable, `heap` the arrays, `allocated` the
addresses in use, `live` the constructed variables, `ret` how the last call
ended. There is one action for each method or family of overloads with the same
effect. `Grants` is `operator new`: any free address, or none; every allocating
action has a second disjunct in which it throws, at the point where the code is
then. `size_t` is arithmetic modulo `SizeMod`, and the arguments of skips, sizes
and reads range over all of it, so the bounds checks do wrap around.

Contract of the client:

* After `operator=` or `resize` has thrown, an object has a null pointer and a
  new size. The client destroys it, resizes it or assigns to it. `+=` on such an
  object would combine the new size with the old cursors, and other methods
  would use the null pointer.
* `readToByteBuffer(buffer, N)` and the reads into memory of the client get an
  `N` that is the size of something that exists. (With an `N` for which both
  checks wrap around, `memcpy` would be asked for nearly 2^64 bytes.)
* `operator[]` gets an index inside the array.
* Delimiters are a set. A list of more than 255 would overrun the `uint8_t`
  counter of `readLine`.
* `memcpy` between overlapping parts of one array is undefined: any bytes may
  result (`SelfCopies`).

The results of `operator+` and `readToByteBuffer(N)` are the `Temps`: copied or
read from, then destroyed. The `const` conversions (`asString`, `asHexString`,
`asVector`, ...) change nothing and are left out.

### ByteRelay and ByteChannel

The class lets a client read up to the *size*; only a client that respects
`remainingLength()` gets a channel, and `ByteRelay` is that client. Refused
writes and transfers are tried again, buffers are recycled by reset, clear or
resize when all of them has been read. `readToByteBuffer(dst)` moves `length()`
bytes from the read cursor on, so `MoveAll` is called only while nothing has
been read; `readLine` runs to the end of the array, so `ReceiveLine` is called
only on a full buffer. The refinement mapping is
`inflight <- Unread(dst) \o Unread(src)`.

### SyncCall

`pc` and `cpc` are program points of the caller and of each invocation of `cb`.
`Inline` are invocations that `fn` makes on the caller's thread. `serial` says
whether the asynchronous function makes its calls one after the other. The flag
is a plain `bool` used by several threads, a data race. The model gives it the
behaviour of a compiled store: a thread sees its own store at once, others when
it leaves the store buffer (`pending`, `Flush`), and `set_value`, which
synchronises, comes after the earlier stores of its thread. `set_value` on a
promise that is gone is undefined: the invocation ends in `dangling`.
`convertToSyncCall` is `noexcept`, so an exception out of an inline callback may
terminate the process (`Terminate`), unless `fn` catches it.

### HttpParser

One step is one turn of a loop: one `readLine` and what follows. The client picks
a response, cuts it anywhere the response allows, and gives each piece to the
parser, in a buffer that may be larger than the piece (`Slack`): a parser that reads
on behind the piece finds zeros, and `remainingLength()` wraps around (`Overread`).
Each byte of a
response is tagged with what is right after it (payload or not, how much the
current chunk lacks), and `header` and `lines` are the parts of its head; all this is
read by the properties only, except `cut`, which the client obeys. `FollowsGrammar`
says what a regular response is, position by position: it has a header line, one or
more fields and a blank line, then line breaks, sizes and chunk data;
the tags agree with the bytes; no delimiter byte is inside chunk data, because the
parser is line based; and it is not cut inside the head or between two
digits of a size. `GrammarAssumption` says that the responses marked `regular` follow
it; TLC evaluates it for those of the run, which are written down another way. Irregular
responses (text instead of a size, no fields, a field without a value, a size beyond
2^64) exercise the other branches and must only be parsed to an end.

### Sha

One step is one turn of the loop of `hkdf256Expand`, with the cursors of `prk`,
`info`, `okm` and `temp` as each call leaves them. `padMessage` uses the modelled
buffer operations with wrapping arithmetic. The compression function and the
xor with the pads are parameters.

### BitSet and SharedBits

`m_value` is the `shared_ptr` of each variable, `impl` the members of each
implementation; the last variable that lets go of an implementation deletes it.
A word or byte is the set of its one bits. `inverse` changes all bits of all words,
those beyond the size included, and `reverse` reads them; that they never show
is what the refinement says, with the mapping
`ref <- m_value, bits <- what toString shows`. `Expected` says what each
construction should yield, bytes and characters taken one by one, while the
code takes them word by word. `toString` puts bit 0 first, as the code and its tests do
and the header does not (section 5). A stream of zeros stands for a null `data` of up to
one word, which `fill64` takes for zeros.

### BigInteger

`m_value` is a sequence of words to any base. `add` and `substract` are the two
operations on one word; sums and differences apply them word after
word, as the code does, to the value that the previous word left. They are public, and
the client also calls them on its own (`AddAt`, `SubstractAt`). `Undefined`
is the value of an object after a word outside its vector was read or written.

### Aes

The real tables and keys of both sizes. `trail` keeps what encryption made of a
block after each round; `RoundsUnwind` compares it with what decryption has
in the corresponding round. The client's jobs include keys of a wrong size.

### Base64, AesGcm and Encryptor

The digits of Base64 are taken from the bytes by position instead of by shifts,
the positions where reading stops follow from the cursor. In `AesGcm` a block
is a number, so shifts and increments are arithmetic; the block cipher is a
parameter, because `Aes` is checked on its own. `Encryptor` is the client:
`layers` remembers what it has put around the text, `sealed` what each GCM encryption
has read with the tag it made, `sound` whether it has
called in a way that can be expected to work (an AES key of its size, cursors at the
start, buffers written to their end, the right tag). It may also read a byte of the text,
rewind, generate a session key, and find one character of a Base64 text
damaged. A call whose result is larger than any array throws and changes nothing; the
model leaves it out. AES yields a buffer whose write cursor is 0, so GCM around it sees no
data: that sequence is not `sound`.

`decryptAes128` of a text that no encryption makes (one byte more than whole
blocks and a last byte of a block or more, or an odd size) reads or
writes outside a buffer; the client of the model does not do that.

### X25519 and Montgomery

Bytes, limbs, the prime `2^n - Prime19` and the constant of the curve are parameters;
the code is `ByteBits` 8, `Limbs` 16, `Prime19` 19 and 121665. A field
element is a tuple of signed limbs and every operation works limb by limb, with
arithmetic shifts as `\div` and `%`. `Montgomery` knows nothing of limbs and ladders:
points have both coordinates and are added by the chord and tangent law.

## 4. Runs

| Run | Shows | Bounds and why they are enough |
|---|---|---|
| `byte_buffer` | `SoleOwner`, `ObjectsWellFormed`, `FailureChangesNothing`, `ThrowIsContained` over all calls, failing allocations included | two variables, one temporary, four addresses (one more than objects, so a replacement has a choice and a shortage can arise), arrays up to 2 bytes, `SizeMod` 5: every index plus a large `N` wraps around; two-byte inputs exceed a one-byte buffer |
| `byte_relay` | `ReadBehindWrite`, and that two buffers implement `ByteChannel` | arrays up to 3 bytes, messages of 1 and 2 with and without the delimiter: partial transfers, refusals, recycling and lines that end inside, at and beyond the data |
| `sync_call` | `AnswerOrFallback`, `DeadPromise`, `SerialNeverThrows`, `IgnoredOnlyIfTaken`, `CallEnds` | two inline invocations and two on other threads: same-thread and cross-thread pairs, and a third that comes late |
| `http_parser` | `BodyReassembled`, `RemainingIsExact`, `EndIsReported`, `FieldsKept` for every allowed sequence of cuts; `CallReturns`: a call returns or throws unless it reads beyond what was written, and then it never returns | up to two data chunks of 1 to 3 bytes and the last chunk, binary digits so that sizes have one and two digits, two fields (also with one name, and a value with a colon); payloads include digits, so data could be mistaken for a size; buffers as large as their piece or two bytes larger (`Slack = {0, 2}`) |
| `hkdf_expand` | `OkmFollowsRfc`, `EveryTurnAddsABlock` | 8-byte blocks, 4-byte digests, 1-byte length: the proportions of SHA-256; keys shorter and longer than a block, infos of lengths 0, 1 and 3, outputs of 0 to 12 bytes (up to three blocks), any read cursor |
| `bit_set` | `ActsAsSharedBits` | words of 4 bits made of 2 bytes, three variables and two implementations of together at most 9 bits: sizes 0, 4 (one full word) and 9 (a last word of one bit), streams and strings that end inside and at the end of a word, a character that is no digit; bit numbers within and beyond the size |
| `big_integer` | `SumIsExactUnlessCarryLost`, `DifferenceIsExact` | words to base 3, values of up to four words, both objects the same or not: carries and borrows over no, one and two words, values that grow and shrink |
| `aes` | `RoundsUnwind`, `RoundTrip`, `ResultFillsBuffer`, `FollowsExamples` | the real algorithm on 0, 1, 15, 16, 17, 33 and 35 bytes, both key sizes, keys of a wrong size; the FIPS 197 examples that the tests of the repository use |
| `encryptor` | `SoundCallsRestore`; `RefusedOrRestored` for a key of the right size, a tag to compare and data read from its start | blocks of 2 bytes in a field of 2^16 elements, texts of 0 to 4 bytes (no, half, one and a half, two blocks), an iv of the special length and a longer one, with and without a tag buffer; up to four calls, so two layers go on and come off |
| `x25519` | `LimbsStaySmall`, `NeighboursDiffer`, `KeysAreMultiples`, `SharedKeysAgree` | bytes of 4 bits, two limbs, the prime 2^15 - 19 and a curve with orders 8 x 4129 and 4 x 8117 (twist), as Curve25519 has 8 and 4 times a prime; secrets of all zeros, all ones and three others, in both orders of the exchange |
| `sha_padding` (violation) | `OkmFollowsRfc` fails when a message leaves no room for the length | an info of length 2 makes such a message |
| `big_integer_carry` (violation) | `SumIsExact`, what the header says of `+`, fails when a carry passes an all-ones word in the middle | as `big_integer` |

Notes:

* `byte_buffer` uses symmetry on the addresses, which no definition tells apart,
  and a `VIEW` without `ret`, which no action reads. Both step properties
  constrain `ret'` and are evaluated on every transition TLC generates, also
  one that leads to a state it has seen, so nothing is lost.
* `http_parser`, `sync_call`, `hkdf_expand`, `aes`, `encryptor` and `x25519` end in
  states without a step (the response is over, all invocations are made, the
  result is returned, the client has made its calls), so they do not check for
  deadlock. `CallEnds` and `CallReturns` say that this is not in
  the middle of a call.
* HKDF outputs stay within the block counter's range: RFC 5869 allows no more,
  and neither code nor documentation says what happens beyond. With `CounterMod`
  4 the outputs reach the last block the counter can number.
* `bit_set` and `big_integer` use symmetry on variables and implementations, which no
  definition tells apart.
* Bounds in guards: `MaxTotal` (bits of all implementations) and `MaxBit` (highest bit
  number passed) in `BitSet`, `MaxWords` in `BigInteger`, `MaxCalls` in `Encryptor`, and
  there one damaged character, only after sound calls, and `ReadAByte` only
  from the start of the data.
* In `http_parser` the larger buffers lead to calls that never return (section 5):
  the plain `(pc # "idle") ~> (pc \in {"idle", "threw"})` is violated there and holds with
  `Slack = {0}`. `CallReturns` therefore has two halves, and what a call that reads beyond
  its piece has collected is judged by no other property, since they speak of the
  states between calls. Each piece of the run comes in either kind of buffer.
* `RefusedOrRestored` has three conditions, and without any of them TLC finds it violated
  in a few steps (section 5). It covers damage, an iv that was not rewound, the tag
  of another layer in a full tag buffer, and encryption of data whose cursor has moved or
  whose end was not written: there it says that decryption gives what encryption *read*.

**Fairness.** `SyncCall`: weak fairness of the caller's next step (it runs, and
`wait_for` has a deadline, so `Timeout` comes if no answer does), of callbacks
that are inside `cb`, and of stores reaching memory. Nobody has to invoke `cb`
at all. `HttpParser`: weak fairness of the parser, sequential code that goes on
with the call it is in; the client may stop. The other specifications have no
fairness and no liveness property; that the loop of `hkdf256Expand` ends is stated
as progress of each turn (`EveryTurnAddsABlock`).

## 5. Findings

* `padMessage` (`sha.cpp:42`): for messages of 56 to 63 bytes modulo 64 the number
  of zeros wraps around, the write cursor goes back, and the length overwrites
  the end mark and possibly data; the hash is not SHA-256 of the message.
* `BigInteger::add` (`BigInteger.cpp:125`): a word that is all ones and not the last
  one is passed by the carry without becoming zero.
* `parseHttpFragment` (`HttpParser.cpp:41`) does not end in a buffer with
  `length() < size()` whose bytes behind the message are reached: `remainingLength()` has
  wrapped around and `readLine` reports more for ever. `HttpParser.h:33-34` promises a
  result for any buffer. The second half of `CallReturns` is this hang, and the
  theorem `OverreadNeverReturns` shows that no call gets out of it.
* `BitSet::toString` (`BitSet.cpp:202`) puts the least significant bit first;
  `BitSet.h:84` says "ordered from the most significant to the least significant bit".
  The tests (`BitSet_Tests.cpp:105-110`) side with the code, and so does the model.
* `aes_gcm::decrypt` (`aes_gcm.cpp:270`) reads the text from the read cursor of `data` but
  computes the tag from its start: a client that has read a byte of the buffer gets
  a wrong text with an accepted tag, although `src/README.md:97` says that decryption
  verifies the tag.

Observations, met while modelling, that no run is spent on:

* `resize` (`ByteBuffer.cpp:159`) zeroes the bytes and both cursors; the header
  promises to keep data and clamp cursors.
* `readLine` (`ByteBuffer.cpp:425`) returns whether `remainingLength() > 0`; the
  header says whether a delimiter was found.
* `parseHttpFragment` (`HttpParser.cpp:60`) takes the digits before a cut for the
  whole size; the README claims fragmented delivery.
* `skipRead` and `skipWrite` (`ByteBuffer.cpp:172`) with an `N` near 2^64 pass their check
  and move the cursor backwards. The model does the same; `ObjectsWellFormed` only says
  that the cursor stays inside the array.
* `y -= y` leaves the zero words of `y` in place; subtracting `y` from a shorter value
  then reads and writes outside its vector (`BigInteger.cpp:139`).
  `DifferenceIsExact` is therefore about subtrahends without high zero words.
* `BigInteger(vector)` of an empty vector copies a word that is not there
  (`BigInteger.cpp:27`).
* a GCM call with a key of the wrong size, such as a session key, encrypts nothing and
  makes a tag of zeros, so decryption accepts any text; a tag buffer of size 0 is not
  compared at all (`aes_gcm.cpp:255`). Both are conditions of `RefusedOrRestored`.
* an iv that was read before gives an iv of zeros, and the other side must make the same
  mistake (`aes_gcm.cpp:163`).
* the write cursor of an AES result is 0, so a GCM or Base64 call that goes by
  `length()` sees nothing (`aes.hpp:67`).
* the last of the writes that fill a session key does not fit and is refused
  without notice (`SessionKey` in `Encryptor`).
* `utf8_to_wstring` appends a NUL to its result, and the ISO 8601 parser ignores what
  `sscanf` returns.

## 6. Theorems

Assumptions on the constants: `SizeAssumption` (`2 * MaxSize < SizeMod`: the largest
array is PTRDIFF_MAX, so the sum of two sizes does not wrap around),
`HexAssumption` (`HexBase > 1`), `NullAssumption` (null is no address),
`InputAssumption` of ByteBuffer (inputs are byte strings that fit in memory),
`ThreadAssumption` and `ValueAssumption` (caller, default and empty value are none
of the callbacks), `WidthAssumption` and `IdAssumption` (bytes and words have bits, a
null pointer is no implementation), `InputAssumption` of BitSet and `VectorAssumption`
(inputs have their types), `BaseAssumption` (two or more), `ResponseAssumption`
(responses are tagged bytes, digits and the colon are no delimiters, `Upper` maps bytes to
bytes), `GrammarAssumption` (section 3), `GcmAssumption` (blocks of 2 to 255 bytes, longer
than an iv, and bytes of eight bits), `TextAssumption` (texts, ivs, tags and keys fit in
memory), and `X25519Assumption` (limbs of two bytes, secrets and the base point encoded in
them). The bounds of the runs
(`BoundAssumption`) are only numbers. No set has to be finite.

**ByteBuffer.** `Inv == TypeOK /\ SoleOwner /\ ObjectsWellFormed` is inductive, none
of its conjuncts is alone: a call keeps its object well-formed only if no other
object shares the array it writes to, and the owner of a new array is unique only
because `allocated` is exactly what live objects own. `Good(live, obj, allocated,
heap)` is `Inv` as a predicate of four values. The lemmas `GoodInPlace`, `GoodNew`,
`GoodLose`, `GoodReplace` and `GoodCursors` say that writing in place, adding,
losing and replacing an array and moving cursors preserve it, and every action is
one or two of those. `ByteBufferLemmas` supplies the arithmetic: a check that
passes, with or without wrapping around, leaves a cursor inside
(`Success`), and `writeArray`, `readBytes`, `readLine` keep `WellFormed`. Theorems:
`Invariance`, `TypeCorrect`, `EveryArrayHasOneOwner`, `CursorsStayInside`, and from
the same step lemmas the action properties `FailedCallsChangeNothing` and
`ExceptionsAreContained`.

**ByteRelay.** `Inv == TypeOK /\ ReadBehindWrite`. A write appends to `Unread`
(`WriteAppends`), a read takes from its front (`ReadTakes`), a transfer does both and
leaves `Unread(dst) \o Unread(src)` alone (`TransferFacts`), recycling happens when
`Unread` is empty. `NextMaps` puts these together: each step is a step of
`ByteChannel` or a stutter. Theorems: `RelayTypeCorrect`, `RelayReadsBehindWrites`,
`RelayIsFirstInFirstOut`.

**SyncCall.** `IInv` adds to the four safety properties: the promise lives until the
caller returns (`CallerInv`), the value is that of the one callback that delivered
(`ValueInv`), who has set the flag and that a callback that delivers has made its
store visible (`FlagInv`), and that at most one serial callback gets past the check
(`SerialInv`). The last is the reason for `SerialNeverThrows`: the next callback
starts after the previous one has finished, and thus after its store is visible,
or sees the store because it is on the same thread. Theorems: `SyncCallInvariance`,
`SyncCallTypeCorrect`, `CallerGetsAnswerOrFallback`, `DeadPromiseOnlyAfterTimeout`,
`SerialCallbacksNeverThrow`, `NoAnswerIsDroppedForNothing`.

**HttpParser.** `Inv == TypeOK /\ WellFormed(msg)`. Every operator of the parser yields
values of its types (`LineReadAdvances` and the lemmas about pieces, skips and
fields); where the code searches a line for a character, the least position
exists because the positions are natural numbers (`WFMin`). `TypeCorrect` holds for every
response, of the grammar or not, and every way to cut it. `EveryTurnReadsOn` says
that a turn of a loop moves the read cursor while it is not past the write cursor: with
the finite buffer this is the argument behind the first half of `CallReturns`. Once the
cursor is past it, `remainingLength()` is a difference that has wrapped around
(`SubWraps`), `readLine` reports more, and neither cursor goes back; that is
`OverreadNeverReturns`, the second half. `WrittenIsNeverOverread` says that a client whose
buffers are written to their ends (`Slack = {0}`) never gets there.

For regular responses, `Follows` is inductive together with `Inv`: the call is lost
because it has read beyond its piece (`Lost`; it never returns, so nothing follows), or
`GrammarInv` holds. Between two
calls it says what the properties say; within one it relates the read cursor to a
position of the whole response (`Behind`): while fields are read it is the start of a field
or of the blank line, with the fields before it collected; while the body is read, the
data is the payload up to this position, `remainingSz` what is still to come behind it, and
the position is behind a delimiter or a cut. The last is needed because a number is taken for
a size only where a line starts, and it is true because `readLine` stops
nowhere else (`LineSpan`). What is left is about responses alone. In the head, every
line feed ends the header line or a field (`LineFeeds`), so field lines are read
whole (`FieldRead`), split at their first colon (`FieldLine`), collected as `emplace` does
(`FieldAdded`), and neither the parser nor `skipToHttpData` stops at
an earlier blank line (`BlankRead`, `DataStartFacts`). In the body, a line is nothing
but breaks (`BreakFacts`), all the digits of a size (`SizeFacts`: this is where no cut
may be inside a size), or bytes of one chunk, at most as many as it lacks (`DataFacts`);
so the subtraction never wraps around and reaches zero exactly at the end of the
chunk. `PayloadOf` is a recursive function and gets the same treatment as those of
`Sha`, with `StepwiseExists` and `PassedOn` of `ByteBufferLemmas`. The theorems hold for
buffers of any size. They are: `GrammarInvariance`, `BodyIsReassembled`,
`RemainderIsExact`, `EndIsReportedOnce`, `FieldsAreKept`.

**Sha.** The compression function is a parameter of which the proof needs only that a
digest and a block yield a digest; `CompressFact` is this hypothesis of the
theorems. `Inv` adds to the types that the buffers keep the sizes they were made
with and that the output holds whole blocks: `q` of them with `q * DigestLen < len`
leave room for another one in `(len / DigestLen + 1) * DigestLen` bytes (`RoomForOne`),
so the transfer into `okm` is never refused. Had it been, the loop would turn on the
spot; that is `LoopAdvances`, which states `EveryTurnAddsABlock`. That the recursive functions
`Chain` and `LittleEndian` exist at all is shown by the least argument at which
one could not be continued (`StepwiseExists`), that their values are digests or
bytes by the least counterexample (`PassedOn`). `MemoryAssumption` says that keys,
infos and outputs leave room for three blocks in memory, `ShaAssumption` that the
sizes are positive, the counter fits a byte and inputs are byte strings.

That the output is that of RFC 5869 (`OutputFollowsRfc`) is proved from the bytes up.
`Written` says what a buffer of size `n` holds once `s` has been written to it: `s`, and
behind the cursor the zeros it was made with; so the bytes the padding only skips
are zeros, because nobody has written there (`PaddingFollowsFips`). HMAC is then two
hashes of strings (`HmacFollowsRfc`). `RfcInv` is the invariant of the loop: after `q`
turns the output holds blocks `1 .. q` of the RFC, `temp` is the last of them and the
counter is `q + 1`. The recursive function `T` of the reference exists, and the one
for fewer blocks agrees with the one for more (`StepwiseUnique`, `BlocksExist`). Beside
`CompressFact` the theorem has the hypothesis `LengthsFit`: the four kinds of message
the expansion hashes leave room for the mark and the length in their last block,
and the output is at most `CounterMod - 1` digests long, the RFC's own limit. The
constants of `hkdf_expand` satisfy it; SHA-256 satisfies it for the keys and
for infos of up to 22 bytes (and of 31 to 54), and the info of `sha_padding`
violates it, which is the divergence of section 5.

**BitSet.** `Inv` is `TypeOK` with the domain of `impl`: it is needed because `Point`
rebuilds `impl` as a whole, and its last conjunct (what no variable refers to is
`Gone`) is why a new implementation can take any unused identity. `Bits` of an
implementation are the numbers `i` below its size with bit `i % WordBits` of word
`i \div WordBits`; `BitsFacts` states this once, and every method is about quotients
and remainders from there (`DivMod`, `Quotient`, `QuotientBelow`). `reverse` is the long
one: `Reverse64Facts` says that a reversed word has bit `b` where the word had
`WordBits - 1 - b`, `ShiftFacts` that each bit of the result comes either from the word
shifted right or from its neighbour shifted left, and `MirrorFacts` that in both cases
it is bit `size - 1 - i`, whether the last word is full or not
(`ReversedFacts`). `FromStreamFacts` and `FromStringFacts` say that the words filled from
chunks hold what `Expected` says of the whole input. One lemma per action then
shows a step of `SharedBits`, or a stutter for a bit number beyond the size.
Theorems: `BitSetTypeCorrect`, `BitSetImplementsSharedBits`.

**BigInteger.** `Weight` and the sums `lower` behind `Value` are recursive functions; that
they exist is shown by the least argument at which they could not be
continued (`StepwiseExists`, `WeightEquation`), what holds for each of their
values by the least counterexample (`Reached`). A difference: when `substract` borrows at
position `p`, the words above `p` are not all zero, because the value is not
less than what is left to subtract; `Borrowed` is then the run of zero words and the
first word behind it, and taking one from each of them gives `Base ^ p` in all
(`LoweredValue`). Dropping high zero words keeps the value (`TrimmedFacts`), and the
positions still to be subtracted are not among those dropped, because the highest word
of a canonical subtrahend is not zero (`DifferenceFacts`). A sum: an `add` that carries
adds `Base ^ (p - 1)` times the word and, if the carry arrives elsewhere than in
the next word, a surplus: the difference of the two weights, never negative
(`CarriedFacts`, `AddFacts`);
so two lost carries cannot make up for each other, and the sum is exact if
and only if there was none (`SumFacts`). Theorems: `BigIntegerTypeCorrect`,
`DifferencesAreExact`, `SumsAreExactUnlessCarryLost`.

**Aes.** `IInv` is `AesTypeOK` and what each phase has done so far: the round keys written
are those of the schedule (`KeyInv`), a refused key leaves empty results
(`RefusedInv`), the blocks passed are encrypted or decrypted (`EncryptInv`, `DecryptInv`),
and what a finished call has left (`EncryptedInv`, `DecryptedInv`). The algebra
below it rests on a table of sixteen half-bytes: exclusive or of bytes is decided bit by bit,
and its laws (it cancels, commutes, associates) are proved from there, since `XorBytes`
does not use the bitwise operators. From them, `mul2` is linear, `mixColumns`
followed by its inverse is the identity, the two boxes are inverse because the code's own
table is (TLAPS evaluates all 256 entries), and so each unwound round takes back
the state of the round it undoes (`RoundsUnwind`). The key schedule is a recursive
function; it exists and is unique (`KeysOf`, `ScheduleUnique`), so that the keys a
second call computes are those of the first. A message is related to its code block
by block (`Encoded`), the last incomplete block with the extra byte that tells its
length. Theorems: `AesInvariance`, `AesTypeCorrect`, `RoundsAreUnwound`,
`DecryptionInverts`, `ResultIsFilled`.

**Encryptor.** `EncryptorInv` says three things: the four buffers are well-formed, the
histories have their types, and while every call was sound the `layers` *lead* from the
bytes of `data` to the text (`Leads`): the first layer was made of what is inside it,
that of what is inside the next, and the innermost holds the text. A layer was made by
Base64, by AES with the present key, or by the key stream and tag of GCM for the present
key and the iv rewound (`Wraps`). The key may only change when there is no layer, and the
iv only moves its cursor: this is why the invariant survives session keys and
rewinding. A call puts a layer on (`LayerPushed`) or takes one off (`LayerPopped`), and what is left to
show for each pair of calls is that the inner one is undone:

* Base64 (`Base64GivesBack`): the groups of three bytes and four digits are related
  number by number (`GroupFacts`, `DigitGroup`), the table has an inverse, the reader
  stops at the first padding character, which is at digit `Ceiling(4 * n, 3)`
  (`CodeIsRead`), and the padding counted from the end gives the size of the result
  (`PaddingFacts`). The calls that fail, with a cursor in the middle, a size that is no
  multiple of four or a damaged character, still return a buffer (`DecodedIsBuffer`).
* AES (`AesRoundTrip`): block `k` of the code is the cipher of block `k` of the text,
  the mark of an incomplete block tells how much of the last one to keep.
* GCM (`StreamedFacts`): the stream depends on key, iv and position alone and is
  combined twice. The tag is recomputed from the same key, iv and bytes, so a tag that
  belongs to the layer is accepted.

Blocks are numbers and the bytes of them digits of base 256: `BlockFacts` says that
either determines the other, for a block of any length, and `ProductType` and `GhashType`
that multiplication and hash stay in the range of a block. The hypothesis `CipherFact`
says of the cipher that it maps blocks to blocks and that `Decipher` inverts it; for
the code's cipher this is what `DecryptionInverts` shows of `Aes`, and the one of the
run satisfies it. It is not asked of the result that it be smaller than memory: an
encryption whose result is not does not return (`Allocated`). Theorems: `EncryptorInvariance`,
`EncryptorTypeCorrect`, `SoundCallsGiveBack`, `Base64GivesBack`.

**X25519.** The invariant: every element has limbs between `-2 * Prime19` and
`Radix + 2 * Prime19`, secrets and results are tuples of bytes. Sums and differences of
two such elements are what `fmul` multiplies; each raw product of limbs is then at
most `RawBound` (below 2^44 with the code's constants). After the first carry all
limbs but the lowest are in `0 .. Radix - 1`; in the second one only the carries
out of the first two limbs can be large, from the third on they are -1, 0 or 1, and the
one that comes round is multiplied by `Prime19`: hence the bounds. The carry is a
recursive function, which exists by `StepwiseExists`. `LimbsAreSmall` has the hypothesis
`Room`: more than two limbs and `54 * (Prime19 * Limbs) <= Radix`. The code's numbers
satisfy it (16416 and 65536), the instance of the run does not: its radix is 2^8 with
two limbs, and TLC checks the same bound there on its own. Theorems:
`X25519Invariance`, `LimbsAreSmall`.

Only model-checked:

* `CallEnds` and the first half of `CallReturns`: fairness is out of the prover's reach.
* `FollowsExamples` of `Aes`: about the published examples, which an instance supplies.
* `RefusedOrRestored` of `Encryptor`: no theorem, since for some ciphers two different
  texts have the same tag; the run shows that it does not happen for the one there.
* `NeighboursDiffer`, `KeysAreMultiples` and `SharedKeysAgree` of `X25519`: they need the
  group law of the curve, whose associativity is a fact about polynomials beyond the
  prover's arithmetic.

The prover cannot instantiate the library's induction theorems; where a proof above needs
induction over data, it takes the least counterexample of a set that is written out.

## 7. Not modelled

* The rounds and message schedule of SHA-256: 32-bit arithmetic, which is beyond
  TLC's integers, and no state to explore; `Compress` stands for them.
* `hkdf256ExpandLabel`: builds an info and calls `hkdf256Expand`.
* The pure functions of Tools (hex, UTF-8, ISO 8601, splitting, trimming), `toString` of
  BigInteger, the `const` conversions of ByteBuffer and the unused `transpose` of aes:
  no state, left to unit tests.
* The `uint8_t` counter over the delimiters of `readLine` (`ByteBuffer.cpp:401`): the
  delimiters are a set of few bytes.
* A null `data` longer than one word given to `BitSet` (`BitSet.cpp:37`): the second word
  is read from an address computed from null.
* Logging, examples, build files.

Mutants (definitions marked `Mutant:`) are variants with a plausible bug; each one
makes TLC report the property it is listed with.

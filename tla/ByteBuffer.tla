---------------------------- MODULE ByteBuffer ----------------------------
(***************************************************************************)
(* A client of psi::tools::ByteBuffer: a set of buffer variables that it   *)
(* constructs, calls and destroys in any order, and the heap in which each *)
(* buffer owns one array through the raw pointer m_buffer.  Every          *)
(* allocation may throw std::bad_alloc.                                    *)
(*                                                                         *)
(* What happens inside one array is ByteBufferOps; this module adds who    *)
(* allocates, frees, copies and adopts which array, calls that involve two *)
(* buffers (or one buffer twice), and what a failed allocation leaves      *)
(* behind.                                                                 *)
(***************************************************************************)
EXTENDS ByteBufferOps

CONSTANTS
    Named,      \* the client's ByteBuffer variables
    Temps,      \* the results of operator+ and readToByteBuffer(N), which the
                \* client only reads from before they are destroyed
    Addr,       \* heap addresses
    Null,       \* nullptr
    Inputs,     \* the byte strings the client writes
    HexInputs,  \* the hex strings it writes
    Delims,     \* the delimiters of readLine: {0x0a, 0x0d, 0x17} by default
    LineBlock   \* readLine grows its result by this many bytes: BLOCK_SZ, 64

ASSUME NullAssumption == Null \notin Addr
ASSUME InputAssumption ==
    /\ \A d \in Inputs : d \in Seq(Byte) /\ Len(d) <= MaxSize
    /\ \A h \in HexInputs : h \in Seq(HexChar) /\ Len(h) <= MaxSize
    /\ Delims \subseteq Byte
    /\ LineBlock \in Nat \ {0}

Vars == Named \cup Temps

VARIABLES
    live,       \* the variables that hold a constructed object
    obj,        \* the data members of each object
    allocated,  \* the addresses that hold an array
    heap,       \* the arrays
    ret         \* how the last call ended, and the bytes it returned

vars == <<live, obj, allocated, heap, ret>>

Handle == [m_bufferSz : SizeT, m_buffer : Addr \cup {Null},
           m_readIndex : SizeT, m_writeIndex : SizeT]

Arrays == UNION {Array(n) : n \in 0 .. MaxSize}

\* What a variable without an object holds.
NoObject == Buffer(0, Null, 0, 0)

\* readLine answers "more" or "end": its false is no failure.
Codes == {"void", "true", "false", "more", "end", "throw"}

Init == /\ live = {}
        /\ obj = [x \in Vars |-> NoObject]
        /\ allocated = {}
        /\ heap = [a \in Addr |-> Zeros(0)]
        /\ ret = [code |-> "void", out |-> <<>>]

-----------------------------------------------------------------------------
(* The object behind a variable, the heap, and the ways a call ends.        *)

\* Only an operator= or resize that threw leaves m_buffer null.  The client
\* then destroys the object or gives it a new value with one of these two: most
\* other methods would go through the null pointer, and += would combine the
\* new size with the old cursors.
Callable(x) == x \in live /\ obj[x].m_buffer # Null

\* The object x as one record.
View(x) == Buffer(obj[x].m_bufferSz, heap[obj[x].m_buffer],
                  obj[x].m_readIndex, obj[x].m_writeIndex)

\* The data members of buffer b kept at address a.
HandleOf(b, a) == Buffer(b.m_bufferSz, a, b.m_readIndex, b.m_writeIndex)

Returns(code, out) == ret' = [code |-> code, out |-> out]

\* The call throws before it touches any object.
Throws == /\ Returns("throw", <<>>)
          /\ UNCHANGED <<live, obj, allocated, heap>>

\* operator new for n bytes: any address that is free.
Grants(n, used) == IF n <= MaxSize THEN Addr \ used ELSE {}

\* The heap after delete[] p (a freed address holds the empty array) and after
\* the array of b was put at a.
Freed(p) == [c \in Addr |-> IF c = p THEN Zeros(0) ELSE heap[c]]
Put(h, a, b) == [h EXCEPT ![a] = b.m_buffer]

\* A method changes x, in the array it owns, to r.self and returns.
InPlace(x, r, code) ==
    /\ obj' = [obj EXCEPT ![x] = HandleOf(r.self, @.m_buffer)]
    /\ heap' = Put(heap, obj[x].m_buffer, r.self)
    /\ Returns(code, r.out)
    /\ UNCHANGED <<live, allocated>>

BoolMethod(x, r) == InPlace(x, r, IF r.ok THEN "true" ELSE "false")
VoidMethod(x, b) == InPlace(x, Result(b, TRUE, <<>>), "void")

-----------------------------------------------------------------------------
(* Construction and destruction.                                            *)

\* A constructor of x that allocates once and leaves the object b.
Construct(x, b) ==
    /\ x \notin live
    /\ \/ Throws
       \/ \E a \in Grants(b.m_bufferSz, allocated) :
             /\ live' = live \cup {x}
             /\ obj' = [obj EXCEPT ![x] = HandleOf(b, a)]
             /\ allocated' = allocated \cup {a}
             /\ heap' = Put(heap, a, b)
             /\ Returns("void", <<>>)

ConstructSize(x) == \E n \in SizeT : Construct(x, NewBuffer(n))

\* The constructors from uint8_t* and uint8_t&& take over an array that the
\* client allocated; the whole of it counts as written.
Adopted(bytes) ==
    Buffer(Len(bytes), Poke(Zeros(Len(bytes)), 0, bytes), 0, Len(bytes))
ConstructAdopt(x) == \E d \in Inputs : Construct(x, Adopted(d))

ConstructArray(x) ==
    \E d \in Inputs : Construct(x, writeArray(NewBuffer(Len(d)), d).self)

ConstructString(x) ==
    \E d \in Inputs : Construct(x, writeString(NewBuffer(Len(d)), d).self)

\* An odd number of characters still sets the size, and writes nothing.
ConstructHex(x) ==
    \E h \in HexInputs :
        Construct(x, writeHexString(NewBuffer(Len(h) \div 2), h).self)

\* A copy has its own array and the cursors of the original.
ConstructCopy(x, y) == Callable(y) /\ Construct(x, View(y))

Destroy(x) ==
    /\ x \in live
    /\ live' = live \ {x}
    /\ obj' = [obj EXCEPT ![x] = NoObject]
    /\ allocated' = allocated \ {obj[x].m_buffer}
    /\ heap' = Freed(obj[x].m_buffer)
    /\ Returns("void", <<>>)

-----------------------------------------------------------------------------
(* Calls that replace the array of an object.                               *)

\* Mutant: delete[] m_buffer is missing.
ReallocateLeaking(x, b, a) ==
    /\ obj' = [obj EXCEPT ![x] = HandleOf(b, a)]
    /\ allocated' = allocated \cup {a}
    /\ heap' = Put(heap, a, b)
    /\ Returns("void", <<>>)
    /\ UNCHANGED live

\* The array of x is freed and x becomes b in a new array at a.
Reallocate(x, b, a) ==
    /\ obj' = [obj EXCEPT ![x] = HandleOf(b, a)]
    /\ allocated' = (allocated \ {obj[x].m_buffer}) \cup {a}
    /\ heap' = Put(Freed(obj[x].m_buffer), a, b)
    /\ Returns("void", <<>>)
    /\ UNCHANGED live

\* delete[] m_buffer, then operator new throws: m_buffer is null and
\* m_bufferSz is already the size that was asked for.
LoseArray(x, sz, readIndex, writeIndex) ==
    /\ obj' = [obj EXCEPT ![x] = Buffer(sz, Null, readIndex, writeIndex)]
    /\ allocated' = allocated \ {obj[x].m_buffer}
    /\ heap' = Freed(obj[x].m_buffer)
    /\ Returns("throw", <<>>)
    /\ UNCHANGED live

\* operator=: the cursors are copied last, after the allocation.
Assign(x, y) ==
    /\ x \in live /\ Callable(y)
    /\ \/ /\ x = y
          /\ Returns("void", <<>>) /\ UNCHANGED <<live, obj, allocated, heap>>
       \/ /\ x # y
          /\ \E a \in Grants(obj[y].m_bufferSz, allocated \ {obj[x].m_buffer}) :
                Reallocate(x, View(y), a)
       \/ /\ x # y
          /\ LoseArray(x, obj[y].m_bufferSz, obj[x].m_readIndex, obj[x].m_writeIndex)

\* Mutant: the cursors are not reset.
resizeKeepsCursors(x) ==
    /\ x \in live
    /\ \E n \in SizeT : \E a \in Grants(n, allocated \ {obj[x].m_buffer}) :
          Reallocate(x, Buffer(n, Zeros(n), obj[x].m_readIndex, obj[x].m_writeIndex), a)

\* The bytes do not survive a resize, and both cursors return to 0.
resize(x) ==
    /\ x \in live
    /\ \E n \in SizeT :
        \/ \E a \in Grants(n, allocated \ {obj[x].m_buffer}) :
              Reallocate(x, NewBuffer(n), a)
        \/ LoseArray(x, n, 0, 0)

\* The array of b and n zero bytes after it.
Grown(b, n) ==
    Buffer(b.m_bufferSz + n, [i \in 0 .. (b.m_bufferSz + n - 1) |-> at(b, i)],
           b.m_readIndex, b.m_writeIndex)

\* operator+=: the new array is allocated before the old one is freed; then y
\* is read from its own read cursor to the write cursor of x, and whether that
\* worked is not looked at.
AppendOther(x, y) ==
    LET by == View(y)
        bx == Grown(View(x), by.m_bufferSz)
    IN  /\ Callable(x) /\ Callable(y) /\ x # y
        /\ \/ Throws
           \/ \E a \in Grants(bx.m_bufferSz, allocated) :
                IF CanTransfer(by, bx, by.m_bufferSz)
                THEN LET to == Received(by, bx, by.m_bufferSz)
                     IN  /\ obj' = [obj EXCEPT ![x] = HandleOf(to, a),
                                               ![y] = ReadAt(@, @.m_readIndex + by.m_bufferSz)]
                         /\ allocated' = (allocated \ {obj[x].m_buffer}) \cup {a}
                         /\ heap' = Put(Freed(obj[x].m_buffer), a, to)
                         /\ Returns("void", <<>>)
                         /\ UNCHANGED live
                ELSE Reallocate(x, bx, a)

\* x += x: the argument has already grown, and the array is copied onto itself.
AppendSelf(x) ==
    LET b == Grown(View(x), obj[x].m_bufferSz)
        n == b.m_bufferSz
    IN  /\ Callable(x)
        /\ \/ Throws
           \/ \E a \in Grants(n, allocated) :
                Reallocate(x, IF CanTransfer(b, b, n)
                              THEN ReadAt(WriteAt(b, n), n) ELSE b, a)

\* What operator+ builds from its operands, both read from their first byte.
\* Reading x twice, the second read starts at the end and fails.
Concatenated(bx, by, same) ==
    LET new == NewBuffer(bx.m_bufferSz + by.m_bufferSz)
        first == Received(resetRead(bx), new, bx.m_bufferSz)
        second == IF same THEN ReadAt(by, bx.m_bufferSz) ELSE resetRead(by)
    IN  IF CanTransfer(second, first, by.m_bufferSz)
        THEN Received(second, first, by.m_bufferSz) ELSE first

\* z constructed from x + y: both operands are const, and both lose their
\* read cursor before the allocation and are left fully read after it.
Concat(z, x, y) ==
    LET Rewound(v) == IF v \in {x, y} THEN resetRead(obj[v]) ELSE obj[v]
        ReadOut(v) == IF v \in {x, y} THEN ReadAt(obj[v], obj[v].m_bufferSz) ELSE obj[v]
        b == Concatenated(View(x), View(y), x = y)
    IN  /\ Callable(x) /\ Callable(y) /\ z \notin live
        /\ \/ /\ obj' = [v \in Vars |-> Rewound(v)]
              /\ Returns("throw", <<>>)
              /\ UNCHANGED <<live, allocated, heap>>
           \/ \E a \in Grants(b.m_bufferSz, allocated) :
              /\ live' = live \cup {z}
              /\ obj' = [v \in Vars |-> IF v = z THEN HandleOf(b, a) ELSE ReadOut(v)]
              /\ allocated' = allocated \cup {a}
              /\ heap' = Put(heap, a, b)
              /\ Returns("void", <<>>)
-----------------------------------------------------------------------------
(* Methods that stay inside the array of one object.                        *)

Clear(x) == Callable(x) /\ VoidMethod(x, clear(View(x)))
Reset(x) == Callable(x) /\ VoidMethod(x, reset(View(x)))
ResetRead(x) == Callable(x) /\ VoidMethod(x, resetRead(View(x)))
ResetWrite(x) == Callable(x) /\ VoidMethod(x, resetWrite(View(x)))

\* The client may ask for any size_t.
SkipRead(x) == Callable(x) /\ \E n \in SizeT : BoolMethod(x, skipRead(View(x), n))
SkipWrite(x) == Callable(x) /\ \E n \in SizeT : BoolMethod(x, skipWrite(View(x), n))

Write(x) == Callable(x) /\ \E d \in Inputs : BoolMethod(x, write(View(x), d))
WriteSwapped(x) ==
    Callable(x) /\ \E d \in Inputs : BoolMethod(x, writeSwapped(View(x), d))
WriteHexString(x) ==
    Callable(x) /\ \E h \in HexInputs : BoolMethod(x, writeHexString(View(x), h))

\* operator[] hands out a reference to one byte of the array.
PokeByte(x) ==
    /\ Callable(x)
    /\ \E i \in 0 .. (obj[x].m_bufferSz - 1), v \in {d[1] : d \in Inputs \ {<<>>}} :
         VoidMethod(x, Holding(View(x), Poke(View(x).m_buffer, i, <<v>>)))

\* read, readArray, readBytes and asArray fill n bytes that the client owns.
Read(x) == Callable(x) /\ \E n \in 0 .. MaxSize : BoolMethod(x, read(View(x), n))
ReadSwapped(x) ==
    Callable(x) /\ \E n \in 0 .. MaxSize : BoolMethod(x, readSwapped(View(x), n))

\* readString checks first and then sizes the string, which may throw; it
\* must when the check was passed by wrapping around.
ReadString(x) ==
    /\ Callable(x)
    /\ \E n \in SizeT :
         \/ Fits(View(x), obj[x].m_readIndex, n) /\ Throws
         \/ /\ Fits(View(x), obj[x].m_readIndex, n) => n <= MaxSize
            /\ BoolMethod(x, readString(View(x), n))

\* The result string is reserved for one block and then grows block by block
\* while the cursor advances; the last, incomplete block is added at the end.
LineThrowPoints(b) ==
    LET from == b.m_readIndex
        eol == FirstIn(b, from, Delims)
    IN  {i \in from .. eol : (i - from) % LineBlock = 0 /\ i - from # LineBlock}
        \cup {i \in {readLine(b, Delims).self.m_readIndex} :
                 eol - from > LineBlock /\ (eol - from) % LineBlock # 0}

ReadLine(x) ==
    /\ Callable(x)
    /\ \/ LET r == readLine(View(x), Delims)
          IN  InPlace(x, r, IF r.ok THEN "more" ELSE "end")
       \/ \E i \in LineThrowPoints(View(x)) :
            InPlace(x, Result(ReadAt(View(x), i), TRUE, <<>>), "throw")

-----------------------------------------------------------------------------
(* Reading from one buffer into another.                                    *)

\* readToByteBuffer(N): z is constructed from n bytes of x, or empty.
ReadToNew(z, x) ==
    /\ Callable(x) /\ z \notin live
    /\ \E n \in SizeT :
         \/ /\ ~Fits(View(x), obj[x].m_readIndex, n)
            /\ Construct(z, NewBuffer(0))
         \/ Fits(View(x), obj[x].m_readIndex, n) /\ Throws
         \/ /\ Fits(View(x), obj[x].m_readIndex, n)
            /\ \E a \in Grants(n, allocated) :
                 LET r == readBytes(View(x), n)
                 IN  /\ live' = live \cup {z}
                     /\ obj' = [obj EXCEPT ![x] = ReadAt(@, r.self.m_readIndex),
                                           ![z] = HandleOf(Adopted(r.out), a)]
                     /\ allocated' = allocated \cup {a}
                     /\ heap' = Put(heap, a, Adopted(r.out))
                     /\ Returns("void", <<>>)

\* Mutant: x is read before it is known whether y has room.
TransferReadsFirst(x, y, n) ==
    LET r == readBytes(View(x), n)
    IN  BoolMethod(x, IF CanTransfer(View(x), View(y), n) THEN r
                      ELSE Result(r.self, FALSE, <<>>))

\* readToByteBuffer(y, n) for two different objects.
TransferOther(x, y, n) ==
    LET r == readBytes(View(x), n)
        to == Received(View(x), View(y), n)
    IN  IF CanTransfer(View(x), View(y), n)
        THEN /\ obj' = [obj EXCEPT ![x] = HandleOf(r.self, @.m_buffer),
                                   ![y] = HandleOf(to, @.m_buffer)]
             /\ heap' = Put(heap, obj[y].m_buffer, to)
             /\ Returns("true", <<>>)
             /\ UNCHANGED <<live, allocated>>
        ELSE BoolMethod(x, Result(View(x), FALSE, <<>>))

\* An object read into itself: memcpy between two parts of one array, which is
\* undefined when they overlap without being the same; any bytes may result.
SelfCopies(b, n) ==
    LET from == b.m_readIndex
        to == b.m_writeIndex
    IN  IF from = to \/ from + n <= to \/ to + n <= from
        THEN {Peek(b.m_buffer, from, n)} ELSE [1 .. n -> Byte]

TransferSelf(x, n) ==
    LET b == View(x)
    IN  IF CanTransfer(b, b, n)
        THEN \E bytes \in SelfCopies(b, n) :
               BoolMethod(x, Result(ReadAt(writeArray(b, bytes).self, b.m_readIndex + n),
                                    TRUE, <<>>))
        ELSE BoolMethod(x, Result(b, FALSE, <<>>))

\* readToByteBuffer(buffer, N): n is the size of something the client has.
ReadInto(x, y) ==
    /\ Callable(x) /\ Callable(y)
    /\ \E n \in 0 .. MaxSize : IF x = y THEN TransferSelf(x, n) ELSE TransferOther(x, y, n)

\* readToByteBuffer(buffer): "all bytes" are length() bytes from the cursor.
ReadAllInto(x, y) ==
    /\ Callable(x) /\ Callable(y)
    /\ IF x = y THEN TransferSelf(x, length(View(x)))
                ELSE TransferOther(x, y, length(View(x)))

-----------------------------------------------------------------------------
Lifetime ==
    \/ \E x \in Named : \/ ConstructSize(x) \/ ConstructAdopt(x) \/ ConstructArray(x)
                        \/ ConstructString(x) \/ ConstructHex(x)
    \/ \E x \in Named, y \in Vars : ConstructCopy(x, y)
    \/ \E t \in Temps, x \in Named : ReadToNew(t, x)
    \/ \E t \in Temps, x, y \in Named : Concat(t, x, y)
    \/ \E x \in Vars : Destroy(x)
Calls == \E x \in Named :
    \/ Clear(x) \/ Reset(x) \/ ResetRead(x) \/ ResetWrite(x)
    \/ SkipRead(x) \/ SkipWrite(x)
    \/ Write(x) \/ WriteSwapped(x) \/ WriteHexString(x) \/ PokeByte(x)
    \/ Read(x) \/ ReadSwapped(x) \/ ReadString(x) \/ ReadLine(x)
    \/ resize(x) \/ AppendSelf(x)
Transfers == \E x \in Named, y \in Vars :
    \/ Assign(x, y) \/ AppendOther(x, y) \/ ReadInto(y, x) \/ ReadAllInto(y, x)

Next == Lifetime \/ Calls \/ Transfers

Spec == Init /\ [][Next]_vars

-----------------------------------------------------------------------------
(* Properties.                                                              *)

TypeOK == /\ live \subseteq Vars
          /\ obj \in [Vars -> Handle]
          /\ allocated \subseteq Addr
          /\ heap \in [Addr -> Arrays]
          /\ ret.code \in Codes

\* "Automatically manages memory" (ByteBuffer.h:15): every allocated array is
\* owned by exactly one live object, so nothing is leaked, shared or freed
\* twice, whatever was copied, adopted or appended and wherever operator new
\* threw.
SoleOwner ==
    /\ \A x \in live : obj[x].m_buffer \in allocated \cup {Null}
    /\ \A x, y \in live : obj[x].m_buffer = obj[y].m_buffer =>
                            x = y \/ obj[x].m_buffer = Null
    /\ \A a \in allocated : \E x \in live : obj[x].m_buffer = a

\* Every object that owns an array owns one of exactly m_bufferSz bytes and has
\* both cursors inside it, although the bounds checks wrap around: this is what
\* keeps every memcpy of the class inside the array.
ObjectsWellFormed == \A x \in live : Callable(x) => WellFormed(View(x))

\* "false if operation is failed, readIndex is not changed" (ByteBuffer.h:186
\* and every other bool method): a call that reports failure leaves every
\* object as it was, also when it had two buffers to check.
FailureChangesNothing ==
    [][ret'.code = "false" => UNCHANGED <<live, obj, allocated, heap>>]_vars

\* An exception reaches at most the one object that was being assigned or
\* resized: all others keep their array, its bytes, their size and their write
\* cursor, and no object appears or disappears.
Keeps(x) ==
    /\ obj'[x] = ReadAt(obj[x], obj'[x].m_readIndex)
    /\ Callable(x) => heap'[obj[x].m_buffer] = heap[obj[x].m_buffer]
ThrowIsContained ==
    [][ret'.code = "throw" =>
         live' = live /\ \A x, y \in live : x = y \/ Keeps(x) \/ Keeps(y)]_vars
=============================================================================

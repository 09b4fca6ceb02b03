-------------------------- MODULE ByteBuffer_proofs --------------------------
(***************************************************************************)
(* Memory safety of ByteBuffer, for every width of size_t, every number of *)
(* objects and addresses and every choice of arguments: every array has    *)
(* one owner, every owner's cursors are inside its array, and a call that  *)
(* reports failure changes nothing.                                        *)
(***************************************************************************)
EXTENDS ByteBuffer, ByteBufferLemmas

-----------------------------------------------------------------------------
(* The inductive invariant as a predicate of values, so that a call that    *)
(* changes two objects can be treated as one change after the other.        *)

\* What View(x) is for the object o kept in heap h.
ViewOf(o, h) == Buffer(o.m_bufferSz, h[o.m_buffer], o.m_readIndex, o.m_writeIndex)

Typed(l, os, al, h) == /\ l \subseteq Vars /\ os \in [Vars -> Handle]
                       /\ al \subseteq Addr /\ h \in [Addr -> Arrays]

Owned(l, os, al) ==
    /\ \A x \in l : os[x].m_buffer \in al \cup {Null}
    /\ \A x, y \in l : os[x].m_buffer = os[y].m_buffer => x = y \/ os[x].m_buffer = Null
    /\ \A a \in al : \E x \in l : os[x].m_buffer = a

Formed(l, os, h) == \A x \in l : os[x].m_buffer # Null => WellFormed(ViewOf(os[x], h))

Good(l, os, al, h) == Typed(l, os, al, h) /\ Owned(l, os, al) /\ Formed(l, os, h)

\* The data members of a well-formed buffer, kept at any address, are an object.
LEMMA HandleFacts ==
    ASSUME NEW b, WellFormed(b), NEW a \in Addr \cup {Null}
    PROVE  /\ HandleOf(b, a) \in Handle
           /\ HandleOf(b, a).m_buffer = a
           /\ \A h : h[a] = b.m_buffer => ViewOf(HandleOf(b, a), h) = b
           /\ b.m_buffer \in Arrays
<1>1. /\ b = Buffer(b.m_bufferSz, b.m_buffer, b.m_readIndex, b.m_writeIndex)
      /\ b.m_bufferSz \in Nat /\ b.m_bufferSz <= MaxSize
      /\ b.m_readIndex \in Nat /\ b.m_readIndex <= b.m_bufferSz
      /\ b.m_writeIndex \in Nat /\ b.m_writeIndex <= b.m_bufferSz
      /\ b.m_buffer \in Array(b.m_bufferSz)
      /\ MaxSize \in Nat /\ SizeMod \in Nat /\ 2 * MaxSize < SizeMod
  BY Fields
<1>2. b.m_bufferSz \in SizeT /\ b.m_readIndex \in SizeT /\ b.m_writeIndex \in SizeT
  BY <1>1 DEF SizeT
<1>3. HandleOf(b, a) \in Handle /\ HandleOf(b, a).m_buffer = a
  BY <1>2 DEF HandleOf, Handle, Buffer
<1>4. ASSUME NEW h, h[a] = b.m_buffer PROVE ViewOf(HandleOf(b, a), h) = b
  <2>1. ViewOf(HandleOf(b, a), h) = Buffer(b.m_bufferSz, h[a], b.m_readIndex, b.m_writeIndex)
    BY DEF ViewOf, HandleOf, Buffer
  <2> QED BY <1>1, <1>4, <2>1
<1>5. b.m_buffer \in Arrays
  <2>1. b.m_bufferSz \in 0 .. MaxSize
    BY <1>1
  <2> QED BY <1>1, <2>1 DEF Arrays
<1> QED
  BY <1>3, <1>4, <1>5

\* Nothing changes when an object is written back as it was.
LEMMA WriteBack ==
    ASSUME NEW o \in Handle, NEW h
    PROVE  /\ HandleOf(ViewOf(o, h), o.m_buffer) = o
           /\ ViewOf(o, h).m_buffer = h[o.m_buffer]
           /\ ViewOf(o, h).m_bufferSz = o.m_bufferSz
  BY DEF Handle, HandleOf, ViewOf, Buffer

\* A null or freed m_buffer: the members of the object are still typed.
LEMMA EmptyArray == Zeros(0) \in Arrays
<1>1. Zeros(0) \in Array(0) /\ 0 \in 0 .. MaxSize
  BY SizeAssumption DEF Zeros, Array
<1> QED
  BY <1>1 DEF Arrays

\* A method that stays inside the array of x.
LEMMA GoodInPlace ==
    ASSUME NEW l, NEW os, NEW al, NEW h, Good(l, os, al, h),
           NEW x \in l, os[x].m_buffer # Null, NEW b, WellFormed(b)
    PROVE  Good(l, [os EXCEPT ![x] = HandleOf(b, os[x].m_buffer)], al,
                [h EXCEPT ![os[x].m_buffer] = b.m_buffer])
<1> DEFINE p == os[x].m_buffer
           ps == [os EXCEPT ![x] = HandleOf(b, p)]
           g == [h EXCEPT ![p] = b.m_buffer]
<1>1. /\ l \subseteq Vars /\ os \in [Vars -> Handle] /\ al \subseteq Addr
      /\ h \in [Addr -> Arrays] /\ x \in Vars /\ p \in al /\ p \in Addr
  BY DEF Good, Typed, Owned
<1>2. HandleOf(b, p) \in Handle /\ HandleOf(b, p).m_buffer = p /\ b.m_buffer \in Arrays
      /\ ViewOf(HandleOf(b, p), g) = b
  <2>1. g[p] = b.m_buffer
    BY <1>1
  <2> HIDE DEF g, p
  <2> QED BY <1>1, <2>1, HandleFacts
<1>3. Typed(l, ps, al, g)
  BY <1>1, <1>2 DEF Typed
<1>4. \A y \in Vars : ps[y].m_buffer = os[y].m_buffer
  BY <1>1, <1>2
<1>5. Owned(l, ps, al)
  BY <1>1, <1>4 DEF Good, Owned
<1>6. ASSUME NEW y \in l, ps[y].m_buffer # Null PROVE WellFormed(ViewOf(ps[y], g))
  <2>1. CASE y = x
    BY <1>1, <1>2, <2>1
  <2>2. CASE y # x
    <3>1. ps[y] = os[y] /\ os[y].m_buffer # Null /\ os[y].m_buffer # p
      BY <1>1, <1>4, <1>6, <2>2 DEF Good, Owned
    <3>2. os[y].m_buffer \in Addr
      BY <1>1, <3>1 DEF Good, Owned
    <3>3. g[os[y].m_buffer] = h[os[y].m_buffer]
      BY <1>1, <3>1, <3>2
    <3>4. ViewOf(ps[y], g) = ViewOf(os[y], h)
      BY <3>1, <3>3 DEF ViewOf
    <3> QED BY <3>1, <3>4 DEF Good, Formed
  <2> QED BY <2>1, <2>2
<1> QED
  BY <1>3, <1>5, <1>6 DEF Good, Formed

\* A new object in a new array.
LEMMA GoodNew ==
    ASSUME NEW l, NEW os, NEW al, NEW h, Good(l, os, al, h),
           NEW x \in Vars, x \notin l, NEW a \in Addr, a \notin al,
           NEW b, WellFormed(b)
    PROVE  Good(l \cup {x}, [os EXCEPT ![x] = HandleOf(b, a)], al \cup {a},
                [h EXCEPT ![a] = b.m_buffer])
<1> DEFINE ps == [os EXCEPT ![x] = HandleOf(b, a)]
           g == [h EXCEPT ![a] = b.m_buffer]
<1>1. /\ l \subseteq Vars /\ os \in [Vars -> Handle] /\ al \subseteq Addr
      /\ h \in [Addr -> Arrays]
  BY DEF Good, Typed
<1>2. HandleOf(b, a) \in Handle /\ HandleOf(b, a).m_buffer = a /\ b.m_buffer \in Arrays
      /\ ViewOf(HandleOf(b, a), g) = b
  <2>1. g[a] = b.m_buffer
    BY <1>1
  <2> HIDE DEF g
  <2> QED BY <1>1, <2>1, HandleFacts
<1>3. Typed(l \cup {x}, ps, al \cup {a}, g)
  BY <1>1, <1>2 DEF Typed
<1>4. ps[x] = HandleOf(b, a) /\ \A y \in l : ps[y] = os[y] /\ os[y].m_buffer # a
  <2>1. ps[x] = HandleOf(b, a) /\ \A y \in l : ps[y] = os[y]
    BY <1>1
  <2>2. \A y \in l : os[y].m_buffer # a
    BY <1>1, NullAssumption DEF Good, Owned
  <2> QED BY <2>1, <2>2
<1> HIDE DEF ps
<1>5. Owned(l \cup {x}, ps, al \cup {a})
  BY <1>2, <1>4 DEF Good, Owned
<1>6. ASSUME NEW y \in l, ps[y].m_buffer # Null PROVE WellFormed(ViewOf(ps[y], g))
  <2>1. ps[y] = os[y] /\ os[y].m_buffer # a /\ os[y].m_buffer # Null
    BY <1>4, <1>6
  <2>2. os[y].m_buffer \in Addr
    BY <1>1, <2>1 DEF Good, Owned
  <2>3. g[os[y].m_buffer] = h[os[y].m_buffer]
    BY <1>1, <2>1, <2>2
  <2>4. ViewOf(ps[y], g) = ViewOf(os[y], h)
    BY <2>1, <2>3 DEF ViewOf
  <2> QED BY <2>1, <2>4 DEF Good, Formed
<1>7. WellFormed(ViewOf(ps[x], g))
  BY <1>2, <1>4
<1>8. Good(l \cup {x}, ps, al \cup {a}, g)
  BY <1>3, <1>5, <1>6, <1>7 DEF Good, Formed
<1> QED
  BY <1>8 DEF ps

\* The heap after delete[] p.
FreedIn(h, p) == [c \in Addr |-> IF c = p THEN Zeros(0) ELSE h[c]]

\* An object that gives up its array, and is gone or keeps a null pointer.
LEMMA GoodLose ==
    ASSUME NEW l, NEW os, NEW al, NEW h, Good(l, os, al, h), NEW x \in l,
           NEW o \in Handle, o.m_buffer = Null, NEW m, m = l \/ m = l \ {x}
    PROVE  Good(m, [os EXCEPT ![x] = o], al \ {os[x].m_buffer},
                FreedIn(h, os[x].m_buffer))
<1> DEFINE p == os[x].m_buffer
           ps == [os EXCEPT ![x] = o]
           g == FreedIn(h, p)
<1>1. /\ l \subseteq Vars /\ os \in [Vars -> Handle] /\ al \subseteq Addr
      /\ h \in [Addr -> Arrays] /\ x \in Vars /\ m \subseteq l
      /\ \A y \in l : y = x \/ y \in m
  BY DEF Good, Typed
<1>2. g \in [Addr -> Arrays] /\ \A c \in Addr : c # p => g[c] = h[c]
  BY <1>1, EmptyArray DEF FreedIn
<1>3. Typed(m, ps, al \ {p}, g)
  BY <1>1, <1>2 DEF Typed
<1>4. ps[x] = o /\ \A y \in l : y # x => ps[y] = os[y] /\ (os[y].m_buffer # p \/ p = Null)
  <2>1. ps[x] = o /\ \A y \in l : y # x => ps[y] = os[y]
    BY <1>1
  <2>2. \A y \in l : y # x => os[y].m_buffer # p \/ p = Null
    BY DEF Good, Owned
  <2> QED BY <2>1, <2>2
<1>5. \A y \in l : os[y].m_buffer \in al \cup {Null}
  BY DEF Good, Owned
<1>6. Owned(m, ps, al \ {p})
  <2>0. Null \notin al
    BY <1>1, NullAssumption
  <2>1. \A y \in m : ps[y].m_buffer \in (al \ {p}) \cup {Null}
    <3>1. ASSUME NEW y \in m, y # x PROVE ps[y].m_buffer \in (al \ {p}) \cup {Null}
      BY <1>1, <1>4, <1>5, <3>1, <2>0
    <3>2. ps[x].m_buffer = Null
      BY <1>4
    <3> QED BY <3>1, <3>2
  <2>2. \A y, z \in m : ps[y].m_buffer = ps[z].m_buffer => y = z \/ ps[y].m_buffer = Null
    <3>1. \A y, z \in l : os[y].m_buffer = os[z].m_buffer => y = z \/ os[y].m_buffer = Null
      BY DEF Good, Owned
    <3> HIDE DEF ps
    <3> QED BY <1>1, <1>4, <3>1
  <2>3. ASSUME NEW a \in al \ {p} PROVE \E y \in m : ps[y].m_buffer = a
    <3>1. PICK y \in l : os[y].m_buffer = a
      BY DEF Good, Owned
    <3>2. y # x
      BY <3>1, <2>3
    <3> QED BY <1>1, <1>4, <3>1, <3>2
  <2> QED BY <2>1, <2>2, <2>3 DEF Owned
<1>7. ASSUME NEW y \in m, ps[y].m_buffer # Null PROVE WellFormed(ViewOf(ps[y], g))
  <2>1. y # x /\ y \in l
    BY <1>1, <1>4, <1>7
  <2>2. ps[y] = os[y] /\ os[y].m_buffer # p /\ os[y].m_buffer # Null
    BY <1>4, <1>7, <2>1
  <2>3. os[y].m_buffer \in Addr
    BY <1>1, <1>5, <2>1, <2>2
  <2>4. g[os[y].m_buffer] = h[os[y].m_buffer]
    BY <1>2, <2>2, <2>3
  <2>5. ViewOf(ps[y], g) = ViewOf(os[y], h)
    BY <2>2, <2>4 DEF ViewOf
  <2> QED BY <2>1, <2>2, <2>5 DEF Good, Formed
<1> QED
  BY <1>3, <1>6, <1>7 DEF Good, Formed

\* An object that exchanges its array for a new one: it loses one and is built
\* again.
LEMMA GoodReplace ==
    ASSUME NEW l, NEW os, NEW al, NEW h, Good(l, os, al, h), NEW x \in l,
           NEW a \in Addr, a \notin al \ {os[x].m_buffer}, NEW b, WellFormed(b)
    PROVE  Good(l, [os EXCEPT ![x] = HandleOf(b, a)], (al \ {os[x].m_buffer}) \cup {a},
                [FreedIn(h, os[x].m_buffer) EXCEPT ![a] = b.m_buffer])
<1> DEFINE ps == [os EXCEPT ![x] = NoObject]
           p == os[x].m_buffer
<1>1. l \subseteq Vars /\ x \in Vars /\ os \in [Vars -> Handle]
  BY DEF Good, Typed
<1>2. NoObject \in Handle /\ NoObject.m_buffer = Null
  BY SizeAssumption DEF NoObject, Handle, Buffer, SizeT
<1>3. Good(l \ {x}, ps, al \ {p}, FreedIn(h, p))
  BY <1>2, GoodLose
<1>4. [ps EXCEPT ![x] = HandleOf(b, a)] = [os EXCEPT ![x] = HandleOf(b, a)]
  BY <1>1
<1>5. (l \ {x}) \cup {x} = l
  OBVIOUS
<1> HIDE DEF ps, p
<1>6. Good((l \ {x}) \cup {x}, [ps EXCEPT ![x] = HandleOf(b, a)], (al \ {p}) \cup {a},
           [FreedIn(h, p) EXCEPT ![a] = b.m_buffer])
  <2>1. x \notin l \ {x} /\ a \notin al \ {p}
    BY DEF p
  <2> QED BY <1>1, <1>3, <2>1, GoodNew
<1> QED
  BY <1>4, <1>5, <1>6 DEF p

-----------------------------------------------------------------------------
(* One step of the client.                                                  *)

\* The inductive invariant.
Inv == TypeOK /\ SoleOwner /\ ObjectsWellFormed

\* What the step properties ask of a call that throws: at most one object, if
\* any, has more than its read cursor changed.
Contained == live' = live /\ \E x : \A y \in live : y = x \/ Keeps(y)

\* What is shown of every step.
StepOK == /\ Inv'
          /\ ret'.code = "false" => UNCHANGED <<live, obj, allocated, heap>>
          /\ ret'.code = "throw" => Contained

LEMMA InvFacts ==
    /\ Inv <=> Good(live, obj, allocated, heap) /\ ret.code \in Codes
    /\ Inv' <=> Good(live', obj', allocated', heap') /\ ret'.code \in Codes
    /\ \A x : View(x) = ViewOf(obj[x], heap)
  BY DEF Inv, TypeOK, SoleOwner, ObjectsWellFormed, Callable, View, Good, Typed, Owned,
         Formed, ViewOf

\* What the invariant says of an object that may be called.
LEMMA CallFacts ==
    ASSUME Inv, NEW x, Callable(x)
    PROVE  /\ x \in live /\ x \in Vars /\ obj[x] \in Handle
           /\ obj[x].m_buffer \in allocated /\ obj[x].m_buffer \in Addr
           /\ obj[x].m_buffer # Null
           /\ WellFormed(View(x))
           /\ HandleOf(View(x), obj[x].m_buffer) = obj[x]
           /\ View(x).m_buffer = heap[obj[x].m_buffer]
           /\ View(x).m_bufferSz = obj[x].m_bufferSz
           /\ View(x).m_readIndex = obj[x].m_readIndex
           /\ View(x).m_writeIndex = obj[x].m_writeIndex
<1>1. /\ x \in live /\ x \in Vars /\ obj[x] \in Handle /\ obj[x].m_buffer # Null
      /\ WellFormed(View(x)) /\ obj[x].m_buffer \in allocated /\ obj[x].m_buffer \in Addr
  BY DEF Inv, TypeOK, SoleOwner, ObjectsWellFormed, Callable
<1>2. View(x) = ViewOf(obj[x], heap)
  BY InvFacts
<1> QED
  BY <1>1, <1>2, WriteBack DEF ViewOf, Buffer

\* An object that is left alone is kept.
LEMMA KeepFacts ==
    ASSUME Inv, NEW y \in live, obj'[y] = obj[y],
           Callable(y) => heap'[obj[y].m_buffer] = heap[obj[y].m_buffer]
    PROVE  Keeps(y)
<1>1. obj[y] \in Handle
  BY DEF Inv, TypeOK
<1> QED
  BY <1>1 DEF Keeps, Handle, ReadAt, Buffer

\* A call that throws before it changes anything.
LEMMA ThrowsStep ==
    ASSUME Inv, Throws PROVE StepOK
<1>1. live' = live /\ obj' = obj /\ allocated' = allocated /\ heap' = heap
      /\ ret'.code = "throw"
  BY DEF Throws, Returns
<1>2. Inv'
  BY <1>1, InvFacts DEF Codes
<1>3. \A y \in live : Keeps(y)
  BY <1>1, KeepFacts
<1> QED
  BY <1>1, <1>2, <1>3 DEF StepOK, Contained

\* A method that stays inside one object.
LEMMA InPlaceStep ==
    ASSUME Inv, NEW x, Callable(x), NEW r, WellFormed(r.self),
           NEW code \in Codes, InPlace(x, r, code),
           code = "false" => r.self = View(x)
    PROVE  StepOK
<1> DEFINE p == obj[x].m_buffer
<1>1. /\ obj' = [obj EXCEPT ![x] = HandleOf(r.self, p)]
      /\ heap' = [heap EXCEPT ![p] = r.self.m_buffer]
      /\ live' = live /\ allocated' = allocated /\ ret'.code = code
  BY DEF InPlace, Put, Returns
<1>2. /\ x \in live /\ x \in Vars /\ p \in Addr /\ p # Null
      /\ HandleOf(View(x), p) = obj[x] /\ View(x).m_buffer = heap[p]
  BY CallFacts
<1>3. obj \in [Vars -> Handle] /\ heap \in [Addr -> Arrays]
  BY DEF Inv, TypeOK
<1>4. Inv'
  <2>1. Good(live, obj, allocated, heap)
    BY InvFacts
  <2>2. Good(live, obj', allocated, heap')
    BY <1>1, <1>2, <2>1, GoodInPlace
  <2> QED BY <1>1, <2>2, InvFacts
<1>5. ASSUME code = "false" PROVE UNCHANGED <<live, obj, allocated, heap>>
  <2>1. r.self = View(x)
    BY <1>5
  <2>2. obj' = obj
    BY <1>1, <1>2, <1>3, <2>1
  <2>3. heap' = heap
    BY <1>1, <1>2, <1>3, <2>1
  <2> QED BY <1>1, <2>2, <2>3
<1>6. Contained
  <2>1. ASSUME NEW y \in live, y # x PROVE Keeps(y)
    <3>1. obj'[y] = obj[y]
      BY <1>1, <1>3, <2>1
    <3>2. ASSUME Callable(y) PROVE heap'[obj[y].m_buffer] = heap[obj[y].m_buffer]
      <4>1. obj[y].m_buffer # p
        BY <1>2, <2>1, <3>2 DEF Inv, SoleOwner
      <4>2. obj[y].m_buffer \in Addr
        BY <3>2, CallFacts
      <4> QED BY <1>1, <1>3, <4>1, <4>2
    <3> QED BY <3>1, <3>2, KeepFacts
  <2> QED BY <1>1, <2>1 DEF Contained
<1> QED
  BY <1>1, <1>4, <1>5, <1>6 DEF StepOK

\* The two usual kinds of method.
LEMMA MethodStep ==
    ASSUME Inv, NEW x, Callable(x), NEW r, NEW b,
           \/ Honest(View(x), r) /\ BoolMethod(x, r)
           \/ WellFormed(b) /\ VoidMethod(x, b)
    PROVE  StepOK
<1>1. CASE Honest(View(x), r) /\ BoolMethod(x, r)
  <2> DEFINE code == IF r.ok THEN "true" ELSE "false"
  <2>1. WellFormed(r.self) /\ InPlace(x, r, code)
    BY <1>1 DEF Honest, BoolMethod
  <2>2. code \in Codes
    BY DEF Codes
  <2>3. code = "false" => r.self = View(x)
    BY <1>1 DEF Honest
  <2> HIDE DEF code
  <2> QED BY <2>1, <2>2, <2>3, InPlaceStep
<1>2. CASE WellFormed(b) /\ VoidMethod(x, b)
  <2>1. InPlace(x, Result(b, TRUE, <<>>), "void")
    BY <1>2 DEF VoidMethod
  <2>2. Result(b, TRUE, <<>>).self = b /\ "void" \in Codes /\ "void" # "false"
    BY DEF Result, Codes
  <2> QED BY <1>2, <2>1, <2>2, InPlaceStep
<1> QED
  BY <1>1, <1>2

\* A constructor that allocates once, or throws.
LEMMA ConstructStep ==
    ASSUME Inv, NEW x \in Vars, NEW b, b.m_bufferSz <= MaxSize => WellFormed(b),
           Construct(x, b)
    PROVE  StepOK
<1>1. CASE Throws
  BY <1>1, ThrowsStep
<1>2. ASSUME NEW a \in Grants(b.m_bufferSz, allocated),
             live' = live \cup {x}, obj' = [obj EXCEPT ![x] = HandleOf(b, a)],
             allocated' = allocated \cup {a}, heap' = Put(heap, a, b),
             Returns("void", <<>>)
      PROVE  StepOK
  <2>1. a \in Addr /\ a \notin allocated /\ WellFormed(b)
    BY DEF Grants
  <2>2. x \notin live /\ Good(live, obj, allocated, heap)
    BY InvFacts DEF Construct
  <2>3. Good(live', obj', allocated', heap')
    BY <1>2, <2>1, <2>2, GoodNew DEF Put
  <2>4. ret'.code = "void"
    BY <1>2 DEF Returns
  <2> QED BY <2>3, <2>4, InvFacts DEF StepOK, Codes
<1> QED
  BY <1>1, <1>2 DEF Construct

\* The arguments of the constructors.
LEMMA InputBuffers ==
    /\ \A n \in SizeT : n <= MaxSize => WellFormed(NewBuffer(n))
    /\ \A d \in Inputs : /\ WellFormed(Adopted(d))
                         /\ WellFormed(writeArray(NewBuffer(Len(d)), d).self)
    /\ \A h \in HexInputs : WellFormed(writeHexString(NewBuffer(Len(h) \div 2), h).self)
<1>1. ASSUME NEW n \in SizeT, n <= MaxSize PROVE WellFormed(NewBuffer(n))
  <2>1. n \in Nat
    BY SizeAssumption DEF SizeT
  <2> QED BY <1>1, <2>1, NewBufferFacts
<1>2. ASSUME NEW d \in Seq(Byte), Len(d) <= MaxSize
      PROVE  WellFormed(Adopted(d)) /\ WellFormed(writeArray(NewBuffer(Len(d)), d).self)
  <2>1. Len(d) \in Nat
    OBVIOUS
  <2>2. WellFormed(NewBuffer(Len(d)))
    BY <1>2, <2>1, NewBufferFacts
  <2>3. Zeros(Len(d)) \in Array(Len(d))
    BY ByteFacts DEF Zeros, Array
  <2>4. Poke(Zeros(Len(d)), 0, d) \in Array(Len(d))
    BY <2>1, <2>3, PokeFacts
  <2>5. WellFormed(Adopted(d))
    BY <1>2, <2>1, <2>4, Assemble DEF Adopted
  <2> QED BY <2>2, <2>5, WriteFacts DEF Honest
<1>3. ASSUME NEW h \in HexInputs
      PROVE  WellFormed(writeHexString(NewBuffer(Len(h) \div 2), h).self)
  <2>1. h \in Seq(HexChar) /\ Len(h) <= MaxSize /\ Len(h) \in Nat
    BY InputAssumption
  <2>2. Len(h) \div 2 \in Nat /\ Len(h) \div 2 <= MaxSize
    BY <2>1, SizeAssumption
  <2>3. WellFormed(NewBuffer(Len(h) \div 2))
    BY <2>2, NewBufferFacts
  <2>4. HexBytes(h) \in Seq(Byte)
    BY <2>1, HexFacts
  <2>5. WellFormed(writeArray(NewBuffer(Len(h) \div 2), HexBytes(h)).self)
    BY <2>3, <2>4, WriteFacts DEF Honest
  <2> QED BY <2>3, <2>5 DEF writeHexString, Result
<1> QED
  BY <1>1, <1>2, <1>3, InputAssumption

\* An object that is destroyed.
LEMMA DestroyStep ==
    ASSUME Inv, NEW x, Destroy(x) PROVE StepOK
<1>1. NoObject \in Handle /\ NoObject.m_buffer = Null
  BY SizeAssumption DEF NoObject, Handle, Buffer, SizeT
<1>2. Good(live, obj, allocated, heap) /\ x \in live
  BY InvFacts DEF Destroy
<1>3. /\ live' = live \ {x} /\ obj' = [obj EXCEPT ![x] = NoObject]
      /\ allocated' = allocated \ {obj[x].m_buffer}
      /\ heap' = FreedIn(heap, obj[x].m_buffer) /\ ret'.code = "void"
  BY DEF Destroy, Freed, FreedIn, Returns
<1>4. Good(live', obj', allocated', heap')
  BY <1>1, <1>2, <1>3, GoodLose
<1> QED
  BY <1>3, <1>4, InvFacts DEF StepOK, Codes

\* An object that gets a new array.
LEMMA ReallocateStep ==
    ASSUME Inv, NEW x \in live, NEW b, NEW n, n <= MaxSize => WellFormed(b),
           NEW a \in Grants(n, allocated \ {obj[x].m_buffer}), Reallocate(x, b, a)
    PROVE  StepOK
<1>1. a \in Addr /\ a \notin allocated \ {obj[x].m_buffer} /\ WellFormed(b)
  BY DEF Grants
<1>2. Good(live, obj, allocated, heap)
  BY InvFacts
<1>3. /\ live' = live /\ obj' = [obj EXCEPT ![x] = HandleOf(b, a)]
      /\ allocated' = (allocated \ {obj[x].m_buffer}) \cup {a}
      /\ heap' = [FreedIn(heap, obj[x].m_buffer) EXCEPT ![a] = b.m_buffer]
      /\ ret'.code = "void"
  BY DEF Reallocate, Put, Freed, FreedIn, Returns
<1>4. Good(live', obj', allocated', heap')
  BY <1>1, <1>2, <1>3, GoodReplace
<1> QED
  BY <1>3, <1>4, InvFacts DEF StepOK, Codes

\* An object whose new array could not be allocated.
LEMMA LoseArrayStep ==
    ASSUME Inv, NEW x \in live, NEW sz \in SizeT, NEW i \in SizeT, NEW j \in SizeT,
           LoseArray(x, sz, i, j)
    PROVE  StepOK
<1> DEFINE o == Buffer(sz, Null, i, j)
<1>1. o \in Handle /\ o.m_buffer = Null
  BY DEF Handle, Buffer
<1>2. Good(live, obj, allocated, heap)
  BY InvFacts
<1>3. /\ obj' = [obj EXCEPT ![x] = o] /\ allocated' = allocated \ {obj[x].m_buffer}
      /\ heap' = FreedIn(heap, obj[x].m_buffer) /\ live' = live /\ ret'.code = "throw"
  BY DEF LoseArray, Freed, FreedIn, Returns
<1> HIDE DEF o
<1>4. Good(live', obj', allocated', heap')
  BY <1>1, <1>2, <1>3, GoodLose
<1>5. ASSUME NEW y \in live, y # x PROVE Keeps(y)
  <2>1. obj'[y] = obj[y]
    BY <1>3, <1>5 DEF Inv, TypeOK
  <2>2. ASSUME Callable(y) PROVE heap'[obj[y].m_buffer] = heap[obj[y].m_buffer]
    <3>1. obj[y].m_buffer # obj[x].m_buffer /\ obj[y].m_buffer \in Addr
      BY <1>5, <2>2, CallFacts DEF Inv, SoleOwner
    <3> QED BY <1>3, <3>1 DEF FreedIn
  <2> QED BY <2>1, <2>2, KeepFacts
<1>6. Contained
  BY <1>3, <1>5 DEF Contained
<1> QED
  BY <1>3, <1>4, <1>6, InvFacts DEF StepOK, Codes

\* operator= and resize.
LEMMA AssignStep ==
    ASSUME Inv, NEW x, NEW y, Assign(x, y) PROVE StepOK
<1>1. /\ x \in live /\ obj[x] \in Handle /\ WellFormed(View(y)) /\ obj[y] \in Handle
  BY CallFacts DEF Assign, Inv, TypeOK
<1>2. /\ obj[y].m_bufferSz \in SizeT
      /\ obj[x].m_readIndex \in SizeT /\ obj[x].m_writeIndex \in SizeT
  BY <1>1 DEF Handle
<1>3. CASE Returns("void", <<>>) /\ UNCHANGED <<live, obj, allocated, heap>>
  BY <1>3, InvFacts DEF Returns, StepOK, Codes
<1>4. ASSUME NEW a \in Grants(obj[y].m_bufferSz, allocated \ {obj[x].m_buffer}),
             Reallocate(x, View(y), a)
      PROVE  StepOK
  BY <1>1, <1>4, ReallocateStep
<1>5. CASE LoseArray(x, obj[y].m_bufferSz, obj[x].m_readIndex, obj[x].m_writeIndex)
  BY <1>1, <1>2, <1>5, LoseArrayStep
<1> QED
  BY <1>3, <1>4, <1>5 DEF Assign

LEMMA ResizeStep ==
    ASSUME Inv, NEW x, resize(x) PROVE StepOK
<1>1. x \in live /\ 0 \in SizeT
  BY SizeAssumption DEF resize, SizeT
<1>2. PICK n \in SizeT :
        \/ \E a \in Grants(n, allocated \ {obj[x].m_buffer}) : Reallocate(x, NewBuffer(n), a)
        \/ LoseArray(x, n, 0, 0)
  BY DEF resize
<1>3. ASSUME NEW a \in Grants(n, allocated \ {obj[x].m_buffer}),
             Reallocate(x, NewBuffer(n), a)
      PROVE  StepOK
  <2>1. n <= MaxSize => WellFormed(NewBuffer(n))
    BY InputBuffers
  <2> QED BY <1>1, <1>3, <2>1, ReallocateStep
<1>4. CASE LoseArray(x, n, 0, 0)
  BY <1>1, <1>4, LoseArrayStep
<1> QED
  BY <1>2, <1>3, <1>4

\* Only the read cursor of an object is moved.
LEMMA GoodCursor ==
    ASSUME NEW l, NEW os, NEW al, NEW h, Good(l, os, al, h), NEW x \in l,
           os[x].m_buffer # Null, NEW i \in Nat, i <= os[x].m_bufferSz
    PROVE  Good(l, [os EXCEPT ![x] = ReadAt(os[x], i)], al, h)
<1> DEFINE b == ViewOf(os[x], h)
           p == os[x].m_buffer
<1>1. /\ x \in Vars /\ os[x] \in Handle /\ h \in [Addr -> Arrays] /\ p \in Addr
      /\ WellFormed(b)
  BY DEF Good, Typed, Owned, Formed
<1>2. b.m_bufferSz = os[x].m_bufferSz /\ b.m_buffer = h[p]
  BY DEF ViewOf, Buffer
<1>3. b.m_buffer \in Array(b.m_bufferSz)
  BY <1>1, Fields
<1>4. WellFormed(ReadAt(b, i))
  <2> HIDE DEF b
  <2> QED BY <1>1, <1>2, <1>3, Updates
<1>5. HandleOf(ReadAt(b, i), p) = ReadAt(os[x], i) /\ ReadAt(b, i).m_buffer = h[p]
  BY DEF HandleOf, ReadAt, ViewOf, Buffer
<1>6. [h EXCEPT ![p] = h[p]] = h
  BY <1>1
<1>7. Good(l, [os EXCEPT ![x] = HandleOf(ReadAt(b, i), os[x].m_buffer)], al,
           [h EXCEPT ![os[x].m_buffer] = ReadAt(b, i).m_buffer])
  <2> HIDE DEF b
  <2> QED BY <1>4, GoodInPlace
<1> QED
  BY <1>5, <1>6, <1>7

\* The array of an object and some zero bytes after it.
LEMMA GrownFacts ==
    ASSUME NEW b, WellFormed(b), NEW n \in Nat
    PROVE  /\ Grown(b, n).m_bufferSz = b.m_bufferSz + n
           /\ b.m_bufferSz + n <= MaxSize => WellFormed(Grown(b, n))
<1>1. /\ b.m_bufferSz \in Nat /\ b.m_buffer \in Array(b.m_bufferSz)
      /\ b.m_readIndex \in Nat /\ b.m_readIndex <= b.m_bufferSz
      /\ b.m_writeIndex \in Nat /\ b.m_writeIndex <= b.m_bufferSz
  BY Fields
<1> DEFINE arr == [i \in 0 .. (b.m_bufferSz + n - 1) |-> at(b, i)]
<1>2. ASSUME NEW i \in 0 .. (b.m_bufferSz + n - 1) PROVE at(b, i) \in Byte
  <2>1. CASE i >= b.m_bufferSz
    BY <2>1, ByteFacts DEF at
  <2>2. CASE ~(i >= b.m_bufferSz)
    <3>1. i \in 0 .. (b.m_bufferSz - 1)
      BY <1>1, <2>2
    <3> QED BY <1>1, <2>2, <3>1 DEF at, Array
  <2> QED BY <2>1, <2>2
<1>3. arr \in Array(b.m_bufferSz + n)
  BY <1>1, <1>2 DEF Array
<1>4. b.m_bufferSz + n \in Nat /\ b.m_readIndex <= b.m_bufferSz + n
      /\ b.m_writeIndex <= b.m_bufferSz + n
  BY <1>1
<1>5. Grown(b, n) = Buffer(b.m_bufferSz + n, arr, b.m_readIndex, b.m_writeIndex)
  BY DEF Grown
<1> HIDE DEF arr
<1>6. b.m_bufferSz + n <= MaxSize => WellFormed(Grown(b, n))
  BY <1>1, <1>3, <1>4, <1>5, Assemble
<1> QED
  BY <1>5, <1>6 DEF Buffer

\* What arrives in another buffer.
LEMMA ReceivedFacts ==
    ASSUME NEW a, WellFormed(a), NEW b, NEW n \in Nat, n <= MaxSize
    PROVE  /\ Received(a, b, n).m_bufferSz = b.m_bufferSz
           /\ WellFormed(b) => WellFormed(Received(a, b, n))
           /\ CanTransfer(a, b, n) => a.m_readIndex + n <= a.m_bufferSz
<1>1. readBytes(a, n).out \in Seq(Byte)
      /\ (Fits(a, a.m_readIndex, n) <=> a.m_readIndex + n <= a.m_bufferSz)
  BY ReadFacts
<1>2. WellFormed(b) => WellFormed(Received(a, b, n))
  BY <1>1, WriteFacts DEF Received, Honest
<1>3. Received(a, b, n).m_bufferSz = b.m_bufferSz
  BY DEF Received, writeArray, Result, WriteAt, Holding, Buffer
<1> QED
  BY <1>1, <1>2, <1>3 DEF CanTransfer

\* operator+= with another object.
LEMMA AppendOtherStep ==
    ASSUME Inv, NEW x, NEW y, AppendOther(x, y) PROVE StepOK
<1> DEFINE by == View(y)
           bx == Grown(View(x), by.m_bufferSz)
           n == by.m_bufferSz
           p == obj[x].m_buffer
<1>0. Callable(x) /\ Callable(y) /\ x # y
  BY DEF AppendOther
<1>1. /\ x \in live /\ y \in live /\ x \in Vars /\ y \in Vars
      /\ WellFormed(View(x)) /\ WellFormed(by)
      /\ by.m_bufferSz = obj[y].m_bufferSz /\ by.m_readIndex = obj[y].m_readIndex
      /\ obj[y].m_buffer # Null
  BY <1>0, CallFacts
<1>2. /\ n \in Nat /\ n <= MaxSize /\ by.m_readIndex \in Nat
      /\ View(x).m_bufferSz \in Nat
  BY <1>1, Fields
<1>3. bx.m_bufferSz = View(x).m_bufferSz + n /\ (bx.m_bufferSz <= MaxSize => WellFormed(bx))
  BY <1>1, <1>2, GrownFacts
<1>4. CASE Throws
  BY <1>4, ThrowsStep
<1>5. ASSUME NEW a \in Grants(bx.m_bufferSz, allocated) PROVE
        a \in Grants(bx.m_bufferSz, allocated \ {p}) /\ a \in Addr /\ a \notin allocated \ {p}
        /\ bx.m_bufferSz <= MaxSize
  BY DEF Grants
<1>6. ASSUME NEW a \in Grants(bx.m_bufferSz, allocated), Reallocate(x, bx, a)
      PROVE  StepOK
  BY <1>1, <1>3, <1>5, <1>6, ReallocateStep
<1>7. ASSUME NEW a \in Grants(bx.m_bufferSz, allocated), CanTransfer(by, bx, n),
             NEW to, to = Received(by, bx, n),
             obj' = [obj EXCEPT ![x] = HandleOf(to, a), ![y] = ReadAt(@, @.m_readIndex + n)],
             allocated' = (allocated \ {p}) \cup {a},
             heap' = Put(Freed(p), a, to), Returns("void", <<>>), live' = live
      PROVE  StepOK
  <2> DEFINE i == obj[y].m_readIndex + n
             os == [obj EXCEPT ![y] = ReadAt(obj[y], i)]
  <2>1. WellFormed(to) /\ i \in Nat /\ i <= obj[y].m_bufferSz
    <3> HIDE DEF bx, by
    <3> QED BY <1>1, <1>2, <1>3, <1>5, <1>7, ReceivedFacts DEF n
  <2>2. Good(live, obj, allocated, heap) /\ obj \in [Vars -> Handle]
    BY InvFacts DEF Inv, TypeOK
  <2> HIDE DEF i
  <2>3. Good(live, os, allocated, heap)
    BY <1>1, <2>1, <2>2, GoodCursor
  <2>4. os[x] = obj[x]
    BY <1>0, <1>1, <2>2
  <2>5. obj' = [os EXCEPT ![x] = HandleOf(to, a)]
    BY <1>0, <1>1, <1>7, <2>2 DEF i
  <2>6. heap' = [FreedIn(heap, p) EXCEPT ![a] = to.m_buffer]
    BY <1>7 DEF Put, Freed, FreedIn
  <2> HIDE DEF os
  <2>7. Good(live, [os EXCEPT ![x] = HandleOf(to, a)], (allocated \ {os[x].m_buffer}) \cup {a},
             [FreedIn(heap, os[x].m_buffer) EXCEPT ![a] = to.m_buffer])
    <3>1. a \in Addr /\ a \notin allocated \ {os[x].m_buffer}
      BY <1>5, <2>4
    <3> QED BY <1>1, <2>1, <2>3, <3>1, GoodReplace
  <2>8. Good(live', obj', allocated', heap')
    BY <1>7, <2>4, <2>5, <2>6, <2>7
  <2> QED BY <1>7, <2>8, InvFacts DEF Returns, StepOK, Codes
<1> QED
  BY <1>4, <1>6, <1>7 DEF AppendOther

\* operator+= with the object itself.
LEMMA AppendSelfStep ==
    ASSUME Inv, NEW x, AppendSelf(x) PROVE StepOK
<1> DEFINE b == Grown(View(x), obj[x].m_bufferSz)
           n == b.m_bufferSz
           c == IF CanTransfer(b, b, n) THEN ReadAt(WriteAt(b, n), n) ELSE b
<1>1. /\ Callable(x) /\ x \in live /\ WellFormed(View(x))
      /\ View(x).m_bufferSz = obj[x].m_bufferSz
  BY CallFacts DEF AppendSelf
<1>2. obj[x].m_bufferSz \in Nat
  BY <1>1, Fields
<1>3. n = obj[x].m_bufferSz + obj[x].m_bufferSz /\ (n <= MaxSize => WellFormed(b))
  BY <1>1, <1>2, GrownFacts
<1>4. n <= MaxSize => WellFormed(c)
  <2> SUFFICES ASSUME n <= MaxSize, WellFormed(b) PROVE WellFormed(c)
    BY <1>3
  <2>1. n \in Nat
    BY <1>2, <1>3
  <2> HIDE DEF b
  <2>2. WellFormed(WriteAt(b, n)) /\ WriteAt(b, n).m_bufferSz = n
    BY <2>1, Fields, Updates DEF WriteAt, Buffer
  <2>3. WellFormed(ReadAt(WriteAt(b, n), n))
    BY <2>1, <2>2, Fields, Updates
  <2> QED BY <2>3
<1>5. CASE Throws
  BY <1>5, ThrowsStep
<1>6. ASSUME NEW a \in Grants(n, allocated), Reallocate(x, c, a) PROVE StepOK
  <2>1. a \in Grants(n, allocated \ {obj[x].m_buffer})
    BY DEF Grants
  <2> HIDE DEF c, n
  <2> QED BY <1>1, <1>4, <1>6, <2>1, ReallocateStep
<1> QED
  BY <1>5, <1>6 DEF AppendSelf

\* readToByteBuffer(N).
LEMMA ReadToNewStep ==
    ASSUME Inv, NEW z \in Vars, NEW x, ReadToNew(z, x) PROVE StepOK
<1>1. /\ Callable(x) /\ z \notin live
  BY DEF ReadToNew
<1>2. /\ x \in live /\ x \in Vars /\ WellFormed(View(x)) /\ obj[x].m_buffer # Null
      /\ View(x).m_bufferSz = obj[x].m_bufferSz /\ View(x).m_readIndex = obj[x].m_readIndex
  BY <1>1, CallFacts
<1>3. ASSUME Construct(z, NewBuffer(0)) PROVE StepOK
  <2>1. WellFormed(NewBuffer(0))
    BY NewBufferFacts, SizeAssumption
  <2> QED BY <1>3, <2>1, ConstructStep
<1>4. CASE Throws
  BY <1>4, ThrowsStep
<1>5. ASSUME NEW n \in SizeT, Fits(View(x), obj[x].m_readIndex, n),
             NEW a \in Grants(n, allocated), NEW r, r = readBytes(View(x), n),
             live' = live \cup {z},
             obj' = [obj EXCEPT ![x] = ReadAt(@, r.self.m_readIndex),
                                ![z] = HandleOf(Adopted(r.out), a)],
             allocated' = allocated \cup {a},
             heap' = Put(heap, a, Adopted(r.out)), Returns("void", <<>>)
      PROVE  StepOK
  <2>1. n \in Nat /\ n <= MaxSize /\ a \in Addr /\ a \notin allocated
    BY SizeAssumption DEF SizeT, Grants
  <2> DEFINE b == View(x)
             i == b.m_readIndex + n
             os == [obj EXCEPT ![x] = ReadAt(obj[x], i)]
  <2>2. /\ r = Result(ReadAt(b, i), TRUE, Peek(b.m_buffer, b.m_readIndex, n))
        /\ i <= b.m_bufferSz /\ i \in Nat
        /\ b.m_bufferSz \in Nat /\ b.m_buffer \in Array(b.m_bufferSz) /\ b.m_readIndex \in Nat
    <3>1. WellFormed(b) /\ Fits(b, b.m_readIndex, n)
      BY <1>2, <1>5
    <3> HIDE DEF b
    <3>2. /\ b.m_bufferSz \in Nat /\ b.m_buffer \in Array(b.m_bufferSz)
          /\ b.m_readIndex \in Nat
      BY <3>1, Fields
    <3>3. /\ b.m_readIndex + n <= b.m_bufferSz
          /\ readBytes(b, n) = Result(ReadAt(b, b.m_readIndex + n), TRUE,
                                      Peek(b.m_buffer, b.m_readIndex, n))
      BY <2>1, <3>1, ReadFacts
    <3> QED BY <1>5, <2>1, <3>2, <3>3 DEF b
  <2>3. r.self.m_readIndex = i /\ r.out = Peek(b.m_buffer, b.m_readIndex, n)
    BY <2>2 DEF Result, ReadAt, Buffer
  <2>4. r.out \in Seq(Byte) /\ Len(r.out) = n
    <3>1. WellFormed(b) /\ b.m_readIndex + n <= b.m_bufferSz
      BY <1>2, <2>2
    <3> HIDE DEF b
    <3>2. /\ Peek(b.m_buffer, b.m_readIndex, n) \in Seq(Byte)
          /\ Len(Peek(b.m_buffer, b.m_readIndex, n)) = n
      BY <2>1, <3>1, PeekBuffer
    <3> QED BY <2>3, <3>2 DEF b
  <2>5. WellFormed(Adopted(r.out))
    <3>1. Zeros(n) \in Array(n)
      BY ByteFacts DEF Zeros, Array
    <3>2. Poke(Zeros(n), 0, r.out) \in Array(n)
      BY <2>1, <2>4, <3>1, PokeFacts
    <3> QED BY <2>1, <2>4, <3>2, Assemble DEF Adopted
  <2> HIDE DEF b, i
  <2>6. Good(live, obj, allocated, heap) /\ obj \in [Vars -> Handle]
    BY InvFacts DEF Inv, TypeOK
  <2>7. Good(live, os, allocated, heap)
    BY <1>2, <2>2, <2>6, GoodCursor DEF b
  <2>8. obj' = [os EXCEPT ![z] = HandleOf(Adopted(r.out), a)]
    BY <1>1, <1>2, <1>5, <2>3, <2>6
  <2>9. heap' = [heap EXCEPT ![a] = Adopted(r.out).m_buffer]
    BY <1>5 DEF Put
  <2> HIDE DEF os
  <2>10. Good(live', obj', allocated', heap')
    <3> DEFINE w == Adopted(r.out)
    <3> HIDE DEF w
    <3>1. WellFormed(w)
      BY <2>5 DEF w
    <3>2. Good(live \cup {z}, [os EXCEPT ![z] = HandleOf(w, a)], allocated \cup {a},
               [heap EXCEPT ![a] = w.m_buffer])
      BY <1>1, <2>1, <2>7, <3>1, GoodNew
    <3> QED BY <1>5, <2>8, <2>9, <3>2 DEF w
  <2> QED BY <1>5, <2>10, InvFacts DEF Returns, StepOK, Codes
<1> QED
  BY <1>3, <1>4, <1>5 DEF ReadToNew

\* What operator+ builds.
LEMMA ConcatenatedFacts ==
    ASSUME NEW bx, WellFormed(bx), NEW by, WellFormed(by), NEW same \in BOOLEAN,
           same => by = bx
    PROVE  Concatenated(bx, by, same).m_bufferSz <= MaxSize =>
             WellFormed(Concatenated(bx, by, same))
<1> DEFINE sum == bx.m_bufferSz + by.m_bufferSz
           new == NewBuffer(sum)
           first == Received(resetRead(bx), new, bx.m_bufferSz)
           second == IF same THEN ReadAt(by, bx.m_bufferSz) ELSE resetRead(by)
           all == Received(second, first, by.m_bufferSz)
<1>1. /\ bx.m_bufferSz \in Nat /\ bx.m_bufferSz <= MaxSize
      /\ by.m_bufferSz \in Nat /\ by.m_bufferSz <= MaxSize
      /\ by.m_buffer \in Array(by.m_bufferSz)
      /\ sum \in Nat
  BY Fields
<1>2. WellFormed(resetRead(bx)) /\ WellFormed(second)
  <2>1. WellFormed(resetRead(bx)) /\ WellFormed(resetRead(by))
    BY ResetFacts
  <2>2. same => WellFormed(ReadAt(by, bx.m_bufferSz))
    BY <1>1, Updates
  <2> QED BY <2>1, <2>2
<1>3. new.m_bufferSz = sum
  BY DEF NewBuffer, Buffer
<1>4. sum <= MaxSize => WellFormed(new)
  BY <1>1, NewBufferFacts
<1> HIDE DEF new, second, sum
<1>5. first.m_bufferSz = sum /\ (sum <= MaxSize => WellFormed(first))
  BY <1>1, <1>2, <1>3, <1>4, ReceivedFacts
<1> HIDE DEF first
<1>6. all.m_bufferSz = sum /\ (sum <= MaxSize => WellFormed(all))
  BY <1>1, <1>2, <1>5, ReceivedFacts
<1> HIDE DEF all
<1>7. Concatenated(bx, by, same) = all \/ Concatenated(bx, by, same) = first
  BY DEF Concatenated, all, first, second, new, sum
<1> QED
  BY <1>5, <1>6, <1>7

\* Two objects, or one, have their read cursors moved.
LEMMA GoodCursors ==
    ASSUME Inv, NEW x, Callable(x), NEW y, Callable(y), NEW pos,
           pos[x] \in Nat, pos[x] <= obj[x].m_bufferSz,
           pos[y] \in Nat, pos[y] <= obj[y].m_bufferSz
    PROVE  Good(live, [v \in Vars |-> IF v \in {x, y} THEN ReadAt(obj[v], pos[v]) ELSE obj[v]],
                allocated, heap)
<1>1. /\ x \in live /\ y \in live /\ x \in Vars /\ y \in Vars
      /\ obj[x].m_buffer # Null /\ obj[y].m_buffer # Null
  BY CallFacts
<1>2. Good(live, obj, allocated, heap) /\ obj \in [Vars -> Handle]
  BY InvFacts DEF Inv, TypeOK
<1> DEFINE os == [obj EXCEPT ![x] = ReadAt(obj[x], pos[x])]
           ps == [os EXCEPT ![y] = ReadAt(os[y], pos[y])]
           qs == [v \in Vars |-> IF v \in {x, y} THEN ReadAt(obj[v], pos[v]) ELSE obj[v]]
<1>3. Good(live, os, allocated, heap)
  BY <1>1, <1>2, GoodCursor
<1>4. os[y].m_buffer # Null /\ pos[y] <= os[y].m_bufferSz
  <2>1. CASE x = y
    BY <1>1, <1>2, <2>1 DEF ReadAt, Buffer
  <2>2. CASE x # y
    BY <1>1, <1>2, <2>2
  <2> QED BY <2>1, <2>2
<1>5. Good(live, ps, allocated, heap)
  <2> HIDE DEF os
  <2> QED BY <1>1, <1>3, <1>4, GoodCursor
<1>6. ps = qs
  <2>1. CASE x = y
    <3>1. ReadAt(ReadAt(obj[x], pos[x]), pos[x]) = ReadAt(obj[x], pos[x])
      BY DEF ReadAt, Buffer
    <3>2. os[x] = ReadAt(obj[x], pos[x]) /\ os[y] = os[x] /\ pos[y] = pos[x]
      BY <1>1, <1>2, <2>1
    <3>3. ps = [obj EXCEPT ![x] = ReadAt(obj[x], pos[x])]
      BY <1>1, <1>2, <2>1, <3>1, <3>2
    <3> QED BY <1>1, <1>2, <2>1, <3>3
  <2>2. CASE x # y
    BY <1>1, <1>2, <2>2
  <2> QED BY <2>1, <2>2
<1> QED
  BY <1>5, <1>6

\* operator+.
LEMMA ConcatStep ==
    ASSUME Inv, NEW z \in Vars, NEW x, NEW y, Concat(z, x, y) PROVE StepOK
<1> DEFINE b == Concatenated(View(x), View(y), x = y)
           Moved(pos) == [v \in Vars |-> IF v \in {x, y} THEN ReadAt(obj[v], pos[v]) ELSE obj[v]]
           start == [v \in Vars |-> 0]
           end == [v \in Vars |-> obj[v].m_bufferSz]
<1>1. Callable(x) /\ Callable(y) /\ z \notin live
  BY DEF Concat
<1>2. /\ x \in live /\ y \in live /\ x \in Vars /\ y \in Vars
      /\ WellFormed(View(x)) /\ WellFormed(View(y))
      /\ View(x).m_bufferSz = obj[x].m_bufferSz /\ View(y).m_bufferSz = obj[y].m_bufferSz
  BY <1>1, CallFacts
<1>3. obj[x].m_bufferSz \in Nat /\ obj[y].m_bufferSz \in Nat
  BY <1>2, Fields
<1>4. Good(live, Moved(start), allocated, heap)
  <2>1. start[x] = 0 /\ start[y] = 0
    BY <1>2
  <2> HIDE DEF start
  <2> QED BY <1>1, <1>3, <2>1, GoodCursors
<1>5. Good(live, Moved(end), allocated, heap)
  <2>1. end[x] = obj[x].m_bufferSz /\ end[y] = obj[y].m_bufferSz
    BY <1>2
  <2> HIDE DEF end
  <2> QED BY <1>1, <1>3, <2>1, GoodCursors
<1>6. b.m_bufferSz <= MaxSize => WellFormed(b)
  BY <1>2, ConcatenatedFacts
<1>7. ASSUME obj' = [v \in Vars |-> IF v \in {x, y} THEN resetRead(obj[v]) ELSE obj[v]],
             Returns("throw", <<>>), UNCHANGED <<live, allocated, heap>>
      PROVE  StepOK
  <2>1. obj' = Moved(start)
    BY <1>7 DEF resetRead
  <2>2. Inv'
    BY <1>4, <1>7, <2>1, InvFacts DEF Returns, Codes
  <2>3. ASSUME NEW v \in live PROVE Keeps(v)
    <3>1. v \in Vars /\ obj[v] \in Handle
      BY DEF Inv, TypeOK
    <3>2. obj'[v] = obj[v] \/ obj'[v] = ReadAt(obj[v], 0)
      BY <1>7, <3>1 DEF resetRead
    <3>3. obj'[v] = ReadAt(obj[v], obj'[v].m_readIndex)
      BY <3>1, <3>2 DEF ReadAt, Buffer, Handle
    <3> QED BY <1>7, <3>3 DEF Keeps
  <2> QED BY <1>7, <2>2, <2>3 DEF Returns, StepOK, Contained
<1>8. ASSUME NEW a \in Grants(b.m_bufferSz, allocated), live' = live \cup {z},
             obj' = [v \in Vars |-> IF v = z THEN HandleOf(b, a) ELSE
                       IF v \in {x, y} THEN ReadAt(obj[v], obj[v].m_bufferSz) ELSE obj[v]],
             allocated' = allocated \cup {a}, heap' = Put(heap, a, b), Returns("void", <<>>)
      PROVE  StepOK
  <2>1. a \in Addr /\ a \notin allocated /\ WellFormed(b)
    BY <1>6 DEF Grants
  <2> HIDE DEF b
  <2> DEFINE os == Moved(end)
  <2>2. obj' = [os EXCEPT ![z] = HandleOf(b, a)] /\ Good(live, os, allocated, heap)
    BY <1>5, <1>8
  <2>3. heap' = [heap EXCEPT ![a] = b.m_buffer]
    BY <1>8 DEF Put
  <2> HIDE DEF os
  <2>4. Good(live', obj', allocated', heap')
    <3>1. Good(live \cup {z}, [os EXCEPT ![z] = HandleOf(b, a)], allocated \cup {a},
               [heap EXCEPT ![a] = b.m_buffer])
      BY <1>1, <2>1, <2>2, GoodNew
    <3> QED BY <1>8, <2>2, <2>3, <3>1
  <2> QED BY <1>8, <2>4, InvFacts DEF Returns, StepOK, Codes
<1> QED
  BY <1>7, <1>8 DEF Concat

\* readToByteBuffer between two objects.
LEMMA TransferOtherStep ==
    ASSUME Inv, NEW x, Callable(x), NEW y, Callable(y), x # y,
           NEW n \in Nat, n <= MaxSize, TransferOther(x, y, n)
    PROVE  StepOK
<1> DEFINE bx == View(x)
           by == View(y)
           r == readBytes(bx, n)
           to == Received(bx, by, n)
<1>1. /\ x \in live /\ y \in live /\ x \in Vars /\ y \in Vars
      /\ WellFormed(bx) /\ WellFormed(by)
      /\ bx.m_bufferSz = obj[x].m_bufferSz /\ bx.m_readIndex = obj[x].m_readIndex
      /\ bx.m_writeIndex = obj[x].m_writeIndex
      /\ obj[x].m_buffer # Null /\ obj[y].m_buffer # Null
  BY CallFacts
<1>2. CASE ~CanTransfer(bx, by, n)
  <2>1. BoolMethod(x, Result(bx, FALSE, <<>>))
    BY <1>2 DEF TransferOther
  <2>2. Honest(bx, Result(bx, FALSE, <<>>))
    BY <1>1, Refusal
  <2> QED BY <2>1, <2>2, MethodStep
<1>3. CASE CanTransfer(bx, by, n)
  <2> DEFINE i == bx.m_readIndex + n
             os == [obj EXCEPT ![x] = ReadAt(obj[x], i)]
  <2>1. /\ obj' = [obj EXCEPT ![x] = HandleOf(r.self, @.m_buffer), ![y] = HandleOf(to, @.m_buffer)]
        /\ heap' = [heap EXCEPT ![obj[y].m_buffer] = to.m_buffer]
        /\ ret'.code = "true" /\ live' = live /\ allocated' = allocated
    BY <1>3 DEF TransferOther, Put, Returns
  <2>2. WellFormed(to) /\ i <= bx.m_bufferSz /\ i \in Nat
    <3> HIDE DEF bx, by
    <3> QED BY <1>1, <1>3, ReceivedFacts, Fields
  <2>3. r.self = ReadAt(bx, i)
    <3>1. r = Result(ReadAt(bx, i), TRUE, Peek(bx.m_buffer, bx.m_readIndex, n))
      <4> HIDE DEF bx
      <4> QED BY <1>1, <2>2, ReadFacts
    <3> QED BY <3>1 DEF Result
  <2>4. HandleOf(r.self, obj[x].m_buffer) = ReadAt(obj[x], i)
    BY <1>1, <2>3 DEF HandleOf, ReadAt, Buffer
  <2>5. Good(live, obj, allocated, heap) /\ obj \in [Vars -> Handle]
    BY InvFacts DEF Inv, TypeOK
  <2> HIDE DEF i, to, r, bx, by
  <2>6. Good(live, os, allocated, heap)
    BY <1>1, <2>2, <2>5, GoodCursor
  <2>7. os[y] = obj[y] /\ obj' = [os EXCEPT ![y] = HandleOf(to, obj[y].m_buffer)]
    BY <1>1, <2>1, <2>4, <2>5
  <2> HIDE DEF os
  <2>8. Good(live, [os EXCEPT ![y] = HandleOf(to, os[y].m_buffer)], allocated,
             [heap EXCEPT ![os[y].m_buffer] = to.m_buffer])
    BY <1>1, <2>2, <2>6, <2>7, GoodInPlace
  <2>9. Good(live', obj', allocated', heap')
    BY <2>1, <2>7, <2>8
  <2> QED BY <2>1, <2>9, InvFacts DEF StepOK, Codes
<1> QED
  BY <1>2, <1>3

\* readToByteBuffer from an object into itself, whatever memcpy does.
LEMMA TransferSelfStep ==
    ASSUME Inv, NEW x, Callable(x), NEW n \in Nat, n <= MaxSize, TransferSelf(x, n)
    PROVE  StepOK
<1> DEFINE b == View(x)
<1>1. WellFormed(b)
  BY CallFacts
<1>2. CASE ~CanTransfer(b, b, n)
  <2>1. BoolMethod(x, Result(b, FALSE, <<>>)) /\ Honest(b, Result(b, FALSE, <<>>))
    BY <1>1, <1>2, Refusal DEF TransferSelf
  <2> QED BY <2>1, MethodStep
<1>3. CASE CanTransfer(b, b, n)
  <2>1. PICK bytes \in SelfCopies(b, n) :
          BoolMethod(x, Result(ReadAt(writeArray(b, bytes).self, b.m_readIndex + n), TRUE, <<>>))
    BY <1>3 DEF TransferSelf
  <2>2. b.m_readIndex + n <= b.m_bufferSz /\ b.m_readIndex + n \in Nat
    <3> HIDE DEF b
    <3> QED BY <1>1, <1>3, ReceivedFacts, Fields
  <2>3. bytes \in Seq(Byte)
    <3>1. Peek(b.m_buffer, b.m_readIndex, n) \in Seq(Byte)
      <4> HIDE DEF b
      <4> QED BY <1>1, <2>2, PeekBuffer
    <3>2. [1 .. n -> Byte] \subseteq Seq(Byte)
      OBVIOUS
    <3> QED BY <3>1, <3>2 DEF SelfCopies
  <2> DEFINE c == writeArray(b, bytes).self
  <2>4. WellFormed(c) /\ c.m_bufferSz = b.m_bufferSz
    <3> HIDE DEF b
    <3> QED BY <1>1, <2>3, WriteFacts DEF Honest
  <2> HIDE DEF c, b
  <2>5. c.m_buffer \in Array(c.m_bufferSz)
    BY <2>4, Fields
  <2>6. WellFormed(ReadAt(c, b.m_readIndex + n))
    BY <2>2, <2>4, <2>5, Updates
  <2> DEFINE r == Result(ReadAt(c, b.m_readIndex + n), TRUE, <<>>)
  <2>7. Honest(b, r)
    BY <2>4, <2>6 DEF Honest, Result, ReadAt, Buffer
  <2>8. BoolMethod(x, r)
    BY <2>1 DEF c
  <2> HIDE DEF r
  <2> QED BY <2>7, <2>8, MethodStep DEF b
<1> QED
  BY <1>2, <1>3

\* The methods that stay inside one object.
LEMMA CallsStep ==
    ASSUME Inv, NEW x, Callable(x),
           \/ Clear(x) \/ Reset(x) \/ ResetRead(x) \/ ResetWrite(x)
           \/ SkipRead(x) \/ SkipWrite(x)
           \/ Write(x) \/ WriteSwapped(x) \/ WriteHexString(x) \/ PokeByte(x)
           \/ Read(x) \/ ReadSwapped(x) \/ ReadString(x) \/ ReadLine(x)
    PROVE  StepOK
<1> DEFINE b == View(x)
<1>1. /\ WellFormed(b) /\ b.m_bufferSz \in Nat /\ b.m_buffer \in Array(b.m_bufferSz)
      /\ b.m_readIndex \in Nat /\ b.m_readIndex <= b.m_bufferSz
      /\ b.m_bufferSz = obj[x].m_bufferSz /\ b.m_readIndex = obj[x].m_readIndex
      /\ MaxSize \in Nat
  BY CallFacts, Fields
<1>2. CASE Clear(x) \/ Reset(x) \/ ResetRead(x) \/ ResetWrite(x)
  <2>1. PICK c : WellFormed(c) /\ VoidMethod(x, c)
    BY <1>1, <1>2, ResetFacts DEF Clear, Reset, ResetRead, ResetWrite
  <2> QED BY <2>1, MethodStep
<1>3. CASE SkipRead(x) \/ SkipWrite(x)
  <2>1. PICK n \in SizeT : BoolMethod(x, skipRead(b, n)) \/ BoolMethod(x, skipWrite(b, n))
    BY <1>3 DEF SkipRead, SkipWrite
  <2>2. n \in Nat
    BY SizeAssumption DEF SizeT
  <2>3. Honest(b, skipRead(b, n)) /\ Honest(b, skipWrite(b, n))
    BY <1>1, <2>2, SkipFacts
  <2> QED BY <2>1, <2>3, MethodStep
<1>4. CASE Write(x) \/ WriteSwapped(x) \/ WriteHexString(x)
  <2>1. ASSUME NEW d \in Seq(Byte) PROVE Honest(b, writeArray(b, d))
    BY <1>1, WriteFacts
  <2>2. \A d \in Inputs : d \in Seq(Byte) /\ swapEndian(d) \in Seq(Byte)
    BY InputAssumption, SwapFacts
  <2>3. ASSUME NEW h \in HexInputs PROVE Honest(b, writeHexString(b, h))
    <3>1. HexBytes(h) \in Seq(Byte)
      BY InputAssumption, HexFacts
    <3>2. Honest(b, writeArray(b, HexBytes(h))) /\ Honest(b, Result(b, FALSE, <<>>))
      BY <1>1, <2>1, <3>1, Refusal
    <3> QED BY <3>2 DEF writeHexString
  <2>4. PICK r : Honest(b, r) /\ BoolMethod(x, r)
    BY <1>4, <2>1, <2>2, <2>3 DEF Write, WriteSwapped, WriteHexString, write, writeSwapped
  <2> QED BY <2>4, MethodStep
<1>5. CASE PokeByte(x)
  <2>1. PICK i \in 0 .. (obj[x].m_bufferSz - 1), v \in {d[1] : d \in Inputs \ {<<>>}} :
          VoidMethod(x, Holding(b, Poke(b.m_buffer, i, <<v>>)))
    BY <1>5 DEF PokeByte
  <2>2. v \in Byte
    BY InputAssumption
  <2>3. <<v>> \in Seq(Byte) /\ i \in Nat
    BY <1>1, <2>2
  <2>4. Poke(b.m_buffer, i, <<v>>) \in Array(b.m_bufferSz)
    BY <1>1, <2>3, PokeFacts
  <2>5. WellFormed(Holding(b, Poke(b.m_buffer, i, <<v>>)))
    BY <1>1, <2>4, Updates
  <2> QED BY <2>1, <2>5, MethodStep
<1>6. ASSUME NEW n \in Nat, n <= MaxSize
      PROVE  Honest(b, readBytes(b, n)) /\ Honest(b, readSwapped(b, n))
  <2>1. Honest(b, readBytes(b, n))
    BY <1>1, <1>6, ReadFacts
  <2> QED BY <2>1 DEF readSwapped, read, Honest, Result
<1>7. CASE Read(x) \/ ReadSwapped(x)
  <2>1. PICK n \in 0 .. MaxSize : BoolMethod(x, read(b, n)) \/ BoolMethod(x, readSwapped(b, n))
    BY <1>7 DEF Read, ReadSwapped
  <2>2. Honest(b, readBytes(b, n)) /\ Honest(b, readSwapped(b, n))
    BY <1>1, <1>6
  <2> QED BY <2>1, <2>2, MethodStep DEF read
<1>8. CASE ReadString(x)
  <2>1. PICK n \in SizeT :
         \/ Throws
         \/ /\ Fits(b, b.m_readIndex, n) => n <= MaxSize
            /\ BoolMethod(x, readString(b, n))
    BY <1>1, <1>8 DEF ReadString
  <2>2. CASE Throws
    BY <2>2, ThrowsStep
  <2>3. CASE (Fits(b, b.m_readIndex, n) => n <= MaxSize) /\ BoolMethod(x, readString(b, n))
    <3>1. n \in Nat
      BY SizeAssumption DEF SizeT
    <3>2. Honest(b, readBytes(b, n))
      <4>1. CASE Fits(b, b.m_readIndex, n)
        BY <2>3, <3>1, <4>1, <1>6
      <4>2. CASE ~Fits(b, b.m_readIndex, n)
        <5>1. readBytes(b, n) = Result(b, FALSE, <<>>)
          BY <4>2 DEF readBytes
        <5> QED BY <1>1, <5>1, Refusal
      <4> QED BY <4>1, <4>2
    <3> QED BY <2>3, <3>2, MethodStep DEF readString
  <2> QED BY <2>1, <2>2, <2>3
<1>9. CASE ReadLine(x)
  <2>1. PICK eol, next \in Nat :
          /\ b.m_readIndex <= eol /\ eol <= next /\ next <= b.m_bufferSz
          /\ readLine(b, Delims).self = ReadAt(b, next)
    BY <1>1, ReadLineFacts, InputAssumption
  <2>2. ASSUME NEW i \in Nat, i <= b.m_bufferSz PROVE WellFormed(ReadAt(b, i))
    BY <1>1, <2>2, Updates
  <2>3. ASSUME NEW code \in {"more", "end"}, InPlace(x, readLine(b, Delims), code)
        PROVE  StepOK
    <3>1. WellFormed(readLine(b, Delims).self) /\ code \in Codes /\ code # "false"
      BY <2>1, <2>2 DEF Codes
    <3> QED BY <2>3, <3>1, InPlaceStep
  <2>4. ASSUME NEW i \in LineThrowPoints(b),
               InPlace(x, Result(ReadAt(b, i), TRUE, <<>>), "throw")
        PROVE  StepOK
    <3> DEFINE e == FirstIn(b, b.m_readIndex, Delims)
    <3>1. e \in b.m_readIndex .. b.m_bufferSz
      BY <1>1, FirstInFacts
    <3>2. readLine(b, Delims).self.m_readIndex = next
      BY <2>1 DEF ReadAt, Buffer
    <3>3. i \in b.m_readIndex .. e \/ i = next
      BY <3>2 DEF LineThrowPoints
    <3>4. i \in Nat /\ i <= b.m_bufferSz
      <4> HIDE DEF e
      <4> QED BY <1>1, <2>1, <3>1, <3>3
    <3> DEFINE r == Result(ReadAt(b, i), TRUE, <<>>)
    <3>5. WellFormed(r.self) /\ "throw" \in Codes /\ "throw" # "false"
      BY <2>2, <3>4 DEF Result, Codes
    <3>6. InPlace(x, r, "throw")
      BY <2>4
    <3> HIDE DEF r
    <3> QED BY <3>5, <3>6, InPlaceStep
  <2> QED BY <1>9, <2>3, <2>4 DEF ReadLine
<1> QED
  BY <1>2, <1>3, <1>4, <1>5, <1>7, <1>8, <1>9

\* Every step of every client.
LEMMA NextStep ==
    ASSUME Inv, Next PROVE StepOK
<1>1. Named \subseteq Vars /\ Temps \subseteq Vars
  BY DEF Vars
<1>2. CASE Lifetime
  <2>1. ASSUME NEW x \in Named,
               \/ ConstructSize(x) \/ ConstructAdopt(x) \/ ConstructArray(x)
               \/ ConstructString(x) \/ ConstructHex(x)
        PROVE  StepOK
    <3>1. PICK b : Construct(x, b) /\ (b.m_bufferSz <= MaxSize => WellFormed(b))
      <4>1. CASE ConstructSize(x)
        <5>1. PICK n \in SizeT : Construct(x, NewBuffer(n))
          BY <4>1 DEF ConstructSize
        <5>2. NewBuffer(n).m_bufferSz = n
          BY DEF NewBuffer, Buffer
        <5> QED BY <5>1, <5>2, InputBuffers
      <4>2. CASE ConstructAdopt(x) \/ ConstructArray(x) \/ ConstructString(x) \/ ConstructHex(x)
        BY <4>2, InputBuffers
           DEF ConstructAdopt, ConstructArray, ConstructString, ConstructHex, writeString
      <4> QED BY <2>1, <4>1, <4>2
    <3> QED BY <1>1, <3>1, ConstructStep
  <2>2. ASSUME NEW x \in Named, NEW y \in Vars, ConstructCopy(x, y) PROVE StepOK
    <3>1. WellFormed(View(y)) /\ Construct(x, View(y))
      BY <2>2, CallFacts DEF ConstructCopy
    <3> QED BY <1>1, <3>1, ConstructStep
  <2>3. ASSUME NEW t \in Temps, NEW x \in Named, ReadToNew(t, x) PROVE StepOK
    BY <1>1, <2>3, ReadToNewStep
  <2>4. ASSUME NEW t \in Temps, NEW x \in Named, NEW y \in Named, Concat(t, x, y)
        PROVE  StepOK
    BY <1>1, <2>4, ConcatStep
  <2>5. ASSUME NEW x \in Vars, Destroy(x) PROVE StepOK
    BY <2>5, DestroyStep
  <2> QED BY <1>2, <2>1, <2>2, <2>3, <2>4, <2>5 DEF Lifetime
<1>3. CASE Calls
  <2>1. PICK x \in Named :
          \/ Clear(x) \/ Reset(x) \/ ResetRead(x) \/ ResetWrite(x)
          \/ SkipRead(x) \/ SkipWrite(x)
          \/ Write(x) \/ WriteSwapped(x) \/ WriteHexString(x) \/ PokeByte(x)
          \/ Read(x) \/ ReadSwapped(x) \/ ReadString(x) \/ ReadLine(x)
          \/ resize(x) \/ AppendSelf(x)
    BY <1>3 DEF Calls
  <2>2. CASE resize(x)
    BY <2>2, ResizeStep
  <2>3. CASE AppendSelf(x)
    BY <2>3, AppendSelfStep
  <2>4. CASE \/ Clear(x) \/ Reset(x) \/ ResetRead(x) \/ ResetWrite(x)
             \/ SkipRead(x) \/ SkipWrite(x)
             \/ Write(x) \/ WriteSwapped(x) \/ WriteHexString(x) \/ PokeByte(x)
             \/ Read(x) \/ ReadSwapped(x) \/ ReadString(x) \/ ReadLine(x)
    <3>1. Callable(x)
      BY <2>4 DEF Clear, Reset, ResetRead, ResetWrite, SkipRead, SkipWrite, Write,
                  WriteSwapped, WriteHexString, PokeByte, Read, ReadSwapped,
                  ReadString, ReadLine
    <3> QED BY <2>4, <3>1, CallsStep
  <2> QED BY <2>1, <2>2, <2>3, <2>4
<1>4. CASE Transfers
  <2>1. PICK x \in Named, y \in Vars :
          Assign(x, y) \/ AppendOther(x, y) \/ ReadInto(y, x) \/ ReadAllInto(y, x)
    BY <1>4 DEF Transfers
  <2>2. CASE Assign(x, y)
    BY <2>2, AssignStep
  <2>3. CASE AppendOther(x, y)
    BY <2>3, AppendOtherStep
  <2>4. CASE ReadInto(y, x) \/ ReadAllInto(y, x)
    <3>1. Callable(x) /\ Callable(y)
      BY <2>4 DEF ReadInto, ReadAllInto
    <3>2. View(y).m_writeIndex \in Nat /\ View(y).m_writeIndex <= MaxSize
      <4>1. WellFormed(View(y))
        BY <3>1, CallFacts
      <4> QED BY <4>1, Fields
    <3>3. PICK n : /\ n \in Nat /\ n <= MaxSize
                   /\ IF y = x THEN TransferSelf(y, n) ELSE TransferOther(y, x, n)
      BY <2>4, <3>2, SizeAssumption DEF ReadInto, ReadAllInto, length
    <3> QED BY <3>1, <3>3, TransferSelfStep, TransferOtherStep
  <2> QED BY <2>1, <2>2, <2>3, <2>4
<1> QED
  BY <1>2, <1>3, <1>4 DEF Next

-----------------------------------------------------------------------------
(* The theorems.                                                            *)

\* The invariant holds of the empty program and is kept by every call.
THEOREM Invariance == Spec => []Inv
<1>1. Init => Inv
  <2> SUFFICES ASSUME Init PROVE Inv
    OBVIOUS
  <2>1. NoObject \in Handle
    BY SizeAssumption DEF NoObject, Handle, Buffer, SizeT
  <2>2. Typed(live, obj, allocated, heap)
    BY <2>1, EmptyArray DEF Init, Typed
  <2>3. Owned(live, obj, allocated) /\ Formed(live, obj, heap) /\ ret.code \in Codes
    BY DEF Init, Owned, Formed, Codes
  <2> QED BY <2>2, <2>3, InvFacts DEF Good
<1>2. Inv /\ [Next]_vars => Inv'
  <2> SUFFICES ASSUME Inv, [Next]_vars PROVE Inv'
    OBVIOUS
  <2>1. CASE Next
    BY <2>1, NextStep DEF StepOK
  <2>2. CASE UNCHANGED vars
    BY <2>2, InvFacts DEF vars
  <2> QED BY <2>1, <2>2
<1> QED
  BY <1>1, <1>2, PTL DEF Spec

\* The members of every object keep the types of their declarations.
THEOREM TypeCorrect == Spec => []TypeOK
<1>1. Inv => TypeOK
  BY DEF Inv
<1> QED
  BY <1>1, Invariance, PTL

\* Every array that is allocated has exactly one owner, through copies,
\* adoption, concatenation and allocation failures.
THEOREM EveryArrayHasOneOwner == Spec => []SoleOwner
<1>1. Inv => SoleOwner
  BY DEF Inv
<1> QED
  BY <1>1, Invariance, PTL

\* Both cursors of every object stay inside its array although the bounds
\* checks wrap around.
THEOREM CursorsStayInside == Spec => []ObjectsWellFormed
<1>1. Inv => ObjectsWellFormed
  BY DEF Inv
<1> QED
  BY <1>1, Invariance, PTL

\* A call that returns false has changed no object.
THEOREM FailedCallsChangeNothing == Spec => FailureChangesNothing
<1>1. Inv /\ [Next]_vars =>
        [ret'.code = "false" => UNCHANGED <<live, obj, allocated, heap>>]_vars
  BY NextStep DEF StepOK
<1> QED
  BY <1>1, Invariance, PTL DEF Spec, FailureChangesNothing

\* An exception damages at most the object that was being assigned or resized.
THEOREM ExceptionsAreContained == Spec => ThrowIsContained
<1>1. Inv /\ [Next]_vars =>
        [ret'.code = "throw" =>
           live' = live /\ \A x, y \in live : x = y \/ Keeps(x) \/ Keeps(y)]_vars
  <2> SUFFICES ASSUME Inv, Next, ret'.code = "throw"
               PROVE  live' = live /\ \A x, y \in live : x = y \/ Keeps(x) \/ Keeps(y)
    OBVIOUS
  <2>1. Contained
    BY NextStep DEF StepOK
  <2> QED BY <2>1 DEF Contained
<1> QED
  BY <1>1, Invariance, PTL DEF Spec, ThrowIsContained
=============================================================================

----------------------------- MODULE BigInteger -----------------------------
(***************************************************************************)
(* psi::tools::BigInteger: a client's variables hold sequences of words,   *)
(* the lowest first; position p is index p - 1 of the code.  A sequence of *)
(* no words stands for an object whose contents are undefined, because a   *)
(* word outside a vector was read.                                         *)
(***************************************************************************)
EXTENDS Integers, Sequences, FiniteSetsExt

CONSTANTS
    Vars,       \* the client's variables
    Base,       \* 2^64
    Vectors,    \* the vectors it constructs from
    MaxWords    \* bound: the words of a value

ASSUME BaseAssumption == Base \in Nat \ {0, 1}
ASSUME BoundAssumption == MaxWords \in Nat \ {0}

Word == 0 .. (Base - 1)
Undefined == <<>>

ASSUME VectorAssumption == Vectors \subseteq Seq(Word)

VARIABLE m_value    \* the words of each variable

Init == m_value = [x \in Vars |-> <<0>>]

-----------------------------------------------------------------------------
(* The two operations on a word of a value, which the others consist of.    *)

\* Mutant: the next word is incremented whatever it holds.
CarriedAnyway(v, p) == IF p = Len(v) THEN Append(v, 1) ELSE [v EXCEPT ![p + 1] = @ + 1]

\* Mutant: the last word stays all ones when the carry runs over it.
CarriedKept(v, p) ==
    LET open == {k \in (p + 1) .. Len(v) : v[k] # Base - 1}
    IN  IF open = {} THEN Append(v, 1) ELSE [v EXCEPT ![Min(open)] = @ + 1]

\* A carry out of position p goes to the first word that is not all ones; of
\* those it passes only the last word of the value becomes zero.
Carried(v, p) ==
    LET open == {k \in (p + 1) .. Len(v) : v[k] # Base - 1}
        full == open = {} /\ p < Len(v)
    IN  IF open # {} THEN [v EXCEPT ![Min(open)] = @ + 1]
        ELSE Append(IF full THEN [v EXCEPT ![Len(v)] = 0] ELSE v, 1)

Extended(v, p) == IF p <= Len(v) THEN v ELSE v \o [k \in 1 .. (p - Len(v)) |-> 0]
Overflows(v, i, p) == v[p] + i >= Base

add(v, i, p) ==
    LET old == Extended(v, p)
        new == [old EXCEPT ![p] = (@ + i) % Base]
    IN  IF Overflows(old, i, p) THEN Carried(new, p) ELSE new

\* Mutant: a borrow is taken from the next word only.
BorrowedOnce(v, p) == {p + 1} \cap DOMAIN v

\* The positions a borrow of position p decrements.
Borrowed(v, p) == {k \in (p + 1) .. Len(v) : \A j \in (p + 1) .. (k - 1) : v[j] = 0}

NonZero(v) == {k \in DOMAIN v : v[k] # 0}

\* High zero words are dropped, unless there are only zero words.
substract(v, i, p) ==
    LET lower == IF v[p] < i THEN Borrowed(v, p) ELSE {}
        new == [k \in DOMAIN v |-> IF k = p THEN (v[k] - i) % Base
                                   ELSE IF k \in lower THEN (v[k] - 1) % Base
                                   ELSE v[k]]
    IN  IF p > Len(v) THEN Undefined
        ELSE IF NonZero(new) = {} THEN new ELSE SubSeq(new, 1, Max(NonZero(new)))

-----------------------------------------------------------------------------
(* What the client calls.                                                   *)

Assign(z, v) == Len(v) <= MaxWords /\ m_value' = [m_value EXCEPT ![z] = v]
Defined(x) == m_value[x] # Undefined

ConstructWord(z) == \E i \in Word : Assign(z, <<i>>)

\* An empty vector is read beyond its end.
FromVector(v) == IF v = <<>> THEN Undefined ELSE SubSeq(v, 1, Max({1} \cup NonZero(v)))
ConstructVector(z) == \E v \in Vectors : Assign(z, FromVector(v))

Sum(v, w) ==
    LET partial[p \in 0 .. Len(w)] == IF p = 0 THEN v ELSE add(partial[p - 1], w[p], p)
    IN  partial[Len(w)]
Difference(v, w) ==
    LET partial[p \in 0 .. Len(w)] == IF p = 0 THEN v ELSE substract(partial[p - 1], w[p], p)
    IN  partial[Len(w)]

\* z = x + y, z = x - y, and the same with a word.
Plus(z, x, y) == Defined(x) /\ Defined(y) /\ Assign(z, Sum(m_value[x], m_value[y]))
PlusWord(z, x, i) == Defined(x) /\ Assign(z, add(m_value[x], i, 1))
Minus(z, x, y) == Defined(x) /\ Defined(y) /\ Assign(z, Difference(m_value[x], m_value[y]))
MinusWord(z, x, i) == Defined(x) /\ Assign(z, substract(m_value[x], i, 1))

\* x += y and so on: y is copied before x changes, x may be y.
PlusEquals(x, y) == Plus(x, x, y)
PlusEqualsWord(x, i) == PlusWord(x, x, i)
MinusEquals(x, y) == Minus(x, x, y)
MinusEqualsWord(x, i) == MinusWord(x, x, i)

\* x.add(i, p - 1) and x.substract(i, p - 1), which are public.
AddAt(x, i, p) == Defined(x) /\ Assign(x, add(m_value[x], i, p))
SubstractAt(x, i, p) == Defined(x) /\ Assign(x, substract(m_value[x], i, p))

Next ==
    \/ \E z \in Vars : ConstructWord(z) \/ ConstructVector(z)
    \/ \E x, y \in Vars : \/ PlusEquals(x, y) \/ MinusEquals(x, y)
                          \/ \E z \in Vars : Plus(z, x, y) \/ Minus(z, x, y)
    \/ \E x \in Vars, i \in Word :
          \/ PlusEqualsWord(x, i) \/ MinusEqualsWord(x, i)
          \/ \E z \in Vars : PlusWord(z, x, i) \/ MinusWord(z, x, i)
          \/ \E p \in 1 .. MaxWords : AddAt(x, i, p) \/ SubstractAt(x, i, p)

Spec == Init /\ [][Next]_m_value

-----------------------------------------------------------------------------
(* Properties.                                                              *)

\* Every word stays below the base.
TypeOK == m_value \in [Vars -> Seq(Word)]

Weight[n \in Nat] == IF n = 0 THEN 1 ELSE Base * Weight[n - 1]
Value(v) ==
    LET lower[k \in 0 .. Len(v)] == IF k = 0 THEN 0 ELSE lower[k - 1] + v[k] * Weight[k - 1]
    IN  lower[Len(v)]
Canonical(v) == Len(v) = 1 \/ v[Len(v)] # 0

\* Some step of the sum of v and w carries into an all-ones word that is not
\* the last one.
CarryLost(v, w) ==
    \E p \in DOMAIN w :
        LET u == Extended(Sum(v, SubSeq(w, 1, p - 1)), p)
        IN  /\ Overflows(u, w[p], p)
            /\ p + 1 < Len(u) /\ u[p + 1] = Base - 1

\* A sum is exact if and only if no carry meets an all-ones word in the middle
\* of the value: every other carry arrives, and the value grows by a word when
\* it must.
SumIsExactUnlessCarryLost ==
    [][\A x, y, z \in Vars : Plus(z, x, y) =>
          (Value(m_value'[z]) = Value(m_value[x]) + Value(m_value[y])
              <=> ~ CarryLost(m_value[x], m_value[y]))]_m_value

\* What the header says of operator+: the sum of the two values.
SumIsExact ==
    [][\A x, y, z \in Vars : Plus(z, x, y) =>
          Value(m_value'[z]) = Value(m_value[x]) + Value(m_value[y])]_m_value

\* A value without high zero words is subtracted exactly from any value that is
\* not smaller: borrows ripple through zero words, and the words dropped on the
\* way are never missed.
DifferenceIsExact ==
    [][\A x, y, z \in Vars :
          /\ Minus(z, x, y)
          /\ Canonical(m_value[y]) /\ Value(m_value[y]) <= Value(m_value[x])
          => /\ m_value'[z] # Undefined
             /\ Value(m_value'[z]) = Value(m_value[x]) - Value(m_value[y])]_m_value
=============================================================================

-------------------------- MODULE Arithmetic_proofs --------------------------
(***************************************************************************)
(* BigInteger keeps its types, subtracts exactly and adds exactly unless a *)
(* carry is lost, for every base, number of variables and length of values.*)
(* The limbs of x25519 never leave the range its products need, for every  *)
(* number of limbs that are wide enough.                                   *)
(***************************************************************************)
EXTENDS BigInteger, X25519, SequenceTheorems, WellFoundedInduction, TLAPS

-----------------------------------------------------------------------------
(* Recursion over numbers.                                                  *)

\* What holds at m and is passed on from each number to the next holds up to n.
LEMMA Reached ==
    ASSUME NEW m \in Nat, NEW n \in Nat, NEW T, m \in T,
           \A k \in (m + 1) .. n : k - 1 \in T => k \in T
    PROVE  \A k \in m .. n : k \in T
<1> DEFINE U == {k \in m .. n : k \notin T}
<1>1. SUFFICES ASSUME U # {} PROVE FALSE
  OBVIOUS
<1>2. U \subseteq Nat
  OBVIOUS
<1>3. PICK k \in U : \A j \in U : ~(<<j, k>> \in OpToRel(<, Nat))
  BY <1>1, <1>2, WFMin, NatLessThanWellFounded
<1>4. \A j \in U : ~(j < k)
  BY <1>2, <1>3 DEF OpToRel
<1>5. k # m /\ k \in (m + 1) .. n
  OBVIOUS
<1>6. k - 1 \in m .. n /\ k - 1 < k
  BY <1>5
<1>7. k - 1 \in T
  BY <1>4, <1>6
<1> QED
  BY <1>5, <1>7

\* A non-empty set of numbers has a least one; one with a bound has a greatest.
LEMMA MinFacts ==
    ASSUME NEW S \in SUBSET Nat, S # {}
    PROVE  Min(S) \in S /\ \A k \in S : Min(S) <= k
<1>1. PICK k \in S : \A j \in S : ~(<<j, k>> \in OpToRel(<, Nat))
  BY WFMin, NatLessThanWellFounded
<1>2. \A j \in S : ~(j < k)
  BY <1>1 DEF OpToRel
<1>3. \A j \in S : k <= j
  BY <1>2
<1> QED
  BY <1>3 DEF Min

LEMMA MaxFacts ==
    ASSUME NEW n \in Nat, NEW S \in SUBSET (0 .. n), S # {}
    PROVE  Max(S) \in S /\ \A k \in S : k <= Max(S)
<1> DEFINE R == {n - k : k \in S}
<1>1. R \in SUBSET Nat /\ R # {}
  <2>1. \A k \in S : n - k \in Nat
    OBVIOUS
  <2> QED BY <2>1
<1>2. Min(R) \in R /\ \A r \in R : Min(R) <= r
  BY <1>1, MinFacts
<1>3. PICK k \in S : Min(R) = n - k
  BY <1>2
<1>4. \A j \in S : k >= j
  <2>1. \A j \in S : n - k <= n - j
    BY <1>2, <1>3
  <2> QED BY <2>1
<1>5. \E x \in S : \A y \in S : x >= y
  BY <1>4
<1>6. Max(S) \in S /\ \A y \in S : Max(S) >= y
  BY <1>5 DEF Max
<1> QED
  BY <1>6

Stepwise(f, N, a, step) == f[0] = a /\ \A k \in 1 .. N : f[k] = step[k][f[k - 1]]

\* A function that starts at a and takes a step from each number to the next.
LEMMA StepwiseExists ==
    ASSUME NEW N \in Nat, NEW S, NEW a \in S, NEW step \in [1 .. N -> [S -> S]]
    PROVE  \E f \in [0 .. N -> S] : Stepwise(f, N, a, step)
<1> DEFINE Solves(f, n) == f[0] = a /\ \A k \in 1 .. n : f[k] = step[k][f[k - 1]]
           Upto(n) == {f \in [0 .. n -> S] : Solves(f, n)}
           T == {n \in 0 .. N : Upto(n) # {}}
<1>1. [k \in 0 .. 0 |-> a] \in Upto(0)
  OBVIOUS
<1>2. ASSUME NEW n \in 1 .. N, NEW g \in Upto(n - 1) PROVE Upto(n) # {}
  <2> DEFINE f == [k \in 0 .. n |-> IF k = n THEN step[n][g[n - 1]] ELSE g[k]]
  <2>1. g \in [0 .. (n - 1) -> S] /\ Solves(g, n - 1)
    OBVIOUS
  <2>2. g[n - 1] \in S /\ step[n][g[n - 1]] \in S
    BY <2>1
  <2>3. f \in [0 .. n -> S]
    BY <2>1, <2>2
  <2>4. ASSUME NEW k \in 1 .. n PROVE f[k] = step[k][f[k - 1]]
    <3>1. k - 1 \in 0 .. n /\ k - 1 # n /\ k \in 0 .. n
      OBVIOUS
    <3>2. f[k - 1] = g[k - 1]
      BY <3>1
    <3>3. CASE k = n
      BY <3>1, <3>2, <3>3
    <3>4. CASE k # n
      <4>1. k \in 1 .. (n - 1) /\ f[k] = g[k]
        BY <3>1, <3>4
      <4> QED BY <2>1, <3>2, <4>1
    <3> QED BY <3>3, <3>4
  <2>5. f[0] = a
    BY <2>1
  <2> HIDE DEF f
  <2> QED BY <2>3, <2>4, <2>5
<1> HIDE DEF Upto
<1>3. \A n \in 0 .. N : n \in T
  <2>1. 0 \in T
    BY <1>1
  <2>2. ASSUME NEW n \in 1 .. N, n - 1 \in T PROVE n \in T
    BY <1>2, <2>2
  <2>3. \A n \in (0 + 1) .. N : n - 1 \in T => n \in T
    BY <2>2
  <2> HIDE DEF T
  <2> QED BY <2>1, <2>3, Reached
<1>4. Upto(N) # {}
  BY <1>3
<1> QED
  BY <1>4 DEF Upto, Stepwise

-----------------------------------------------------------------------------
(* The weights of the words.                                                *)

LEMMA BaseFacts == Base \in Nat /\ Base >= 2 /\ 0 \in Word /\ 1 \in Word /\ Base - 1 \in Word
  BY BaseAssumption DEF Word

\* The recursive definition defines a function.
LEMMA WeightEquation ==
    Weight = [n \in Nat |-> IF n = 0 THEN 1 ELSE Base * Weight[n - 1]]
<1> DEFINE step(n) == [k \in 1 .. n |-> [x \in Nat |-> Base * x]]
           G(n) == {g \in [0 .. n -> Nat] : Stepwise(g, n, 1, step(n))}
           chosen(n) == CHOOSE g \in G(n) : TRUE
           F == [n \in Nat |-> chosen(n)[n]]
<1>1. ASSUME NEW n \in Nat PROVE chosen(n) \in G(n)
  <2>1. step(n) \in [1 .. n -> [Nat -> Nat]] /\ 1 \in Nat
    BY BaseFacts
  <2>2. G(n) # {}
    BY <2>1, StepwiseExists
  <2> QED BY <2>2
<1>2. ASSUME NEW n \in Nat, NEW g \in G(n)
      PROVE  /\ g \in [0 .. n -> Nat] /\ g[0] = 1
             /\ \A k \in 1 .. n : g[k] = Base * g[k - 1]
  <2>1. g \in [0 .. n -> Nat] /\ g[0] = 1 /\ \A k \in 1 .. n : g[k] = step(n)[k][g[k - 1]]
    BY DEF Stepwise
  <2>2. \A k \in 1 .. n : g[k - 1] \in Nat
    BY <2>1
  <2> QED BY <2>1, <2>2
<1> HIDE DEF G, chosen
<1>3. ASSUME NEW n \in Nat, NEW g \in G(n), NEW h \in G(n + 1) PROVE g[n] = h[n]
  <2> DEFINE T == {k \in 0 .. n : g[k] = h[k]}
  <2>1. n + 1 \in Nat
    OBVIOUS
  <2>2. /\ g[0] = 1 /\ \A k \in 1 .. n : g[k] = Base * g[k - 1]
        /\ h[0] = 1 /\ \A k \in 1 .. (n + 1) : h[k] = Base * h[k - 1]
    BY <1>2, <2>1
  <2>3. 0 \in T
    BY <2>2
  <2>4. \A k \in (0 + 1) .. n : k - 1 \in T => k \in T
    BY <2>2
  <2> HIDE DEF T
  <2>5. \A k \in 0 .. n : k \in T
    BY <2>3, <2>4, Reached
  <2> QED BY <2>5 DEF T
<1>4. ASSUME NEW n \in Nat PROVE F[n] = IF n = 0 THEN 1 ELSE Base * F[n - 1]
  <2>1. CASE n = 0
    BY <1>1, <1>2, <2>1
  <2>2. CASE n # 0
    <3>1. PICK m \in Nat : n = m + 1 /\ m = n - 1
      BY <2>2
    <3>2. chosen(n)[n] = Base * chosen(n)[n - 1]
      BY <1>1, <1>2, <3>1
    <3>3. chosen(m)[m] = chosen(n)[m]
      BY <1>1, <1>3, <3>1
    <3> QED BY <2>2, <3>1, <3>2, <3>3
  <2> QED BY <2>1, <2>2
<1>5. F = [n \in Nat |-> IF n = 0 THEN 1 ELSE Base * F[n - 1]]
  <2>1. \A n \in Nat : F[n] = IF n = 0 THEN 1 ELSE Base * F[n - 1]
    BY <1>4
  <2>2. F = [n \in Nat |-> F[n]]
    OBVIOUS
  <2> HIDE DEF F
  <2> QED BY <2>1, <2>2
<1> HIDE DEF F
<1>6. \E f : f = [n \in Nat |-> IF n = 0 THEN 1 ELSE Base * f[n - 1]]
  BY <1>5
<1> QED
  BY <1>6 DEF Weight

LEMMA WeightFacts ==
    /\ Weight[0] = 1
    /\ \A n \in Nat : Weight[n] \in Nat /\ Weight[n] >= 1
    /\ \A n \in Nat : Weight[n + 1] = Base * Weight[n]
<1>1. \A n \in Nat : Weight[n] = IF n = 0 THEN 1 ELSE Base * Weight[n - 1]
  BY WeightEquation
<1>2. Weight[0] = 1
  BY <1>1
<1>3. ASSUME NEW n \in Nat PROVE Weight[n + 1] = Base * Weight[n]
  <2>1. n + 1 \in Nat /\ n + 1 # 0 /\ (n + 1) - 1 = n
    OBVIOUS
  <2> QED BY <1>1, <2>1
<1>4. ASSUME NEW n \in Nat PROVE Weight[n] \in Nat /\ Weight[n] >= 1
  <2> DEFINE T == {k \in 0 .. n : Weight[k] \in Nat /\ Weight[k] >= 1}
  <2>1. 0 \in T
    BY <1>2
  <2>2. ASSUME NEW k \in (0 + 1) .. n, k - 1 \in T PROVE k \in T
    <3>1. PICK w \in Nat : w = Weight[k - 1] /\ w >= 1
      BY <2>2
    <3>2. Weight[k] = Base * w
      BY <1>1, <3>1
    <3>3. Base * w \in Nat /\ Base * w >= 1
      <4>1. (Base - 1) * w \in Nat /\ Base * w = (Base - 1) * w + w
        BY BaseFacts
      <4> QED BY <3>1, <4>1
    <3> QED BY <3>2, <3>3
  <2> HIDE DEF T
  <2>3. \A k \in 0 .. n : k \in T
    BY <2>1, <2>2, Reached
  <2> QED BY <2>3 DEF T
<1> QED
  BY <1>2, <1>3, <1>4

LEMMA WeightGrows ==
    ASSUME NEW m \in Nat, NEW n \in Nat, m < n
    PROVE  Weight[m] < Weight[n]
<1> DEFINE T == {k \in (m + 1) .. n : Weight[m] < Weight[k]}
<1>1. ASSUME NEW k \in Nat PROVE Weight[k] < Weight[k + 1]
  <2>1. PICK w \in Nat : w = Weight[k] /\ w >= 1
    BY WeightFacts
  <2>2. Weight[k + 1] = Base * w
    BY <2>1, WeightFacts
  <2>3. Base * w = w + (Base - 1) * w /\ (Base - 1) * w = w + (Base - 2) * w /\ (Base - 2) * w \in Nat
    BY BaseFacts
  <2>4. (Base - 1) * w \in Nat
    BY BaseFacts
  <2> QED BY <2>1, <2>2, <2>3, <2>4
<1>2. m + 1 \in T
  BY <1>1
<1>3. ASSUME NEW k \in ((m + 1) + 1) .. n, k - 1 \in T PROVE k \in T
  <2>1. k - 1 \in Nat /\ (k - 1) + 1 = k /\ k \in (m + 1) .. n
    OBVIOUS
  <2>2. Weight[k - 1] < Weight[k]
    BY <1>1, <2>1
  <2>3. Weight[m] < Weight[k - 1]
    BY <1>3
  <2>4. Weight[m] \in Nat /\ Weight[k - 1] \in Nat /\ Weight[k] \in Nat
    BY <2>1, WeightFacts
  <2> QED BY <2>1, <2>2, <2>3, <2>4
<1> HIDE DEF T
<1>4. \A k \in (m + 1) .. n : k \in T
  BY <1>2, <1>3, Reached
<1> QED
  BY <1>4 DEF T

-----------------------------------------------------------------------------
(* The value of the lower words of a sequence.                              *)

LowerEquation(v, f) ==
    f = [k \in 0 .. Len(v) |-> IF k = 0 THEN 0 ELSE f[k - 1] + v[k] * Weight[k - 1]]
Lower(v, k) == (CHOOSE f : LowerEquation(v, f))[k]

LEMMA SeqFacts ==
    ASSUME NEW v \in Seq(Word)
    PROVE  /\ Len(v) \in Nat /\ DOMAIN v = 1 .. Len(v)
           /\ \A k \in 1 .. Len(v) : v[k] \in Word /\ v[k] \in Nat /\ v[k] < Base
  BY BaseFacts DEF Word

LEMMA LowerFacts ==
    ASSUME NEW v \in Seq(Word)
    PROVE  /\ Value(v) = Lower(v, Len(v))
           /\ Lower(v, 0) = 0
           /\ \A k \in 1 .. Len(v) : /\ Lower(v, k - 1) \in Nat /\ Lower(v, k) \in Nat
                                     /\ v[k] * Weight[k - 1] \in Nat
                                     /\ Lower(v, k) = Lower(v, k - 1) + v[k] * Weight[k - 1]
           /\ \A k \in 0 .. Len(v) : Lower(v, k) \in Nat
<1> DEFINE n == Len(v)
           term(k) == v[k] * Weight[k - 1]
           step == [k \in 1 .. n |-> [x \in Nat |-> x + term(k)]]
           lower == CHOOSE f : LowerEquation(v, f)
<1>1. n \in Nat
  BY SeqFacts
<1>2. \A k \in 1 .. n : term(k) \in Nat
  <2>1. ASSUME NEW k \in 1 .. n PROVE term(k) \in Nat
    <3>1. v[k] \in Nat
      BY SeqFacts
    <3>2. k - 1 \in Nat
      OBVIOUS
    <3>3. Weight[k - 1] \in Nat
      BY <3>2, WeightFacts
    <3> HIDE DEF n
    <3> QED BY <3>1, <3>3
  <2> QED BY <2>1
<1>3. \A f : LowerEquation(v, f) <=> f = [k \in 0 .. n |-> IF k = 0 THEN 0 ELSE f[k - 1] + term(k)]
  BY DEF LowerEquation
<1>4. Value(v) = lower[n]
  BY DEF Value, LowerEquation
<1> HIDE DEF n, term
<1>5. \E f : LowerEquation(v, f)
  <2>1. step \in [1 .. n -> [Nat -> Nat]]
    BY <1>2
  <2> HIDE DEF step
  <2>2. PICK f \in [0 .. n -> Nat] : Stepwise(f, n, 0, step)
    BY <1>1, <2>1, StepwiseExists
  <2>3. ASSUME NEW k \in 1 .. n PROVE step[k][f[k - 1]] = f[k - 1] + term(k)
    <3>1. f[k - 1] \in Nat
      BY <1>1
    <3> QED BY <3>1 DEF step
  <2>4. \A k \in 0 .. n : f[k] = IF k = 0 THEN 0 ELSE f[k - 1] + term(k)
    BY <1>1, <2>2, <2>3 DEF Stepwise
  <2> QED BY <1>3, <2>2, <2>4
<1>6. LowerEquation(v, lower)
  BY <1>5
<1>7. \A k : Lower(v, k) = lower[k]
  BY DEF Lower
<1> HIDE DEF lower
<1>8. \A k \in 0 .. n : lower[k] = IF k = 0 THEN 0 ELSE lower[k - 1] + term(k)
  BY <1>3, <1>6
<1>9. lower[0] = 0
  BY <1>1, <1>8
<1>10. \A k \in 1 .. n : lower[k] = lower[k - 1] + term(k)
  BY <1>1, <1>8
<1> DEFINE T == {k \in 0 .. n : lower[k] \in Nat}
<1>11. \A k \in 0 .. n : k \in T
  <2>1. 0 \in T
    BY <1>1, <1>9
  <2>2. \A k \in (0 + 1) .. n : k - 1 \in T => k \in T
    BY <1>2, <1>10
  <2> HIDE DEF T
  <2> QED BY <1>1, <2>1, <2>2, Reached
<1>12. \A k \in 1 .. n : lower[k - 1] \in Nat /\ lower[k] \in Nat
  <2>1. \A k \in 1 .. n : k - 1 \in 0 .. n /\ k \in 0 .. n
    BY <1>1
  <2> QED BY <1>11, <2>1
<1> QED
  BY <1>2, <1>4, <1>7, <1>9, <1>10, <1>11, <1>12 DEF n, term

\* What the lower words are worth is less than the weight of the next one.
LEMMA LowerBound ==
    ASSUME NEW v \in Seq(Word), NEW n \in 0 .. Len(v)
    PROVE  Lower(v, n) < Weight[n]
<1> DEFINE T == {k \in 0 .. n : Lower(v, k) < Weight[k]}
<1>0. n \in Nat /\ Len(v) \in Nat
  BY SeqFacts
<1>1. 0 \in T
  <2>1. Lower(v, 0) = 0 /\ Weight[0] = 1
    BY LowerFacts, WeightFacts
  <2> QED BY <1>0, <2>1
<1>2. ASSUME NEW k \in (0 + 1) .. n, k - 1 \in T PROVE k \in T
  <2>1. k \in 1 .. Len(v) /\ k - 1 \in Nat /\ (k - 1) + 1 = k
    BY SeqFacts
  <2>2. PICK w \in Nat : w = Weight[k - 1]
    BY <2>1, WeightFacts
  <2>3. Weight[k] = Base * w
    BY <2>1, <2>2, WeightFacts
  <2>4. PICK d \in Nat : d = v[k] /\ d < Base
    BY <2>1, SeqFacts
  <2>5. PICK l \in Nat : l = Lower(v, k - 1) /\ l < w /\ Lower(v, k) = l + d * w
    BY <1>2, <2>1, <2>2, <2>4, LowerFacts
  <2>6. PICK r \in Nat : Base = r + 1 + d
    <3>1. Base - 1 - d \in Nat /\ Base = (Base - 1 - d) + 1 + d
      BY <2>4, BaseFacts
    <3> QED BY <3>1
  <2>7. Base * w = r * w + w + d * w
    BY <2>6
  <2>8. r * w \in Nat /\ d * w \in Nat
    OBVIOUS
  <2> QED BY <1>0, <2>3, <2>5, <2>7, <2>8
<1> HIDE DEF T
<1>3. \A k \in 0 .. n : k \in T
  BY <1>0, <1>1, <1>2, Reached
<1> QED
  BY <1>0, <1>3 DEF T

\* Equal words keep the difference of what is below them.
LEMMA SameWords ==
    ASSUME NEW u \in Seq(Word), NEW v \in Seq(Word), NEW D \in Int,
           NEW m \in Nat, NEW n \in Nat, m <= n, n <= Len(u), n <= Len(v),
           Lower(u, m) = Lower(v, m) + D,
           \A k \in (m + 1) .. n : u[k] = v[k]
    PROVE  Lower(u, n) = Lower(v, n) + D
<1> DEFINE T == {k \in m .. n : Lower(u, k) = Lower(v, k) + D}
<1>1. m \in T
  OBVIOUS
<1>2. ASSUME NEW k \in (m + 1) .. n, k - 1 \in T PROVE k \in T
  <2>1. k \in 1 .. Len(u) /\ k \in 1 .. Len(v)
    BY SeqFacts
  <2>2. PICK d \in Nat : d = u[k] * Weight[k - 1] /\ d = v[k] * Weight[k - 1]
    BY <2>1, LowerFacts
  <2>3. Lower(u, k) = Lower(u, k - 1) + d /\ Lower(v, k) = Lower(v, k - 1) + d
    BY <2>1, <2>2, LowerFacts
  <2>4. Lower(u, k - 1) \in Nat /\ Lower(v, k - 1) \in Nat
    BY <2>1, LowerFacts
  <2> QED BY <1>2, <2>3, <2>4
<1> HIDE DEF T
<1>3. \A k \in m .. n : k \in T
  BY <1>1, <1>2, Reached
<1> QED
  BY <1>3 DEF T

LEMMA SamePrefix ==
    ASSUME NEW u \in Seq(Word), NEW v \in Seq(Word),
           NEW n \in Nat, n <= Len(u), n <= Len(v),
           \A k \in 1 .. n : u[k] = v[k]
    PROVE  Lower(u, n) = Lower(v, n)
<1>1. Lower(u, 0) = Lower(v, 0) + 0 /\ 0 \in Nat /\ 0 \in Int
  BY LowerFacts
<1>2. \A k \in (0 + 1) .. n : u[k] = v[k]
  OBVIOUS
<1>3. Lower(u, n) = Lower(v, n) + 0
  BY <1>1, <1>2, SameWords
<1>4. Lower(v, n) \in Nat
  BY LowerFacts
<1> QED
  BY <1>3, <1>4

\* A borrow on its way through zero words, which become all ones.
LEMMA BorrowedWords ==
    ASSUME NEW u \in Seq(Word), NEW v \in Seq(Word), NEW D \in Int,
           NEW m \in Nat, NEW n \in Nat, m <= n, n <= Len(u), n <= Len(v),
           Lower(u, m) = Lower(v, m) + Weight[m] + D,
           \A k \in (m + 1) .. n : u[k] = Base - 1 /\ v[k] = 0
    PROVE  Lower(u, n) = Lower(v, n) + Weight[n] + D
<1> DEFINE T == {k \in m .. n : Lower(u, k) = Lower(v, k) + Weight[k] + D}
<1>1. m \in T
  OBVIOUS
<1>2. ASSUME NEW k \in (m + 1) .. n, k - 1 \in T PROVE k \in T
  <2>1. k \in 1 .. Len(u) /\ k \in 1 .. Len(v) /\ k - 1 \in Nat /\ (k - 1) + 1 = k
    BY SeqFacts
  <2>2. PICK w \in Nat : w = Weight[k - 1] /\ Weight[k] = Base * w
    BY <2>1, WeightFacts
  <2>3. Lower(u, k) = Lower(u, k - 1) + (Base - 1) * w
    BY <1>2, <2>1, <2>2, LowerFacts
  <2>4. Lower(v, k) = Lower(v, k - 1) + 0 * w
    BY <1>2, <2>1, <2>2, LowerFacts
  <2>5. Lower(u, k - 1) = Lower(v, k - 1) + w + D
    BY <1>2, <2>2
  <2>6. (Base - 1) * w = Base * w - w /\ 0 * w = 0 /\ Base * w \in Nat
    BY BaseFacts
  <2>7. Lower(u, k - 1) \in Nat /\ Lower(v, k - 1) \in Nat
    BY <2>1, LowerFacts
  <2>8. Lower(u, k) = Lower(v, k) + Weight[k] + D
    BY <2>2, <2>3, <2>4, <2>5, <2>6, <2>7
  <2> QED BY <2>8
<1> HIDE DEF T
<1>3. \A k \in m .. n : k \in T
  BY <1>1, <1>2, Reached
<1> QED
  BY <1>3 DEF T

\* Higher words add to the value, zero words nothing.
LEMMA LowerGrows ==
    ASSUME NEW v \in Seq(Word), NEW m \in Nat, NEW n \in Nat, m <= n, n <= Len(v)
    PROVE  /\ Lower(v, m) <= Lower(v, n)
           /\ (\A k \in (m + 1) .. n : v[k] = 0) => Lower(v, m) = Lower(v, n)
<1> DEFINE Zero(k) == \A j \in (m + 1) .. k : v[j] = 0
           T == {k \in m .. n : /\ Lower(v, m) <= Lower(v, k)
                                /\ Zero(k) => Lower(v, m) = Lower(v, k)}
<1>0. Lower(v, m) \in Nat
  BY LowerFacts, SeqFacts
<1>1. m \in T
  BY <1>0
<1>2. ASSUME NEW k \in (m + 1) .. n, k - 1 \in T PROVE k \in T
  <2>1. k \in 1 .. Len(v) /\ k - 1 \in Nat
    BY SeqFacts
  <2>2. PICK l, d \in Nat : /\ l = Lower(v, k - 1) /\ d = v[k] * Weight[k - 1]
                            /\ Lower(v, k) = l + d
    BY <2>1, LowerFacts
  <2>3. Lower(v, m) <= Lower(v, k)
    BY <1>0, <1>2, <2>2
  <2>4. ASSUME Zero(k) PROVE Lower(v, m) = Lower(v, k)
    <3>1. Zero(k - 1) /\ v[k] = 0
      BY <2>1, <2>4
    <3>2. d = 0
      <4>1. Weight[k - 1] \in Nat
        BY <2>1, WeightFacts
      <4> QED BY <2>2, <3>1, <4>1
    <3> QED BY <1>2, <2>2, <3>1, <3>2
  <2> QED BY <2>3, <2>4
<1> HIDE DEF T
<1>3. \A k \in m .. n : k \in T
  BY <1>1, <1>2, Reached
<1>4. n \in T
  BY <1>3
<1> QED
  BY <1>4 DEF T

-----------------------------------------------------------------------------
(* Subtraction.                                                             *)

\* Unsigned arithmetic on words.
LEMMA WordDifference ==
    ASSUME NEW a \in Word, NEW b \in Word
    PROVE  /\ (a - b) % Base \in Word
           /\ b <= a => (a - b) % Base = a - b
           /\ a < b => (a - b) % Base = a - b + Base
<1>1. a \in Nat /\ b \in Nat /\ a < Base /\ b < Base /\ Base \in Nat
  BY BaseFacts DEF Word
<1>2. CASE b <= a
  <2>1. a - b \in 0 .. (Base - 1)
    BY <1>1, <1>2
  <2>2. (a - b) % Base = a - b
    BY <1>1, <2>1
  <2> QED BY <1>1, <1>2, <2>1, <2>2 DEF Word
<1>3. CASE a < b
  <2>1. a - b + Base \in 0 .. (Base - 1)
    BY <1>1, <1>3
  <2>2. (a - b) % Base = a - b + Base
    BY <1>1, <2>1
  <2> QED BY <1>1, <1>3, <2>1, <2>2 DEF Word
<1> QED
  BY <1>1, <1>2, <1>3

LEMMA WordSum ==
    ASSUME NEW a \in Word, NEW b \in Word
    PROVE  /\ (a + b) % Base \in Word
           /\ a + b < Base => (a + b) % Base = a + b
           /\ a + b >= Base => (a + b) % Base = a + b - Base
<1>1. a \in Nat /\ b \in Nat /\ a < Base /\ b < Base /\ Base \in Nat
  BY BaseFacts DEF Word
<1>2. CASE a + b < Base
  <2>1. (a + b) % Base = a + b
    BY <1>1, <1>2
  <2> QED BY <1>1, <1>2, <2>1 DEF Word
<1>3. CASE a + b >= Base
  <2>1. a + b - Base \in 0 .. (Base - 1)
    BY <1>1, <1>3
  <2>2. (a + b) % Base = a + b - Base
    BY <1>1, <2>1
  <2> QED BY <1>1, <1>3, <2>1, <2>2 DEF Word
<1> QED
  BY <1>1, <1>2, <1>3

\* Dropping the high zero words keeps the value.
Trimmed(v) == IF NonZero(v) = {} THEN v ELSE SubSeq(v, 1, Max(NonZero(v)))

LEMMA PrefixFacts ==
    ASSUME NEW v \in Seq(Word), NEW n \in 0 .. Len(v)
    PROVE  /\ SubSeq(v, 1, n) \in Seq(Word) /\ Len(SubSeq(v, 1, n)) = n
           /\ \A k \in 1 .. n : SubSeq(v, 1, n)[k] = v[k]
           /\ \A k \in 0 .. n : Lower(SubSeq(v, 1, n), k) = Lower(v, k)
<1> DEFINE s == SubSeq(v, 1, n)
<1>1. n \in Nat /\ Len(v) \in Nat /\ n <= Len(v)
  BY SeqFacts
<1>2. s = [k \in 1 .. n |-> v[k]]
  BY <1>1
<1>3. \A k \in 1 .. n : v[k] \in Word
  BY <1>1, SeqFacts
<1>4. s \in Seq(Word) /\ Len(s) = n /\ \A k \in 1 .. n : s[k] = v[k]
  BY <1>1, <1>2, <1>3
<1> HIDE DEF s
<1>5. ASSUME NEW k \in 0 .. n PROVE Lower(s, k) = Lower(v, k)
  <2>1. k \in Nat /\ k <= Len(s) /\ k <= Len(v)
    BY <1>1, <1>4
  <2>2. \A j \in 1 .. k : s[j] = v[j]
    BY <1>1, <1>4
  <2> QED BY <1>4, <2>1, <2>2, SamePrefix
<1> QED
  BY <1>4, <1>5 DEF s

LEMMA TrimmedFacts ==
    ASSUME NEW v \in Seq(Word)
    PROVE  /\ Trimmed(v) \in Seq(Word)
           /\ v # <<>> => Trimmed(v) # <<>>
           /\ Value(Trimmed(v)) = Value(v)
<1>1. Len(v) \in Nat /\ NonZero(v) = {k \in 1 .. Len(v) : v[k] # 0}
  BY SeqFacts DEF NonZero
<1>2. CASE NonZero(v) = {}
  BY <1>2 DEF Trimmed
<1>3. CASE NonZero(v) # {}
  <2>1. PICK n \in Nat : n = Max(NonZero(v)) /\ n \in 1 .. Len(v) /\ \A k \in NonZero(v) : k <= n
    <3>1. NonZero(v) \in SUBSET (0 .. Len(v))
      BY <1>1
    <3>2. Max(NonZero(v)) \in NonZero(v) /\ \A k \in NonZero(v) : k <= Max(NonZero(v))
      BY <1>1, <1>3, <3>1, MaxFacts
    <3>3. NonZero(v) \subseteq 1 .. Len(v)
      BY <1>1
    <3>4. Max(NonZero(v)) \in Nat /\ Max(NonZero(v)) \in 1 .. Len(v)
      BY <3>2, <3>3
    <3> QED BY <3>2, <3>4
  <2>2. Trimmed(v) = SubSeq(v, 1, n)
    BY <1>3, <2>1 DEF Trimmed
  <2>3. n \in 0 .. Len(v)
    BY <2>1
  <2>4. /\ SubSeq(v, 1, n) \in Seq(Word) /\ Len(SubSeq(v, 1, n)) = n
        /\ Lower(SubSeq(v, 1, n), n) = Lower(v, n)
    BY <2>3, PrefixFacts
  <2>5. Value(SubSeq(v, 1, n)) = Lower(v, n)
    BY <2>4, LowerFacts
  <2>6. \A k \in (n + 1) .. Len(v) : v[k] = 0
    BY <1>1, <2>1
  <2>7. Lower(v, n) = Lower(v, Len(v))
    BY <1>1, <2>1, <2>6, LowerGrows
  <2>8. SubSeq(v, 1, n) # <<>>
    BY <2>1, <2>4
  <2> QED BY <2>2, <2>4, <2>5, <2>7, <2>8, LowerFacts
<1> QED
  BY <1>2, <1>3

\* The words before the high zeros are dropped.
Lowered(v, i, p) ==
    LET lower == IF v[p] < i THEN Borrowed(v, p) ELSE {}
    IN  [k \in DOMAIN v |-> IF k = p THEN (v[k] - i) % Base
                            ELSE IF k \in lower THEN (v[k] - 1) % Base
                            ELSE v[k]]

LEMMA LoweredType ==
    ASSUME NEW v \in Seq(Word), NEW i \in Word, NEW p \in 1 .. Len(v)
    PROVE  /\ Lowered(v, i, p) \in Seq(Word) /\ Len(Lowered(v, i, p)) = Len(v)
           /\ substract(v, i, p) = Trimmed(Lowered(v, i, p))
<1>1. Len(v) \in Nat /\ DOMAIN v = 1 .. Len(v) /\ \A k \in 1 .. Len(v) : v[k] \in Word
  BY SeqFacts
<1> DEFINE lower == IF v[p] < i THEN Borrowed(v, p) ELSE {}
           word(k) == IF k = p THEN (v[k] - i) % Base
                      ELSE IF k \in lower THEN (v[k] - 1) % Base
                      ELSE v[k]
<1>2. ASSUME NEW k \in 1 .. Len(v) PROVE word(k) \in Word
  <2>1. v[k] \in Word /\ 1 \in Word
    BY <1>1, BaseFacts
  <2>2. (v[k] - i) % Base \in Word /\ (v[k] - 1) % Base \in Word
    BY <2>1, WordDifference
  <2> QED BY <2>1, <2>2
<1>3. Lowered(v, i, p) = [k \in 1 .. Len(v) |-> word(k)]
  BY <1>1 DEF Lowered
<1> HIDE DEF word
<1>4. Lowered(v, i, p) \in Seq(Word) /\ Len(Lowered(v, i, p)) = Len(v)
  BY <1>1, <1>2, <1>3
<1>5. ~(p > Len(v))
  BY <1>1
<1>6. substract(v, i, p) = Trimmed(Lowered(v, i, p))
  BY <1>5 DEF substract, Lowered, Trimmed
<1> QED
  BY <1>4, <1>6

\* Products of sums and differences, without the context they are needed in.
LEMMA Products ==
    ASSUME NEW d \in Nat, NEW e \in Nat, NEW w \in Nat
    PROVE  /\ e * w \in Nat /\ d * w \in Nat
           /\ (d + e + 1) * w = d * w + e * w + w
           /\ (e - 1) * w = e * w - w
  OBVIOUS

LEMMA LoweredValue ==
    ASSUME NEW v \in Seq(Word), NEW i \in Word, NEW p \in 1 .. Len(v),
           i * Weight[p - 1] <= Value(v)
    PROVE  Value(Lowered(v, i, p)) = Value(v) - i * Weight[p - 1]
<1> DEFINE n == Len(v)
           lower == IF v[p] < i THEN Borrowed(v, p) ELSE {}
<1>1. n \in Nat /\ p \in Nat /\ p >= 1 /\ p <= n /\ p - 1 \in Nat /\ (p - 1) + 1 = p
  BY SeqFacts
<1>2. PICK u \in Seq(Word) : u = Lowered(v, i, p) /\ Len(u) = n
  BY LoweredType
<1>3. DOMAIN v = 1 .. n /\ \A k \in 1 .. n : v[k] \in Word /\ v[k] \in Nat
  BY SeqFacts
<1>4. \A k \in 1 .. n : u[k] = IF k = p THEN (v[k] - i) % Base
                               ELSE IF k \in lower THEN (v[k] - 1) % Base
                               ELSE v[k]
  BY <1>2, <1>3 DEF Lowered
<1>5. lower \subseteq (p + 1) .. n
  BY DEF Borrowed
<1>6. Value(v) = Lower(v, n) /\ Value(u) = Lower(u, n)
  BY <1>2, LowerFacts
<1>7. PICK w \in Nat : w = Weight[p - 1] /\ w >= 1 /\ Weight[p] = Base * w
  BY <1>1, WeightFacts
<1>8. PICK c, d \in Nat : c = i /\ d = v[p] /\ c < Base /\ d < Base
  <2>1. v[p] \in Nat /\ v[p] < Base
    BY SeqFacts
  <2>2. i \in Nat /\ i < Base
    BY BaseFacts DEF Word
  <2> QED BY <2>1, <2>2
<1>9. PICK D \in Int : D = -(c * w)
  OBVIOUS
<1> HIDE DEF n, lower
<1>10. Lower(u, p - 1) = Lower(v, p - 1)
  <2>1. \A k \in 1 .. (p - 1) : u[k] = v[k]
    BY <1>1, <1>4, <1>5
  <2> QED BY <1>1, <1>2, <2>1, SamePrefix DEF n
<1>11. PICK l \in Nat : l = Lower(v, p - 1) /\ l < w
  BY <1>1, <1>7, LowerFacts, LowerBound DEF n
<1>12. Lower(v, p) = l + d * w
  BY <1>1, <1>7, <1>8, <1>11, LowerFacts DEF n
<1>13. Lower(u, p) = l + u[p] * w
  <2>1. p \in 1 .. Len(u)
    BY <1>1, <1>2
  <2>2. Lower(u, p) = Lower(u, p - 1) + u[p] * Weight[p - 1]
    BY <2>1, LowerFacts
  <2> QED BY <1>7, <1>10, <1>11, <2>2
<1>14. c * w \in Nat /\ d * w \in Nat /\ Base * w \in Nat
  BY BaseFacts
<1>15. u[p] = (v[p] - i) % Base
  BY <1>1, <1>4
<1>16. Lower(v, n) \in Nat /\ Lower(v, p) \in Nat
  BY <1>1, LowerFacts DEF n
<1>17. Value(u) = Value(v) + D
  <2>1. CASE c <= d
    <3>1. u[p] = d - c
      BY <1>1, <1>3, <1>8, <1>15, <2>1, WordDifference
    <3>2. (d - c) * w = d * w - c * w
      OBVIOUS
    <3>3. Lower(u, p) = Lower(v, p) + D
      BY <1>9, <1>12, <1>13, <1>14, <3>1, <3>2
    <3>4. \A k \in (p + 1) .. n : u[k] = v[k]
      <4>1. lower = {}
        BY <1>8, <2>1 DEF lower
      <4> QED BY <1>1, <1>4, <4>1
    <3>5. Lower(u, n) = Lower(v, n) + D
      BY <1>1, <1>2, <3>3, <3>4, SameWords DEF n
    <3> QED BY <1>6, <3>5
  <2>2. CASE d < c
    <3> DEFINE high == {k \in (p + 1) .. n : v[k] # 0}
    <3>1. u[p] = d - c + Base
      BY <1>1, <1>3, <1>8, <1>15, <2>2, WordDifference
    <3>2. Lower(u, p) = Lower(v, p) + Weight[p] + D
      <4>1. (d - c + Base) * w = d * w - c * w + Base * w
        BY BaseFacts
      <4>2. Lower(u, p) = l + (d - c + Base) * w
        BY <1>13, <3>1
      <4>3. PICK cw, dw, bw \in Nat : cw = c * w /\ dw = d * w /\ bw = Base * w
        BY <1>14
      <4>4. Lower(u, p) = l + (dw - cw + bw)
        BY <4>1, <4>2, <4>3
      <4>5. Lower(v, p) = l + dw /\ Weight[p] = bw /\ D = -cw
        BY <1>7, <1>9, <1>12, <4>3
      <4> QED BY <4>4, <4>5
    <3>3. high # {}
      <4>1. SUFFICES ASSUME high = {} PROVE FALSE
        OBVIOUS
      <4>2. \A k \in (p + 1) .. n : v[k] = 0
        BY <4>1
      <4>3. Lower(v, p) = Lower(v, n)
        BY <1>1, <4>2, LowerGrows DEF n
      <4>4. c * w <= l + d * w
        BY <1>6, <1>7, <1>8, <1>12, <4>3
      <4>5. PICK e \in Nat : c = d + e + 1
        <5>1. c - d - 1 \in Nat /\ c = d + (c - d - 1) + 1
          BY <2>2
        <5> QED BY <5>1
      <4>6. PICK dw, ew \in Nat : dw = d * w /\ ew = e * w
        <5>1. d * w \in Nat /\ e * w \in Nat
          OBVIOUS
        <5> QED BY <5>1
      <4>7. c * w = dw + ew + w
        <5>1. (d + e + 1) * w = d * w + e * w + w
          BY Products
        <5> QED BY <4>5, <4>6, <5>1
      <4>8. PICK m \in Nat : m = c * w /\ m <= l + dw /\ m = dw + ew + w
        <5>1. c * w \in Nat /\ c * w <= l + dw
          BY <1>14, <4>4, <4>6
        <5> QED BY <4>7, <5>1
      <4>9. l < w
        BY <1>11
      <4> QED BY <4>8, <4>9
    <3>4. PICK q \in Nat : q \in high /\ \A k \in high : q <= k
      <4>1. high \in SUBSET Nat
        OBVIOUS
      <4> HIDE DEF high
      <4> QED BY <3>3, <4>1, MinFacts
    <3>5. q \in (p + 1) .. n /\ v[q] # 0 /\ \A k \in (p + 1) .. (q - 1) : v[k] = 0
      BY <1>1, <3>4
    <3> HIDE DEF high
    <3>6. lower = (p + 1) .. q
      <4>1. lower = {k \in (p + 1) .. n : \A j \in (p + 1) .. (k - 1) : v[j] = 0}
        BY <1>8, <2>2 DEF lower, Borrowed, n
      <4>2. ASSUME NEW k \in lower PROVE k \in (p + 1) .. q
        <5>1. k \in (p + 1) .. n /\ ~(q \in (p + 1) .. (k - 1))
          BY <3>5, <4>1
        <5> QED BY <1>1, <3>5, <5>1
      <4>3. ASSUME NEW k \in (p + 1) .. q PROVE k \in lower
        BY <1>1, <3>5, <4>1
      <4> QED BY <4>2, <4>3
    <3>7. ASSUME NEW k \in (p + 1) .. (q - 1) PROVE u[k] = Base - 1 /\ v[k] = 0
      <4>1. v[k] = 0 /\ k \in 1 .. n /\ k # p /\ k \in lower
        BY <1>1, <3>5, <3>6
      <4>2. PICK zero, one \in Word : zero = 0 /\ one = 1
        BY BaseFacts
      <4>3. u[k] = (zero - one) % Base
        BY <1>4, <4>1, <4>2
      <4>4. (zero - one) % Base = zero - one + Base
        BY <4>2, WordDifference
      <4> QED BY <4>1, <4>2, <4>3, <4>4, BaseFacts
    <3>8. Lower(u, q - 1) = Lower(v, q - 1) + Weight[q - 1] + D
      <4>1. p \in Nat /\ q - 1 \in Nat /\ p <= q - 1 /\ q - 1 <= Len(u) /\ q - 1 <= Len(v)
        BY <1>1, <1>2, <3>5 DEF n
      <4> QED BY <1>2, <3>2, <3>7, <4>1, BorrowedWords
    <3>9. PICK x \in Nat : x = Weight[q - 1]
      <4>1. q - 1 \in Nat
        BY <1>1, <3>5
      <4> QED BY <4>1, WeightFacts
    <3>10. PICK e \in Nat : e = v[q] /\ e >= 1 /\ u[q] = e - 1
      <4>1. q \in 1 .. n /\ q # p /\ q \in lower
        BY <1>1, <3>5, <3>6
      <4>2. v[q] \in Nat /\ v[q] >= 1 /\ v[q] \in Word /\ 1 \in Word
        BY <1>3, <3>5, <4>1, BaseFacts
      <4>3. (v[q] - 1) % Base = v[q] - 1
        BY <4>2, WordDifference
      <4>4. u[q] = v[q] - 1
        BY <1>4, <4>1, <4>3
      <4> QED BY <4>2, <4>4
    <3>11. Lower(u, q) = Lower(v, q) + D
      <4>1. q \in 1 .. Len(u) /\ q \in 1 .. Len(v)
        BY <1>1, <1>2, <3>5 DEF n
      <4>2. Lower(u, q) = Lower(u, q - 1) + (e - 1) * x /\ Lower(u, q - 1) \in Nat
        BY <1>2, <3>9, <3>10, <4>1, LowerFacts
      <4>3. Lower(v, q) = Lower(v, q - 1) + e * x /\ Lower(v, q - 1) \in Nat
        BY <3>9, <3>10, <4>1, LowerFacts
      <4>4. (e - 1) * x = e * x - x /\ e * x \in Nat
        BY Products
      <4>5. PICK m \in Nat : m = e * x /\ (e - 1) * x = m - x
        BY <4>4
      <4>6. Lower(u, q) = Lower(u, q - 1) + (m - x) /\ Lower(v, q) = Lower(v, q - 1) + m
        BY <4>2, <4>3, <4>5
      <4>7. Lower(u, q - 1) = Lower(v, q - 1) + x + D
        BY <3>8, <3>9
      <4>8. Lower(u, q - 1) \in Nat /\ Lower(v, q - 1) \in Nat
        BY <4>2, <4>3
      <4> QED BY <4>6, <4>7, <4>8
    <3>12. \A k \in (q + 1) .. n : u[k] = v[k]
      <4>1. \A k \in (q + 1) .. n : k \in 1 .. n /\ k # p /\ k \notin lower
        BY <1>1, <3>5, <3>6
      <4> QED BY <1>4, <4>1
    <3>13. Lower(u, n) = Lower(v, n) + D
      <4>1. q <= n
        BY <1>1, <3>5
      <4> QED BY <1>1, <1>2, <3>11, <3>12, <4>1, SameWords DEF n
    <3> QED BY <1>6, <3>13
  <2> QED BY <2>1, <2>2
<1>18. Value(v) + D = Value(v) - i * Weight[p - 1]
  BY <1>6, <1>7, <1>8, <1>9, <1>14, <1>16
<1> QED
  BY <1>2, <1>17, <1>18

\* Subtracting a word at a position is exact whenever the value is large enough,
\* for then a borrow finds a word that is not zero.
LEMMA SubstractFacts ==
    ASSUME NEW v \in Seq(Word), NEW i \in Word, NEW p \in 1 .. Len(v)
    PROVE  /\ substract(v, i, p) \in Seq(Word) /\ substract(v, i, p) # <<>>
           /\ i * Weight[p - 1] <= Value(v) =>
                Value(substract(v, i, p)) = Value(v) - i * Weight[p - 1]
<1>1. PICK u \in Seq(Word) : /\ u = Lowered(v, i, p) /\ Len(u) = Len(v)
                             /\ substract(v, i, p) = Trimmed(u)
  BY LoweredType
<1>2. u # <<>>
  <2>1. Len(u) # 0
    BY <1>1, SeqFacts
  <2> QED BY <2>1
<1>3. Trimmed(u) \in Seq(Word) /\ Trimmed(u) # <<>> /\ Value(Trimmed(u)) = Value(u)
  BY <1>2, TrimmedFacts
<1> QED
  BY <1>1, <1>3, LoweredValue

PartialDifference(v, w, f) ==
    f = [p \in 0 .. Len(w) |-> IF p = 0 THEN v ELSE substract(f[p - 1], w[p], p)]

\* The steps of a difference are sequences of words.
LEMMA PartialDifferenceFacts ==
    ASSUME NEW v \in Seq(Word), NEW w \in Seq(Word)
    PROVE  \E f : /\ Difference(v, w) = f[Len(w)] /\ f[0] = v
                  /\ \A p \in 0 .. Len(w) : f[p] \in Seq(Word)
                  /\ \A p \in 1 .. Len(w) : f[p] = substract(f[p - 1], w[p], p)
<1> DEFINE n == Len(w)
           S == Seq(Word)
           step == [p \in 1 .. n |-> [u \in S |-> substract(u, w[p], p)]]
           partial == CHOOSE f : PartialDifference(v, w, f)
<1>1. n \in Nat /\ v \in S
  BY SeqFacts
<1>2. ASSUME NEW p \in 1 .. n, NEW u \in S PROVE substract(u, w[p], p) \in S
  <2>1. p \in Nat /\ p >= 1 /\ w[p] \in Word /\ Len(u) \in Nat
    BY <1>1, SeqFacts
  <2>2. CASE p <= Len(u)
    <3>1. p \in 1 .. Len(u)
      BY <2>1, <2>2
    <3> QED BY <2>1, <3>1, SubstractFacts
  <2>3. CASE p > Len(u)
    <3>1. substract(u, w[p], p) = <<>>
      BY <2>3 DEF substract, Undefined
    <3> QED BY <3>1
  <2> QED BY <2>1, <2>2, <2>3
<1>3. \A f : PartialDifference(v, w, f) <=>
         f = [p \in 0 .. n |-> IF p = 0 THEN v ELSE substract(f[p - 1], w[p], p)]
  BY DEF PartialDifference
<1>4. Difference(v, w) = partial[n]
  BY DEF Difference, PartialDifference
<1> HIDE DEF n, S
<1>5. \E f \in [0 .. n -> S] : PartialDifference(v, w, f)
  <2>1. step \in [1 .. n -> [S -> S]]
    BY <1>2
  <2> HIDE DEF step
  <2>2. PICK f \in [0 .. n -> S] : Stepwise(f, n, v, step)
    BY <1>1, <2>1, StepwiseExists
  <2>3. ASSUME NEW p \in 1 .. n PROVE step[p][f[p - 1]] = substract(f[p - 1], w[p], p)
    <3>1. f[p - 1] \in S
      BY <1>1
    <3> QED BY <3>1 DEF step
  <2>4. \A p \in 0 .. n : f[p] = IF p = 0 THEN v ELSE substract(f[p - 1], w[p], p)
    BY <1>1, <2>2, <2>3 DEF Stepwise
  <2> QED BY <1>3, <2>2, <2>4
<1>6. PartialDifference(v, w, partial)
  BY <1>5
<1> HIDE DEF partial
<1>7. partial = [p \in 0 .. n |-> IF p = 0 THEN v ELSE substract(partial[p - 1], w[p], p)]
  BY <1>3, <1>6
<1>8. partial[0] = v /\ \A p \in 1 .. n : partial[p] = substract(partial[p - 1], w[p], p)
  BY <1>1, <1>7
<1> DEFINE T == {p \in 0 .. n : partial[p] \in S}
<1>9. \A p \in 0 .. n : p \in T
  <2>1. 0 \in T /\ 0 \in Nat
    BY <1>1, <1>8
  <2>2. \A p \in (0 + 1) .. n : p - 1 \in T => p \in T
    BY <1>2, <1>8
  <2> HIDE DEF T
  <2> QED BY <1>1, <2>1, <2>2, Reached
<1> QED
  BY <1>4, <1>8, <1>9 DEF n, S

\* Subtracting the words of a value without high zeros, one by one: each position
\* is still there when its turn comes, whatever was dropped before.
LEMMA DifferenceFacts ==
    ASSUME NEW v \in Seq(Word), NEW w \in Seq(Word)
    PROVE  /\ Difference(v, w) \in Seq(Word)
           /\ v # <<>> /\ w # <<>> /\ Canonical(w) /\ Value(w) <= Value(v) =>
                /\ Difference(v, w) # <<>>
                /\ Value(Difference(v, w)) = Value(v) - Value(w)
<1> DEFINE n == Len(w)
<1>1. PICK f : /\ Difference(v, w) = f[n] /\ f[0] = v
               /\ \A p \in 0 .. n : f[p] \in Seq(Word)
               /\ \A p \in 1 .. n : f[p] = substract(f[p - 1], w[p], p)
  BY PartialDifferenceFacts
<1>2. n \in Nat /\ \A p \in 1 .. n : w[p] \in Word
  BY SeqFacts
<1>3. Difference(v, w) \in Seq(Word)
  BY <1>1, <1>2
<1>4. SUFFICES ASSUME v # <<>>, w # <<>>, Canonical(w), Value(w) <= Value(v)
               PROVE  /\ f[n] # <<>> /\ Value(f[n]) = Value(v) - Value(w)
  BY <1>1, <1>3
<1>5. Value(w) = Lower(w, n) /\ Lower(w, n) \in Nat
  BY <1>2, LowerFacts
<1>6. PICK V \in Nat : V = Value(v)
  <2>1. Len(v) \in 0 .. Len(v)
    BY SeqFacts
  <2> QED BY <2>1, LowerFacts
<1>7. Lower(w, 0) = 0
  BY LowerFacts
<1>8. n >= 1
  <2>1. n # 0
    BY <1>4
  <2> QED BY <1>2, <2>1
<1> DEFINE T == {p \in 0 .. n : f[p] # <<>> /\ Value(f[p]) = V - Lower(w, p)}
<1>9. 0 \in T /\ 0 \in Nat
  BY <1>1, <1>2, <1>4, <1>6, <1>7
<1>10. n = 1 \/ w[n] # 0
  BY <1>4 DEF Canonical
<1> HIDE DEF n
<1>11. ASSUME NEW p \in (0 + 1) .. n, p - 1 \in T PROVE p \in T
  <2>1. p \in 1 .. n /\ p - 1 \in 0 .. n /\ p - 1 \in Nat /\ p \in Nat
    BY <1>2
  <2>2. PICK u \in Seq(Word) : u = f[p - 1] /\ u # <<>> /\ Value(u) = V - Lower(w, p - 1)
    BY <1>1, <1>11, <2>1
  <2>3. PICK a, x \in Nat : /\ a = Lower(w, p - 1) /\ x = w[p] * Weight[p - 1]
                            /\ Lower(w, p) = a + x
    BY <2>1, LowerFacts DEF n
  <2>4. Lower(w, p) <= Lower(w, n)
    BY <1>2, <2>1, LowerGrows DEF n
  <2>5. x <= Value(u)
    BY <1>4, <1>5, <1>6, <2>2, <2>3, <2>4
  <2>6. p \in 1 .. Len(u)
    <3>1. Len(u) \in Nat /\ Len(u) # 0
      BY <2>2, SeqFacts
    <3>2. CASE n = 1
      BY <2>1, <3>1, <3>2
    <3>3. CASE n # 1
      <4>1. n \in 1 .. Len(w) /\ n - 1 \in Nat /\ p - 1 <= n - 1 /\ n - 1 <= Len(w)
        BY <1>2, <1>8, <2>1 DEF n
      <4>2. PICK y, d \in Nat : y = Weight[n - 1] /\ d = w[n] /\ d >= 1
        <5>1. w[n] \in Nat /\ w[n] # 0
          BY <1>10, <3>3, <4>1, SeqFacts
        <5>2. w[n] >= 1
          BY <5>1
        <5> QED BY <4>1, <5>1, <5>2, WeightFacts
      <4>3. Lower(w, n) = Lower(w, n - 1) + d * y /\ Lower(w, n - 1) \in Nat
        BY <4>1, <4>2, LowerFacts
      <4>4. d * y >= y
        <5>1. PICK e \in Nat : d = e + 1
          <6>1. d - 1 \in Nat /\ d = (d - 1) + 1
            BY <4>2
          <6> QED BY <6>1
        <5>2. (e + 1) * y = e * y + y /\ e * y \in Nat
          OBVIOUS
        <5> QED BY <5>1, <5>2
      <4>5. a <= Lower(w, n - 1)
        BY <2>1, <2>3, <4>1, LowerGrows
      <4>6. d * y \in Nat
        OBVIOUS
      <4>7. y <= Value(u)
        <5>1. PICK dy \in Nat : dy = d * y
          BY <4>6
        <5>2. PICK b \in Nat : b = Lower(w, n - 1) /\ a <= b
          BY <4>3, <4>5
        <5>3. b + dy <= V
          BY <1>4, <1>5, <1>6, <4>3, <5>1, <5>2
        <5>4. y <= dy
          BY <4>4, <5>1
        <5>5. Value(u) = V - a
          BY <2>2, <2>3
        <5> QED BY <5>2, <5>3, <5>4, <5>5
      <4>8. Value(u) < Weight[Len(u)]
        <5>1. Len(u) \in 0 .. Len(u)
          BY <3>1
        <5> QED BY <5>1, LowerFacts, LowerBound
      <4>9. PICK z \in Nat : z = Weight[Len(u)]
        BY <3>1, WeightFacts
      <4>10. y < z
        BY <2>2, <2>3, <4>7, <4>8, <4>9
      <4>11. ~(Len(u) < n - 1) /\ Len(u) # n - 1
        BY <3>1, <4>1, <4>2, <4>9, <4>10, WeightGrows
      <4> QED BY <1>2, <2>1, <3>1, <4>1, <4>11
    <3> QED BY <3>2, <3>3
  <2>7. w[p] \in Word
    BY <1>2, <2>1
  <2>8. /\ substract(u, w[p], p) # <<>>
        /\ Value(substract(u, w[p], p)) = Value(u) - w[p] * Weight[p - 1]
    BY <2>3, <2>5, <2>6, <2>7, SubstractFacts
  <2>9. f[p] = substract(u, w[p], p)
    BY <1>1, <2>1, <2>2
  <2>10. Value(f[p]) = V - Lower(w, p)
    BY <2>2, <2>3, <2>8, <2>9
  <2> QED BY <2>1, <2>8, <2>9, <2>10
<1> HIDE DEF T
<1>12. \A p \in 0 .. n : p \in T
  BY <1>2, <1>9, <1>11, Reached
<1>13. n \in T
  BY <1>2, <1>12
<1> QED
  BY <1>5, <1>6, <1>13 DEF T

-----------------------------------------------------------------------------
(* Addition.                                                                *)

\* One word changes the value by its difference times its weight.
LEMMA ExceptValue ==
    ASSUME NEW v \in Seq(Word), NEW p \in 1 .. Len(v), NEW d \in Word
    PROVE  /\ [v EXCEPT ![p] = d] \in Seq(Word) /\ Len([v EXCEPT ![p] = d]) = Len(v)
           /\ Value([v EXCEPT ![p] = d]) = Value(v) + (d - v[p]) * Weight[p - 1]
<1> DEFINE n == Len(v)
<1>1. n \in Nat /\ p \in Nat /\ p - 1 \in Nat /\ p <= n
  BY SeqFacts
<1>a. /\ [v EXCEPT ![p] = d] \in Seq(Word) /\ Len([v EXCEPT ![p] = d]) = n
      /\ \A k \in 1 .. n : [v EXCEPT ![p] = d][k] = IF k = p THEN d ELSE v[k]
  BY ExceptSeq
<1>b. PICK u : u = [v EXCEPT ![p] = d]
  OBVIOUS
<1>2. u \in Seq(Word) /\ Len(u) = n
  BY <1>a, <1>b
<1>c. \A k \in 1 .. n : u[k] = IF k = p THEN d ELSE v[k]
  BY <1>a, <1>b
<1>3. PICK c, e \in Nat : c = v[p] /\ e = d
  BY SeqFacts, BaseFacts DEF Word
<1>4. PICK w \in Nat : w = Weight[p - 1]
  BY <1>1, WeightFacts
<1>5. PICK D \in Int : D = (e - c) * w
  OBVIOUS
<1> HIDE DEF n
<1>6. Lower(u, p - 1) = Lower(v, p - 1)
  <2>1. \A k \in 1 .. (p - 1) : u[k] = v[k]
    BY <1>1, <1>c
  <2>2. p - 1 <= Len(u) /\ p - 1 <= Len(v)
    BY <1>1, <1>2 DEF n
  <2> QED BY <1>1, <1>2, <2>1, <2>2, SamePrefix
<1>7. Lower(u, p) = Lower(v, p) + D
  <2>1. p \in 1 .. Len(u) /\ p \in 1 .. Len(v) /\ p \in 1 .. n
    BY <1>1, <1>2 DEF n
  <2>2. Lower(v, p) = Lower(v, p - 1) + c * w /\ Lower(v, p - 1) \in Nat
    BY <1>3, <1>4, <2>1, LowerFacts
  <2>3. u[p] = e
    BY <1>c, <1>3, <2>1
  <2>4. Lower(u, p) = Lower(u, p - 1) + e * w
    <3>1. Lower(u, p) = Lower(u, p - 1) + u[p] * Weight[p - 1]
      BY <1>2, <2>1, LowerFacts
    <3> QED BY <1>4, <2>3, <3>1
  <2>5. PICK cw, ew \in Nat : cw = c * w /\ ew = e * w
    <3>1. c * w \in Nat /\ e * w \in Nat
      OBVIOUS
    <3> QED BY <3>1
  <2>6. D = ew - cw
    <3>1. (e - c) * w = e * w - c * w
      OBVIOUS
    <3> QED BY <1>5, <2>5, <3>1
  <2> QED BY <1>6, <2>2, <2>4, <2>5, <2>6
<1>8. \A k \in (p + 1) .. n : u[k] = v[k]
  BY <1>1, <1>c
<1>9. Lower(u, n) = Lower(v, n) + D
  <2>1. n <= Len(u) /\ n <= Len(v)
    BY <1>1, <1>2 DEF n
  <2> QED BY <1>1, <1>2, <1>7, <1>8, <2>1, SameWords
<1>10. Value(u) = Lower(u, n) /\ Value(v) = Lower(v, n)
  BY <1>2, LowerFacts DEF n
<1> QED
  BY <1>b, <1>2, <1>3, <1>4, <1>5, <1>9, <1>10 DEF n

LEMMA AppendValue ==
    ASSUME NEW v \in Seq(Word), NEW d \in Word
    PROVE  /\ Append(v, d) \in Seq(Word) /\ Len(Append(v, d)) = Len(v) + 1
           /\ Value(Append(v, d)) = Value(v) + d * Weight[Len(v)]
<1> DEFINE n == Len(v)
<1>1. n \in Nat /\ n + 1 \in Nat
  BY SeqFacts
<1>b. PICK u : u = Append(v, d)
  OBVIOUS
<1>2. u \in Seq(Word) /\ Len(u) = n + 1
  BY <1>b
<1>c. u[n + 1] = d
  BY <1>1, <1>b
<1>d. \A k \in 1 .. n : u[k] = v[k]
  BY <1>1, <1>b
<1> HIDE DEF n
<1>3. Lower(u, n) = Lower(v, n)
  <2>1. n <= Len(u) /\ n <= Len(v)
    BY <1>1, <1>2 DEF n
  <2> QED BY <1>1, <1>2, <1>d, <2>1, SamePrefix
<1>4. n + 1 \in 1 .. Len(u) /\ (n + 1) - 1 = n
  BY <1>1, <1>2
<1>5. Lower(u, n + 1) = Lower(u, n) + d * Weight[n]
  BY <1>2, <1>c, <1>4, LowerFacts
<1>6. Value(u) = Lower(u, n + 1) /\ Value(v) = Lower(v, n)
  BY <1>2, LowerFacts DEF n
<1> QED
  BY <1>b, <1>2, <1>3, <1>5, <1>6 DEF n

\* Missing words are zeros.
LEMMA ExtendedFacts ==
    ASSUME NEW v \in Seq(Word), NEW p \in Nat \ {0}
    PROVE  /\ Extended(v, p) \in Seq(Word) /\ p \in 1 .. Len(Extended(v, p))
           /\ Value(Extended(v, p)) = Value(v)
<1> DEFINE n == Len(v)
<1>1. n \in Nat
  BY SeqFacts
<1>2. CASE p <= n
  BY <1>1, <1>2 DEF Extended
<1>3. CASE n < p
  <2> DEFINE zeros == [k \in 1 .. (p - n) |-> 0]
  <2>1. zeros \in Seq(Word) /\ Len(zeros) = p - n
    BY <1>1, <1>3, BaseFacts
  <2>a. PICK u : u = v \o zeros
    OBVIOUS
  <2>2. u \in Seq(Word) /\ Len(u) = p
    <3> HIDE DEF zeros
    <3> QED BY <1>1, <1>3, <2>1, <2>a
  <2>b. \A k \in 1 .. p : u[k] = IF k <= n THEN v[k] ELSE zeros[k - n]
    <3> HIDE DEF zeros
    <3> QED BY <1>1, <1>3, <2>1, <2>a, ConcatProperties
  <2>3. Extended(v, p) = u
    BY <1>1, <1>3, <2>a DEF Extended
  <2>4. \A k \in 1 .. n : u[k] = v[k]
    BY <1>1, <1>3, <2>b
  <2>5. \A k \in (n + 1) .. p : u[k] = 0
    BY <1>1, <1>3, <2>b
  <2> HIDE DEF n
  <2>6. Lower(u, n) = Lower(v, n)
    <3>1. n <= Len(u) /\ n <= Len(v)
      BY <1>1, <1>3, <2>2 DEF n
    <3> QED BY <1>1, <2>2, <2>4, <3>1, SamePrefix
  <2>7. Lower(u, n) = Lower(u, p)
    <3>1. n <= p /\ p <= Len(u) /\ p \in Nat
      BY <1>1, <1>3, <2>2
    <3> QED BY <1>1, <2>2, <2>5, <3>1, LowerGrows
  <2>8. Value(u) = Lower(u, p) /\ Value(v) = Lower(v, n)
    BY <2>2, LowerFacts DEF n
  <2>9. p \in 1 .. Len(u)
    <3>1. p >= 1 /\ p \in Nat
      OBVIOUS
    <3> QED BY <2>2, <3>1
  <2> QED BY <2>2, <2>3, <2>6, <2>7, <2>8, <2>9
<1> QED
  BY <1>1, <1>2, <1>3

\* A carry that does not arrive at the next word, which is all ones.
LostAt(v, i, p) ==
    LET u == Extended(v, p)
    IN  /\ Overflows(u, i, p)
        /\ p + 1 < Len(u) /\ u[p + 1] = Base - 1

\* Where a carry out of position p goes: to a word at least as high as the next
\* one, and higher only if the next one is all ones in the middle of the value.
LEMMA CarriedFacts ==
    ASSUME NEW v \in Seq(Word), NEW p \in 1 .. Len(v)
    PROVE  /\ Carried(v, p) \in Seq(Word)
           /\ \E m \in Nat : /\ m >= p /\ Value(Carried(v, p)) = Value(v) + Weight[m]
                             /\ m = p <=> ~(p + 1 < Len(v) /\ v[p + 1] = Base - 1)
<1> DEFINE n == Len(v)
           open == {k \in (p + 1) .. n : v[k] # Base - 1}
<1>1. n \in Nat /\ p \in Nat /\ p >= 1 /\ p <= n
  BY SeqFacts
<1>2. Carried(v, p) = IF open # {} THEN [v EXCEPT ![Min(open)] = @ + 1]
                      ELSE Append(IF p < n THEN [v EXCEPT ![n] = 0] ELSE v, 1)
  BY DEF Carried
<1>3. \A k \in 1 .. n : v[k] \in Nat /\ v[k] < Base
  BY SeqFacts
<1> HIDE DEF n
<1>4. CASE open # {}
  <2>1. open \in SUBSET Nat
    BY <1>1
  <2> HIDE DEF open
  <2>2. PICK q \in Nat : q = Min(open) /\ q \in open /\ \A k \in open : q <= k
    BY <1>4, <2>1, MinFacts
  <2>3. q \in (p + 1) .. n /\ v[q] # Base - 1
    BY <2>2 DEF open
  <2>4. q \in 1 .. Len(v) /\ v[q] + 1 \in Word
    <3>1. q \in 1 .. n
      BY <1>1, <2>3
    <3>2. v[q] + 1 \in 0 .. (Base - 1)
      BY <1>3, <2>3, <3>1, BaseFacts
    <3> QED BY <3>1, <3>2 DEF Word, n
  <2>5. Carried(v, p) = [v EXCEPT ![q] = v[q] + 1]
    BY <1>2, <1>4, <2>2, <2>4
  <2>6. /\ Carried(v, p) \in Seq(Word)
        /\ Value(Carried(v, p)) = Value(v) + ((v[q] + 1) - v[q]) * Weight[q - 1]
    BY <2>4, <2>5, ExceptValue
  <2>7. PICK m \in Nat : m = q - 1 /\ m >= p
    BY <1>1, <2>3
  <2>8. ((v[q] + 1) - v[q]) * Weight[q - 1] = Weight[m]
    <3>1. v[q] \in Nat /\ Weight[m] \in Nat
      BY <1>3, <2>4, <2>7, WeightFacts DEF n
    <3>2. (v[q] + 1) - v[q] = 1
      BY <3>1
    <3> QED BY <2>7, <3>1, <3>2
  <2>9. m = p <=> ~(p + 1 < n /\ v[p + 1] = Base - 1)
    <3>1. CASE q = p + 1
      BY <1>1, <2>3, <2>7, <3>1
    <3>2. CASE q # p + 1
      <4>1. p + 1 < q /\ q <= n /\ p + 1 \in (p + 1) .. n
        BY <1>1, <2>3, <3>2
      <4>2. p + 1 \notin open
        BY <1>1, <2>2, <4>1
      <4>3. v[p + 1] = Base - 1
        BY <4>1, <4>2 DEF open
      <4> QED BY <1>1, <2>7, <3>2, <4>1, <4>3
    <3> QED BY <3>1, <3>2
  <2> QED BY <2>6, <2>7, <2>8, <2>9 DEF n
<1>5. CASE open = {} /\ p = n
  <2>1. Carried(v, p) = Append(v, 1)
    BY <1>1, <1>2, <1>5
  <2>2. Carried(v, p) \in Seq(Word) /\ Value(Carried(v, p)) = Value(v) + 1 * Weight[n]
    BY <2>1, BaseFacts, AppendValue DEF n
  <2>3. 1 * Weight[n] = Weight[p] /\ ~(p + 1 < n)
    <3>1. Weight[n] \in Nat
      BY <1>1, WeightFacts
    <3> QED BY <1>1, <1>5, <3>1
  <2> QED BY <1>1, <2>2, <2>3 DEF n
<1>6. CASE open = {} /\ p < n
  <2>1. PICK m \in Nat : m + 1 = n /\ n - 1 = m /\ m >= p
    BY <1>1, <1>6
  <2>2. v[n] = Base - 1 /\ n \in 1 .. Len(v)
    <3>1. n \in (p + 1) .. n /\ n \notin open /\ n \in 1 .. n
      BY <1>1, <1>6
    <3> QED BY <3>1 DEF n
  <2>3. PICK u : u = [v EXCEPT ![n] = 0]
    OBVIOUS
  <2>4. /\ u \in Seq(Word) /\ Len(u) = n
        /\ Value(u) = Value(v) + (0 - v[n]) * Weight[n - 1]
    BY <2>2, <2>3, BaseFacts, ExceptValue DEF n
  <2>5. Carried(v, p) = Append(u, 1)
    BY <1>2, <1>6, <2>3
  <2>6. Carried(v, p) \in Seq(Word) /\ Value(Carried(v, p)) = Value(u) + 1 * Weight[n]
    BY <2>4, <2>5, BaseFacts, AppendValue
  <2>7. PICK x, y \in Nat : x = Weight[m] /\ y = Base * x /\ Weight[n] = y
    <3>1. Weight[m] \in Nat /\ Weight[m + 1] = Base * Weight[m]
      BY WeightFacts
    <3>2. Base * Weight[m] \in Nat
      BY <3>1, BaseFacts
    <3> QED BY <2>1, <3>1, <3>2
  <2>8. (0 - v[n]) * Weight[n - 1] = x - y
    <3>1. (0 - (Base - 1)) * x = x - Base * x
      BY BaseFacts
    <3> QED BY <2>1, <2>2, <2>7, <3>1
  <2>9. Value(Carried(v, p)) = Value(v) + Weight[m]
    <3>1. Value(v) \in Nat
      <4>1. Len(v) \in 0 .. Len(v)
        BY SeqFacts
      <4> QED BY <4>1, LowerFacts
    <3> QED BY <2>4, <2>6, <2>7, <2>8, <3>1
  <2>10. m = p <=> ~(p + 1 < n /\ v[p + 1] = Base - 1)
    <3>1. CASE m = p
      BY <1>1, <2>1, <3>1
    <3>2. CASE m # p
      <4>1. p + 1 < n /\ p + 1 \in (p + 1) .. n
        BY <1>1, <2>1, <3>2
      <4> QED BY <1>6, <3>2, <4>1
    <3> QED BY <3>1, <3>2
  <2> QED BY <2>1, <2>6, <2>9, <2>10 DEF n
<1> QED
  BY <1>1, <1>4, <1>5, <1>6

\* Adding a word at a position never loses value, and adds too much only when its
\* carry is lost.
LEMMA AddFacts ==
    ASSUME NEW v \in Seq(Word), NEW i \in Word, NEW p \in Nat \ {0}
    PROVE  /\ add(v, i, p) \in Seq(Word)
           /\ \E x \in Nat : /\ Value(add(v, i, p)) = Value(v) + i * Weight[p - 1] + x
                             /\ x = 0 <=> ~ LostAt(v, i, p)
<1>1. PICK u \in Seq(Word) : u = Extended(v, p) /\ p \in 1 .. Len(u) /\ Value(u) = Value(v)
  BY ExtendedFacts
<1>2. PICK c, d \in Nat : c = i /\ d = u[p] /\ c < Base /\ d < Base /\ u[p] \in Word
  <2>1. u[p] \in Word /\ u[p] \in Nat /\ u[p] < Base
    BY <1>1, SeqFacts
  <2>2. i \in Nat /\ i < Base
    BY BaseFacts DEF Word
  <2> QED BY <2>1, <2>2
<1>3. PICK w \in Nat : w = Weight[p - 1] /\ Weight[p] = Base * w /\ p - 1 \in Nat
  <2>1. p - 1 \in Nat /\ (p - 1) + 1 = p
    OBVIOUS
  <2> QED BY <2>1, WeightFacts
<1>4. PICK s \in Word : s = (u[p] + i) % Base
  BY <1>2, WordSum
<1>5. PICK new : new = [u EXCEPT ![p] = s]
  OBVIOUS
<1>6. /\ new \in Seq(Word) /\ Len(new) = Len(u)
      /\ Value(new) = Value(u) + (s - d) * w
  <2>1. /\ [u EXCEPT ![p] = s] \in Seq(Word) /\ Len([u EXCEPT ![p] = s]) = Len(u)
        /\ Value([u EXCEPT ![p] = s]) = Value(u) + (s - u[p]) * Weight[p - 1]
    BY <1>1, ExceptValue
  <2> QED BY <1>2, <1>3, <1>5, <2>1
<1>7. PICK V \in Nat : V = Value(v)
  <2>1. Len(v) \in 0 .. Len(v)
    BY SeqFacts
  <2> QED BY <2>1, LowerFacts
<1>8. PICK cw, dw, bw \in Nat : cw = c * w /\ dw = d * w /\ bw = Base * w
  <2>1. c * w \in Nat /\ d * w \in Nat /\ Base * w \in Nat
    BY BaseFacts
  <2> QED BY <2>1
<1>9. new = [u EXCEPT ![p] = (@ + i) % Base]
  BY <1>1, <1>4, <1>5
<1>10. add(v, i, p) = IF Overflows(u, i, p) THEN Carried(new, p) ELSE new
  BY <1>1, <1>9 DEF add
<1>11. Overflows(u, i, p) <=> d + c >= Base
  BY <1>2 DEF Overflows
<1>12. i * Weight[p - 1] = cw
  BY <1>2, <1>3, <1>8
<1>13. LostAt(v, i, p) <=> Overflows(u, i, p) /\ p + 1 < Len(u) /\ u[p + 1] = Base - 1
  BY <1>1 DEF LostAt
<1>14. CASE d + c < Base
  <2>1. s = d + c
    BY <1>2, <1>4, <1>14, WordSum
  <2>2. (s - d) * w = cw
    <3>1. s - d = c
      BY <2>1
    <3> QED BY <1>8, <3>1
  <2>3. add(v, i, p) = new
    BY <1>10, <1>11, <1>14, BaseFacts
  <2>4. Value(new) = V + cw + 0
    BY <1>1, <1>6, <1>7, <2>2
  <2>5. ~ LostAt(v, i, p)
    BY <1>11, <1>13, <1>14, BaseFacts
  <2>6. 0 \in Nat
    OBVIOUS
  <2> QED BY <1>6, <1>7, <1>12, <2>3, <2>4, <2>5, <2>6
<1>15. CASE d + c >= Base
  <2>1. s = d + c - Base
    BY <1>2, <1>4, <1>15, WordSum
  <2>2. (s - d) * w = cw - bw
    <3>1. s - d = c - Base
      BY <2>1, BaseFacts
    <3>2. (c - Base) * w = c * w - Base * w
      BY BaseFacts
    <3> QED BY <1>8, <3>1, <3>2
  <2>3. add(v, i, p) = Carried(new, p)
    BY <1>10, <1>11, <1>15
  <2>4. p \in 1 .. Len(new)
    BY <1>1, <1>6
  <2>5. PICK m \in Nat : /\ m >= p /\ Value(Carried(new, p)) = Value(new) + Weight[m]
                         /\ m = p <=> ~(p + 1 < Len(new) /\ new[p + 1] = Base - 1)
    BY <1>6, <2>4, CarriedFacts
  <2>6. Carried(new, p) \in Seq(Word)
    BY <1>6, <2>4, CarriedFacts
  <2>7. PICK x \in Nat : Weight[m] = bw + x /\ (x = 0 <=> m = p)
    <3>1. Weight[m] \in Nat /\ Weight[p] = bw
      BY <1>3, <1>8, WeightFacts
    <3>2. m # p => bw < Weight[m]
      <4>1. m # p => p < m
        BY <2>5
      <4> QED BY <3>1, <4>1, WeightGrows
    <3>3. Weight[m] - bw \in Nat
      BY <3>1, <3>2
    <3>4. Weight[m] = bw + (Weight[m] - bw) /\ (Weight[m] - bw = 0 <=> m = p)
      BY <3>1, <3>2
    <3> QED BY <3>3, <3>4
  <2>8. Value(add(v, i, p)) = V + cw + x
    BY <1>1, <1>6, <1>7, <2>2, <2>3, <2>5, <2>7
  <2>9. p + 1 < Len(u) => new[p + 1] = u[p + 1]
    <3>1. p + 1 < Len(u) => p + 1 \in 1 .. Len(u) /\ p + 1 # p
      BY SeqFacts
    <3> QED BY <1>1, <1>5, <3>1, ExceptSeq
  <2>10. x = 0 <=> ~ LostAt(v, i, p)
    BY <1>6, <1>11, <1>13, <1>15, <2>5, <2>7, <2>9
  <2> QED BY <1>7, <1>12, <2>3, <2>6, <2>8, <2>10
<1> QED
  BY <1>2, <1>14, <1>15, BaseFacts

PartialSum(v, w, f) ==
    f = [p \in 0 .. Len(w) |-> IF p = 0 THEN v ELSE add(f[p - 1], w[p], p)]

\* The steps of a sum are sequences of words.
LEMMA PartialSumFacts ==
    ASSUME NEW v \in Seq(Word), NEW w \in Seq(Word)
    PROVE  \E f : /\ Sum(v, w) = f[Len(w)] /\ f[0] = v
                  /\ \A p \in 0 .. Len(w) : f[p] \in Seq(Word)
                  /\ \A p \in 1 .. Len(w) : f[p] = add(f[p - 1], w[p], p)
<1> DEFINE n == Len(w)
           S == Seq(Word)
           step == [p \in 1 .. n |-> [u \in S |-> add(u, w[p], p)]]
           partial == CHOOSE f : PartialSum(v, w, f)
<1>1. n \in Nat /\ v \in S
  BY SeqFacts
<1>2. ASSUME NEW p \in 1 .. n, NEW u \in S PROVE add(u, w[p], p) \in S
  <2>1. p \in Nat \ {0} /\ w[p] \in Word
    BY <1>1, SeqFacts
  <2> QED BY <2>1, AddFacts
<1>3. \A f : PartialSum(v, w, f) <=>
         f = [p \in 0 .. n |-> IF p = 0 THEN v ELSE add(f[p - 1], w[p], p)]
  BY DEF PartialSum
<1>4. Sum(v, w) = partial[n]
  BY DEF Sum, PartialSum
<1> HIDE DEF n, S
<1>5. \E f \in [0 .. n -> S] : PartialSum(v, w, f)
  <2>1. step \in [1 .. n -> [S -> S]]
    BY <1>2
  <2> HIDE DEF step
  <2>2. PICK f \in [0 .. n -> S] : Stepwise(f, n, v, step)
    BY <1>1, <2>1, StepwiseExists
  <2>3. ASSUME NEW p \in 1 .. n PROVE step[p][f[p - 1]] = add(f[p - 1], w[p], p)
    <3>1. f[p - 1] \in S
      BY <1>1
    <3> QED BY <3>1 DEF step
  <2>4. \A p \in 0 .. n : f[p] = IF p = 0 THEN v ELSE add(f[p - 1], w[p], p)
    BY <1>1, <2>2, <2>3 DEF Stepwise
  <2> QED BY <1>3, <2>2, <2>4
<1>6. PartialSum(v, w, partial)
  BY <1>5
<1> HIDE DEF partial
<1>7. partial = [p \in 0 .. n |-> IF p = 0 THEN v ELSE add(partial[p - 1], w[p], p)]
  BY <1>3, <1>6
<1>8. partial[0] = v /\ \A p \in 1 .. n : partial[p] = add(partial[p - 1], w[p], p)
  BY <1>1, <1>7
<1> DEFINE T == {p \in 0 .. n : partial[p] \in S}
<1>9. \A p \in 0 .. n : p \in T
  <2>1. 0 \in T /\ 0 \in Nat
    BY <1>1, <1>8
  <2>2. \A p \in (0 + 1) .. n : p - 1 \in T => p \in T
    BY <1>2, <1>8
  <2> HIDE DEF T
  <2> QED BY <1>1, <2>1, <2>2, Reached
<1> QED
  BY <1>4, <1>8, <1>9 DEF n, S

\* The sum with fewer words is a step of the sum with all of them.
LEMMA PrefixSum ==
    ASSUME NEW v \in Seq(Word), NEW w \in Seq(Word), NEW q \in 0 .. Len(w), NEW f,
           f[0] = v, \A p \in 1 .. Len(w) : f[p] = add(f[p - 1], w[p], p)
    PROVE  Sum(v, SubSeq(w, 1, q)) = f[q]
<1>1. PICK s \in Seq(Word) : s = SubSeq(w, 1, q) /\ Len(s) = q /\ \A k \in 1 .. q : s[k] = w[k]
  BY PrefixFacts
<1>2. PICK g : /\ Sum(v, s) = g[q] /\ g[0] = v
               /\ \A p \in 1 .. q : g[p] = add(g[p - 1], s[p], p)
  <2>1. PICK g : /\ Sum(v, s) = g[Len(s)] /\ g[0] = v
                 /\ \A p \in 0 .. Len(s) : g[p] \in Seq(Word)
                 /\ \A p \in 1 .. Len(s) : g[p] = add(g[p - 1], s[p], p)
    BY PartialSumFacts
  <2> QED BY <1>1, <2>1
<1>3. q \in Nat /\ Len(w) \in Nat /\ q <= Len(w)
  BY SeqFacts
<1> DEFINE T == {k \in 0 .. q : g[k] = f[k]}
<1>4. 0 \in T /\ 0 \in Nat
  BY <1>2, <1>3
<1>5. ASSUME NEW k \in (0 + 1) .. q, k - 1 \in T PROVE k \in T
  <2>1. k \in 1 .. q /\ k \in 1 .. Len(w) /\ k \in 0 .. q
    BY <1>3
  <2>2. g[k] = add(g[k - 1], w[k], k) /\ f[k] = add(f[k - 1], w[k], k)
    BY <1>1, <1>2, <2>1
  <2> QED BY <1>5, <2>1, <2>2
<1> HIDE DEF T
<1>6. \A k \in 0 .. q : k \in T
  BY <1>3, <1>4, <1>5, Reached
<1>7. q \in T
  BY <1>3, <1>6
<1> QED
  BY <1>1, <1>2, <1>7 DEF T

\* A sum adds every word of w; what its lost carries add on top never cancels.
LEMMA SumFacts ==
    ASSUME NEW v \in Seq(Word), NEW w \in Seq(Word)
    PROVE  /\ Sum(v, w) \in Seq(Word)
           /\ Value(Sum(v, w)) = Value(v) + Value(w) <=> ~ CarryLost(v, w)
<1> DEFINE n == Len(w)
<1>1. PICK f : /\ Sum(v, w) = f[n] /\ f[0] = v
               /\ \A p \in 0 .. n : f[p] \in Seq(Word)
               /\ \A p \in 1 .. n : f[p] = add(f[p - 1], w[p], p)
  BY PartialSumFacts
<1>2. n \in Nat /\ DOMAIN w = 1 .. n /\ \A p \in 1 .. n : w[p] \in Word
  BY SeqFacts
<1> DEFINE Lost(p) == LostAt(f[p - 1], w[p], p)
<1>3. CarryLost(v, w) <=> \E p \in 1 .. n : Lost(p)
  <2>0. \A q \in 0 .. n : Sum(v, SubSeq(w, 1, q)) = f[q]
    <3>1. f[0] = v /\ \A p \in 1 .. Len(w) : f[p] = add(f[p - 1], w[p], p)
      BY <1>1
    <3>2. ASSUME NEW q \in 0 .. Len(w) PROVE Sum(v, SubSeq(w, 1, q)) = f[q]
      BY <3>1, PrefixSum
    <3> QED BY <3>2
  <2>1. ASSUME NEW p \in 1 .. n PROVE Sum(v, SubSeq(w, 1, p - 1)) = f[p - 1]
    <3>1. p - 1 \in 0 .. n
      BY <1>2
    <3> QED BY <2>0, <3>1
  <2>2. CarryLost(v, w) <=> \E p \in 1 .. n : LostAt(Sum(v, SubSeq(w, 1, p - 1)), w[p], p)
    BY <1>2 DEF CarryLost, LostAt
  <2> QED BY <2>1, <2>2
<1>4. PICK V \in Nat : V = Value(v)
  <2>1. Len(v) \in 0 .. Len(v)
    BY SeqFacts
  <2> QED BY <2>1, LowerFacts
<1> DEFINE Sound(p) == \A k \in 1 .. p : ~ Lost(k)
           Exact(p, x) == Value(f[p]) = V + Lower(w, p) + x /\ (x = 0 <=> Sound(p))
           T == {p \in 0 .. n : \E x \in Nat : Exact(p, x)}
<1> HIDE DEF n, Lost
<1>5. 0 \in T /\ 0 \in Nat
  <2>1. Lower(w, 0) = 0 /\ Value(f[0]) = V
    BY <1>1, <1>4, LowerFacts
  <2>2. 0 \in Nat /\ 0 \in 0 .. n
    BY <1>2
  <2>3. Exact(0, 0)
    BY <2>1
  <2> QED BY <2>2, <2>3
<1>6. ASSUME NEW p \in (0 + 1) .. n, p - 1 \in T PROVE p \in T
  <2>1. p \in 1 .. n /\ p \in 0 .. n /\ p - 1 \in 0 .. n /\ p \in Nat \ {0} /\ p \in 1 .. Len(w)
    BY <1>2 DEF n
  <2>2. PICK x \in Nat : Value(f[p - 1]) = V + Lower(w, p - 1) + x /\ (x = 0 <=> Sound(p - 1))
    BY <1>6
  <2>3. PICK y \in Nat : /\ Value(f[p]) = Value(f[p - 1]) + w[p] * Weight[p - 1] + y
                         /\ y = 0 <=> ~ Lost(p)
    BY <1>1, <1>2, <2>1, AddFacts DEF Lost
  <2>4. PICK a, b \in Nat : /\ a = Lower(w, p - 1) /\ b = w[p] * Weight[p - 1]
                            /\ Lower(w, p) = a + b
    BY <2>1, LowerFacts
  <2>5. Sound(p) <=> Sound(p - 1) /\ ~ Lost(p)
    <3>1. \A k : k \in 1 .. p <=> k \in 1 .. (p - 1) \/ k = p
      BY <2>1
    <3> QED BY <3>1
  <2> HIDE DEF Sound
  <2>6. Value(f[p]) = V + Lower(w, p) + (x + y)
    BY <2>2, <2>3, <2>4
  <2>7. x + y = 0 <=> Sound(p)
    BY <2>2, <2>3, <2>5
  <2>8. x + y \in Nat
    OBVIOUS
  <2> QED BY <2>1, <2>6, <2>7, <2>8
<1> HIDE DEF T
<1>7. \A p \in 0 .. n : p \in T
  BY <1>2, <1>5, <1>6, Reached
<1>8. n \in T
  BY <1>2, <1>7
<1>9. PICK x \in Nat : Value(f[n]) = V + Lower(w, n) + x /\ (x = 0 <=> Sound(n))
  BY <1>8 DEF T
<1>10. Value(w) = Lower(w, n) /\ Lower(w, n) \in Nat
  BY <1>2, LowerFacts DEF n
<1>11. Sound(n) <=> ~ CarryLost(v, w)
  BY <1>3
<1> HIDE DEF Sound
<1>12. Value(f[n]) = V + Value(w) <=> x = 0
  BY <1>9, <1>10
<1>13. f[n] \in Seq(Word)
  BY <1>1, <1>2 DEF n
<1> QED
  BY <1>1, <1>4, <1>9, <1>11, <1>12, <1>13 DEF n

-----------------------------------------------------------------------------
(* The client's calls.                                                      *)

LEMMA FromVectorFacts ==
    ASSUME NEW v \in Seq(Word)
    PROVE  FromVector(v) \in Seq(Word)
<1>1. CASE v = <<>>
  BY <1>1 DEF FromVector, Undefined
<1>2. CASE v # <<>>
  <2> DEFINE S == {1} \cup NonZero(v)
  <2>1. Len(v) \in Nat /\ Len(v) # 0 /\ NonZero(v) \subseteq 1 .. Len(v)
    BY <1>2, SeqFacts DEF NonZero
  <2>2. S \in SUBSET (0 .. Len(v)) /\ S # {}
    BY <2>1
  <2>3. FromVector(v) = SubSeq(v, 1, Max(S))
    BY <1>2 DEF FromVector
  <2> HIDE DEF S
  <2>4. Max(S) \in 0 .. Len(v)
    BY <2>1, <2>2, MaxFacts
  <2> QED BY <2>3, <2>4, PrefixFacts
<1> QED
  BY <1>1, <1>2

LEMMA AssignFacts ==
    ASSUME TypeOK, NEW z \in Vars, NEW v \in Seq(Word), Assign(z, v)
    PROVE  TypeOK' /\ m_value'[z] = v
  BY DEF TypeOK, Assign

\* Plus, Minus and their variants with a word.
LEMMA PlusFacts ==
    ASSUME TypeOK, NEW x \in Vars, NEW y \in Vars, NEW z \in Vars
    PROVE  /\ Plus(z, x, y) =>
                /\ TypeOK'
                /\ Value(m_value'[z]) = Value(m_value[x]) + Value(m_value[y])
                     <=> ~ CarryLost(m_value[x], m_value[y])
           /\ Minus(z, x, y) =>
                /\ TypeOK'
                /\ Canonical(m_value[y]) /\ Value(m_value[y]) <= Value(m_value[x]) =>
                     /\ m_value'[z] # Undefined
                     /\ Value(m_value'[z]) = Value(m_value[x]) - Value(m_value[y])
<1>1. PICK v, w \in Seq(Word) : v = m_value[x] /\ w = m_value[y]
  BY DEF TypeOK
<1>2. ASSUME Plus(z, x, y)
      PROVE  TypeOK' /\ (Value(m_value'[z]) = Value(v) + Value(w) <=> ~ CarryLost(v, w))
  <2>1. Assign(z, Sum(v, w))
    BY <1>1, <1>2 DEF Plus
  <2>2. Sum(v, w) \in Seq(Word)
    BY SumFacts
  <2>3. TypeOK' /\ m_value'[z] = Sum(v, w)
    BY <2>1, <2>2, AssignFacts
  <2> QED BY <2>3, SumFacts
<1>3. ASSUME Minus(z, x, y)
      PROVE  /\ TypeOK'
             /\ Canonical(w) /\ Value(w) <= Value(v) =>
                  m_value'[z] # Undefined /\ Value(m_value'[z]) = Value(v) - Value(w)
  <2>1. Assign(z, Difference(v, w)) /\ v # <<>> /\ w # <<>>
    BY <1>1, <1>3 DEF Minus, Defined, Undefined
  <2>2. Difference(v, w) \in Seq(Word)
    BY DifferenceFacts
  <2>3. TypeOK' /\ m_value'[z] = Difference(v, w)
    BY <2>1, <2>2, AssignFacts
  <2> QED BY <2>1, <2>3, DifferenceFacts DEF Undefined
<1> QED
  BY <1>1, <1>2, <1>3

LEMMA WordFacts ==
    ASSUME TypeOK, NEW x \in Vars, NEW z \in Vars, NEW i \in Word,
           PlusWord(z, x, i) \/ MinusWord(z, x, i)
    PROVE  TypeOK'
<1>1. PICK v \in Seq(Word) : v = m_value[x]
  BY DEF TypeOK
<1>2. CASE PlusWord(z, x, i)
  <2>1. Assign(z, add(v, i, 1))
    BY <1>1, <1>2 DEF PlusWord
  <2>2. add(v, i, 1) \in Seq(Word)
    BY AddFacts
  <2> QED BY <2>1, <2>2, AssignFacts
<1>3. CASE MinusWord(z, x, i)
  <2>1. Assign(z, substract(v, i, 1)) /\ v # <<>>
    BY <1>1, <1>3 DEF MinusWord, Defined, Undefined
  <2>2. 1 \in 1 .. Len(v)
    <3>1. Len(v) \in Nat /\ Len(v) # 0
      BY <2>1, SeqFacts
    <3> QED BY <3>1
  <2>3. substract(v, i, 1) \in Seq(Word)
    BY <2>2, SubstractFacts
  <2> QED BY <2>1, <2>3, AssignFacts
<1> QED
  BY <1>2, <1>3

\* The same at any word, also one outside the value.
LEMMA AtFacts ==
    ASSUME TypeOK, NEW x \in Vars, NEW i \in Word, NEW p \in Nat \ {0},
           AddAt(x, i, p) \/ SubstractAt(x, i, p)
    PROVE  TypeOK'
<1>1. PICK v \in Seq(Word) : v = m_value[x]
  BY DEF TypeOK
<1>2. CASE AddAt(x, i, p)
  <2>1. Assign(x, add(v, i, p))
    BY <1>1, <1>2 DEF AddAt
  <2>2. add(v, i, p) \in Seq(Word)
    BY AddFacts
  <2> QED BY <2>1, <2>2, AssignFacts
<1>3. CASE SubstractAt(x, i, p)
  <2>1. Assign(x, substract(v, i, p))
    BY <1>1, <1>3 DEF SubstractAt
  <2>2. substract(v, i, p) \in Seq(Word)
    <3>1. CASE p \in 1 .. Len(v)
      BY <3>1, SubstractFacts
    <3>2. CASE p > Len(v)
      BY <3>2 DEF substract, Undefined
    <3> QED BY <3>1, <3>2, SeqFacts
  <2> QED BY <2>1, <2>2, AssignFacts
<1> QED
  BY <1>2, <1>3

LEMMA InitTypeOK == Init => TypeOK
<1>1. <<0>> \in Seq(Word)
  BY BaseFacts
<1> QED
  BY <1>1 DEF Init, TypeOK

LEMMA StepTypeOK ==
    ASSUME TypeOK, [Next]_m_value PROVE TypeOK'
<1>1. CASE \E z \in Vars : ConstructWord(z) \/ ConstructVector(z)
  <2>1. PICK z \in Vars : ConstructWord(z) \/ ConstructVector(z)
    BY <1>1
  <2>2. CASE ConstructWord(z)
    <3>1. PICK i \in Word : Assign(z, <<i>>)
      BY <2>2 DEF ConstructWord
    <3>2. <<i>> \in Seq(Word)
      OBVIOUS
    <3> QED BY <3>1, <3>2, AssignFacts
  <2>3. CASE ConstructVector(z)
    <3>1. PICK v \in Vectors : Assign(z, FromVector(v))
      BY <2>3 DEF ConstructVector
    <3>2. v \in Seq(Word)
      BY VectorAssumption
    <3>3. FromVector(v) \in Seq(Word)
      BY <3>2, FromVectorFacts
    <3> QED BY <3>1, <3>3, AssignFacts
  <2> QED BY <2>1, <2>2, <2>3
<1>2. CASE \E x, y \in Vars : \/ PlusEquals(x, y) \/ MinusEquals(x, y)
                              \/ \E z \in Vars : Plus(z, x, y) \/ Minus(z, x, y)
  BY <1>2, PlusFacts DEF PlusEquals, MinusEquals
<1>3. CASE \E x \in Vars, i \in Word :
              \/ PlusEqualsWord(x, i) \/ MinusEqualsWord(x, i)
              \/ \E z \in Vars : PlusWord(z, x, i) \/ MinusWord(z, x, i)
              \/ \E p \in 1 .. MaxWords : AddAt(x, i, p) \/ SubstractAt(x, i, p)
  <2>1. 1 .. MaxWords \subseteq Nat \ {0}
    BY BoundAssumption
  <2> QED BY <1>3, <2>1, WordFacts, AtFacts DEF PlusEqualsWord, MinusEqualsWord
<1>4. CASE UNCHANGED m_value
  BY <1>4 DEF TypeOK
<1> QED
  BY <1>1, <1>2, <1>3, <1>4 DEF Next

-----------------------------------------------------------------------------
(* Theorems.                                                                *)

\* For every base, number of variables and vectors constructed from, every word
\* of a value stays below the base.
THEOREM BigIntegerTypeCorrect == Spec => []TypeOK
<1>1. Init => TypeOK
  BY InitTypeOK
<1>2. TypeOK /\ [Next]_m_value => TypeOK'
  BY StepTypeOK
<1> QED
  BY <1>1, <1>2, PTL DEF Spec

\* For values of every length: a value without high zero words is subtracted
\* exactly from any value that is not smaller, through every borrow and every
\* word dropped on the way.
THEOREM DifferencesAreExact == Spec => DifferenceIsExact
<1> DEFINE Exact ==
      \A x, y, z \in Vars :
         /\ Minus(z, x, y)
         /\ Canonical(m_value[y]) /\ Value(m_value[y]) <= Value(m_value[x])
         => /\ m_value'[z] # Undefined
            /\ Value(m_value'[z]) = Value(m_value[x]) - Value(m_value[y])
<1>1. Init => TypeOK
  BY InitTypeOK
<1>2. TypeOK /\ [Next]_m_value => TypeOK'
  BY StepTypeOK
<1>3. TypeOK => Exact
  BY PlusFacts
<1>4. TypeOK /\ [Next]_m_value => [Exact]_m_value
  BY <1>3
<1> QED
  BY <1>1, <1>2, <1>4, PTL DEF Spec, DifferenceIsExact

\* For values of every length: the sum of two values is exact if and only if no
\* carry meets an all-ones word in the middle, however many carries there are.
THEOREM SumsAreExactUnlessCarryLost == Spec => SumIsExactUnlessCarryLost
<1> DEFINE Exact ==
      \A x, y, z \in Vars : Plus(z, x, y) =>
         (Value(m_value'[z]) = Value(m_value[x]) + Value(m_value[y])
            <=> ~ CarryLost(m_value[x], m_value[y]))
<1>1. Init => TypeOK
  BY InitTypeOK
<1>2. TypeOK /\ [Next]_m_value => TypeOK'
  BY StepTypeOK
<1>3. TypeOK => Exact
  BY PlusFacts
<1>4. TypeOK /\ [Next]_m_value => [Exact]_m_value
  BY <1>3
<1> QED
  BY <1>1, <1>2, <1>4, PTL DEF Spec, SumIsExactUnlessCarryLost

-----------------------------------------------------------------------------
(* Arithmetic.                                                              *)

LEMMA ProductOfNats == \A m, n \in Nat : m * n \in Nat
  OBVIOUS

\* A product is bounded by the product of the bounds.
LEMMA ProductWithin ==
    ASSUME NEW X \in Nat, NEW m \in (-X) .. X, NEW n \in (-X) .. X
    PROVE  m * n \in (-(X * X)) .. (X * X)
<1>1. X - m \in Nat /\ X + m \in Nat /\ X - n \in Nat /\ X + n \in Nat /\ m \in Int /\ n \in Int
  OBVIOUS
<1>2. (X - m) * (X + n) >= 0 /\ (X + m) * (X - n) >= 0
  BY <1>1, ProductOfNats
<1>3. (X - m) * (X - n) >= 0 /\ (X + m) * (X + n) >= 0
  BY <1>1, ProductOfNats
<1>4. /\ (X - m) * (X + n) = ((X * X) + (X * n)) - ((m * X) + (m * n))
      /\ (X + m) * (X - n) = ((X * X) + (m * X)) - ((X * n) + (m * n))
      /\ (X - m) * (X - n) = ((X * X) + (m * n)) - ((m * X) + (X * n))
      /\ (X + m) * (X + n) = ((X * X) + (m * n)) + ((m * X) + (X * n))
  BY <1>1
<1>5. PICK xx, mn, xn, mx \in Int : xx = X * X /\ mn = m * n /\ xn = X * n /\ mx = m * X
  BY <1>1
<1>6. mn <= xx /\ 0 <= xx + mn
  <2>1. (xx + xn) - (mx + mn) >= 0 /\ (xx + mx) - (xn + mn) >= 0
    BY <1>2, <1>4, <1>5
  <2>2. (xx + mn) - (mx + xn) >= 0 /\ (xx + mn) + (mx + xn) >= 0
    BY <1>3, <1>4, <1>5
  <2> QED BY <2>1, <2>2
<1>7. mn \in (-xx) .. xx
  BY <1>6
<1> QED
  BY <1>5, <1>7

\* The quotient of what is bounded by a multiple of the divisor, and the remainder.
LEMMA QuotientWithin ==
    ASSUME NEW d \in Nat \ {0}, NEW c \in Nat, NEW n \in Int,
           -(c * d) <= n, n < c * d + d
    PROVE  n \div d \in (-c) .. c /\ n % d \in 0 .. (d - 1)
<1>1. n \div d \in Int /\ n % d \in 0 .. (d - 1) /\ n = d * (n \div d) + (n % d)
  OBVIOUS
<1>2. PICK q \in Int, r \in 0 .. (d - 1) : q = n \div d /\ n = d * q + r
  BY <1>1
<1>3. ASSUME q >= c + 1 PROVE FALSE
  <2>1. q - (c + 1) \in Nat /\ d * (q - (c + 1)) >= 0
    BY <1>3, ProductOfNats
  <2>2. d * (q - (c + 1)) = (d * q) - (c * d + d)
    OBVIOUS
  <2>3. PICK x, y \in Int : x = d * q /\ y = c * d
    OBVIOUS
  <2> QED BY <1>2, <2>1, <2>2, <2>3
<1>4. ASSUME q <= -c - 1 PROVE FALSE
  <2>1. -c - 1 - q \in Nat /\ d * ((-c - 1) - q) >= 0
    BY <1>4, ProductOfNats
  <2>2. d * ((-c - 1) - q) = (-(c * d) - d) - d * q
    OBVIOUS
  <2>3. PICK x, y \in Int : x = d * q /\ y = c * d
    OBVIOUS
  <2> QED BY <1>2, <2>1, <2>2, <2>3
<1>5. q \in (-c) .. c
  BY <1>3, <1>4
<1> QED
  BY <1>1, <1>2, <1>5

-----------------------------------------------------------------------------
(* Sizes.                                                                   *)

\* The limbs are wide enough for their number and for the prime: 54 * 19 * 16 is
\* 16416, and a limb of the code has 65536 values.
Room == Limbs > 2 /\ 54 * (Prime19 * Limbs) <= Radix

LEMMA Sizes ==
    /\ Limbs \in Nat /\ Limbs > 1 /\ Prime19 \in Nat /\ Prime19 > 0
    /\ ByteMod \in Nat /\ ByteMod > 1 /\ Radix \in Nat /\ Radix > 1
<1>1. Limbs \in Nat /\ Limbs > 1 /\ Prime19 \in Nat /\ Prime19 > 0 /\ ByteMod \in Nat /\ ByteMod > 1
  BY X25519Assumption
<1>2. PICK m \in Nat : m = ByteMod - 2
  BY <1>1
<1>3. m * m \in Nat /\ ByteMod * ByteMod = (m * m + 4 * m) + 4
  <2>1. ByteMod = m + 2
    BY <1>1, <1>2
  <2>2. (m + 2) * (m + 2) = (m * m + 4 * m) + 4
    OBVIOUS
  <2> QED BY <2>1, <2>2, ProductOfNats
<1>4. Radix = (m * m + 4 * m) + 4
  BY <1>3 DEF Radix
<1>5. PICK s \in Nat : s = m * m
  BY <1>3
<1>6. Radix \in Nat /\ Radix > 1
  BY <1>4, <1>5
<1> QED
  BY <1>1, <1>6

\* The bound of the limbs that fmul is given, of a sum of their products, and of a
\* limb before it is carried.
Wide == 2 * Radix + 4 * Prime19
Total == Limbs * (Wide * Wide)
Square == Radix * Radix

Limb == (-2 * Prime19) .. (Radix + 2 * Prime19)
Element == [1 .. Limbs -> Limb]
WideElement == [1 .. Limbs -> (-Wide) .. Wide]

LEMMA WideFacts ==
    ASSUME Room
    PROVE  /\ Wide \in Nat /\ Wide <= 3 * Radix /\ 4 * Prime19 <= Radix
           /\ 54 * Prime19 <= Radix
<1>1. Limbs - 1 \in Nat /\ Prime19 * (Limbs - 1) \in Nat
  <2>1. Limbs - 1 \in Nat
    BY Sizes
  <2> QED BY <2>1, Sizes, ProductOfNats
<1>2. Prime19 * Limbs = Prime19 * (Limbs - 1) + Prime19
  BY Sizes
<1>3. PICK s \in Nat : s = Prime19 * (Limbs - 1)
  BY <1>1
<1>4. Prime19 * Limbs = s + Prime19
  BY <1>2, <1>3
<1>5. 54 * (s + Prime19) <= Radix
  BY <1>4 DEF Room
<1>6. 54 * Prime19 <= Radix /\ 4 * Prime19 <= Radix
  BY <1>5, Sizes
<1> QED
  BY <1>6, Sizes DEF Wide

\* A product with the larger factor is the larger one.
LEMMA Monotonic ==
    ASSUME NEW m \in Nat, NEW n \in Nat, NEW k \in Nat, m <= n
    PROVE  m * k <= n * k /\ m * k \in Nat /\ n * k \in Nat
<1>1. n - m \in Nat /\ (n - m) * k \in Nat /\ m * k \in Nat /\ n * k \in Nat
  <2>1. n - m \in Nat
    OBVIOUS
  <2> QED BY <2>1, ProductOfNats
<1>2. (n - m) * k = n * k - m * k
  OBVIOUS
<1>3. PICK x, y \in Nat : x = n * k /\ y = m * k
  BY <1>1
<1>4. x - y \in Nat
  BY <1>1, <1>2, <1>3
<1> QED
  BY <1>3, <1>4

\* The sum of the products and 38 times another one leave room for a carry.
LEMMA TotalFacts ==
    ASSUME Room
    PROVE  /\ Total \in Nat /\ Square \in Nat /\ Prime19 * Total \in Nat
           /\ 2 * (Total + (2 * (Prime19 * Total))) <= Square * Radix
           /\ 2 * Square <= Square * Radix /\ Square * Radix \in Nat
<1> DEFINE R == Radix
           PL == Prime19 * Limbs
           W == Wide * Wide
<1>1. /\ R \in Nat /\ Wide \in Nat /\ PL \in Nat /\ W \in Nat /\ Limbs \in Nat /\ Prime19 \in Nat
      /\ Square \in Nat /\ R > 1 /\ Prime19 > 0
  BY Sizes, WideFacts, ProductOfNats DEF Square
<1>2. W <= 9 * Square
  <2>1. (3 * R) - Wide \in Nat /\ (3 * R) + Wide \in Nat
    BY <1>1, WideFacts
  <2>2. ((3 * R) - Wide) * ((3 * R) + Wide) \in Nat
    BY <2>1, ProductOfNats
  <2>3. ((3 * R) - Wide) * ((3 * R) + Wide) = 9 * (R * R) - Wide * Wide
    BY <1>1
  <2> QED BY <1>1, <2>2, <2>3 DEF Square
<1>3. Total \in Nat /\ Prime19 * Total \in Nat /\ Prime19 * Total = PL * W
  <2>1. Total \in Nat
    BY <1>1, ProductOfNats DEF Total
  <2>2. Prime19 * (Limbs * W) = (Prime19 * Limbs) * W
    BY <1>1
  <2> QED BY <1>1, <2>1, <2>2, ProductOfNats DEF Total
<1>4. Total <= Prime19 * Total
  <2>1. 1 * Total <= Prime19 * Total
    BY <1>1, <1>3, Monotonic
  <2> QED BY <1>3, <2>1
<1>5. 54 * PL <= R
  BY DEF Room
<1> HIDE DEF R, W, PL
<1>6. PL * W <= PL * (9 * Square) /\ PL * (9 * Square) = 9 * (PL * Square) /\ PL * Square \in Nat
  <2>1. 9 * Square \in Nat /\ W * PL <= (9 * Square) * PL
    BY <1>1, <1>2, Monotonic
  <2>2. W * PL = PL * W /\ (9 * Square) * PL = PL * (9 * Square) /\ (9 * Square) * PL = 9 * (PL * Square)
    BY <1>1
  <2> QED BY <1>1, <2>1, <2>2, ProductOfNats
<1>7. 54 * (PL * Square) <= R * Square /\ R * Square = Square * R /\ R * Square \in Nat
  <2>1. 54 * PL \in Nat /\ (54 * PL) * Square <= R * Square
    BY <1>1, <1>5, Monotonic
  <2>2. (54 * PL) * Square = 54 * (PL * Square) /\ R * Square = Square * R
    BY <1>1
  <2> QED BY <1>1, <2>1, <2>2, ProductOfNats
<1>8. 2 * Square <= R * Square
  BY <1>1, Monotonic
<1>9. PICK t, pt, ps, sr \in Nat : t = Total /\ pt = Prime19 * Total /\ ps = PL * Square /\ sr = Square * R
  BY <1>3, <1>6, <1>7
<1>10. pt <= 9 * ps /\ t <= pt /\ 54 * ps <= sr
  BY <1>3, <1>4, <1>6, <1>7, <1>9
<1>11. 2 * (t + (2 * pt)) <= sr
  BY <1>10
<1>12. 2 * Square <= sr
  BY <1>7, <1>8, <1>9
<1> QED
  BY <1>1, <1>9, <1>11, <1>12 DEF R

-----------------------------------------------------------------------------
(* Field elements.                                                          *)

\* Elem makes a tuple of a function that is one already.
LEMMA ElemFact ==
    ASSUME NEW n \in Nat, NEW S, NEW f \in [1 .. n -> S]
    PROVE  Elem(f) = f
<1>1. f \in Seq(S)
  OBVIOUS
<1> QED
  BY <1>1, ConcatEmptySeq DEF Elem

\* The terms of limb k of a product.
Term(a, b, k, i) == IF k - i \in 1 .. Limbs THEN a[i] * b[k - i] ELSE 0

\* The sum of the terms exists and is bounded by as many squares.
LEMMA ColumnSums ==
    ASSUME Room, NEW a \in WideElement, NEW b \in WideElement, NEW k \in 2 .. (2 * Limbs + 1)
    PROVE  product(a, b)[k] \in (-Total) .. Total
<1> DEFINE W == Wide * Wide
           t(i) == Term(a, b, k, i)
           Sums(f) == f = [i \in 0 .. Limbs |-> IF i = 0 THEN 0 ELSE f[i - 1] + t(i)]
           sum == CHOOSE f : Sums(f)
           step == [i \in 1 .. Limbs |-> [n \in Int |-> n + t(i)]]
           T == {i \in 0 .. Limbs : sum[i] \in (-(i * W)) .. (i * W)}
<1>1. Limbs \in Nat /\ W \in Nat /\ Wide \in Nat
  BY Sizes, WideFacts, ProductOfNats
<1>2. \A i \in 1 .. Limbs : t(i) \in (-W) .. W
  <2>1. ASSUME NEW i \in 1 .. Limbs PROVE t(i) \in (-W) .. W
    <3>1. CASE k - i \in 1 .. Limbs
      <4>1. a[i] \in (-Wide) .. Wide /\ b[k - i] \in (-Wide) .. Wide
        BY <3>1 DEF WideElement
      <4>2. a[i] * b[k - i] \in (-W) .. W
        BY <1>1, <4>1, ProductWithin
      <4> QED BY <3>1, <4>2 DEF Term
    <3>2. CASE k - i \notin 1 .. Limbs
      <4>1. t(i) = 0
        BY <3>2 DEF Term
      <4> HIDE DEF t, W
      <4> QED BY <1>1, <4>1
    <3> QED BY <3>1, <3>2
  <2> QED BY <2>1
<1>3. product(a, b)[k] = sum[Limbs]
  BY DEF product, Term
<1> HIDE DEF t, W
<1>4. \A i \in 1 .. Limbs : t(i) \in Int
  BY <1>1, <1>2
<1>5. \E f : Sums(f)
  <2> DEFINE Numbers == Int
  <2>1. step \in [1 .. Limbs -> [Numbers -> Numbers]] /\ 0 \in Numbers
    BY <1>4
  <2> HIDE DEF step, Numbers
  <2>2. PICK f \in [0 .. Limbs -> Numbers] : Stepwise(f, Limbs, 0, step)
    BY <1>1, <2>1, StepwiseExists
  <2>3. ASSUME NEW i \in 1 .. Limbs PROVE step[i][f[i - 1]] = f[i - 1] + t(i)
    <3>1. f[i - 1] \in Int
      BY <1>1 DEF Numbers
    <3> QED BY <3>1 DEF step
  <2>4. \A i \in 0 .. Limbs : f[i] = IF i = 0 THEN 0 ELSE f[i - 1] + t(i)
    BY <1>1, <2>2, <2>3 DEF Stepwise
  <2> QED BY <2>2, <2>4
<1>6. Sums(sum)
  BY <1>5
<1> HIDE DEF sum
<1>7. sum[0] = 0
  BY <1>1, <1>6
<1>8. \A i \in 1 .. Limbs : sum[i] = sum[i - 1] + t(i)
  BY <1>1, <1>6
<1>9. \A i \in 0 .. Limbs : i \in T
  <2>1. 0 \in T
    BY <1>1, <1>7
  <2>2. ASSUME NEW i \in 1 .. Limbs, i - 1 \in T PROVE i \in T
    <3>1. i - 1 \in Nat /\ (i - 1) * W \in Nat /\ i * W = (i - 1) * W + W
      <4>1. i - 1 \in Nat
        OBVIOUS
      <4>2. (i - 1) * W \in Nat
        BY <1>1, <4>1, ProductOfNats
      <4> QED BY <1>1, <4>1, <4>2
    <3>2. PICK m \in Nat : m = (i - 1) * W
      BY <3>1
    <3>3. sum[i - 1] \in (-m) .. m
      BY <2>2, <3>2
    <3>4. sum[i] \in (-(m + W)) .. (m + W)
      BY <1>1, <1>2, <1>8, <3>2, <3>3
    <3> QED BY <3>1, <3>2, <3>4
  <2>3. \A i \in (0 + 1) .. Limbs : i - 1 \in T => i \in T
    BY <2>2
  <2> HIDE DEF T
  <2> QED BY <1>1, <2>1, <2>3, Reached
<1>10. sum[Limbs] \in (-(Limbs * W)) .. (Limbs * W)
  BY <1>1, <1>9
<1> QED
  BY <1>3, <1>10 DEF Total, W

\* The carries of an element exist; what carry25519 does with them.
CarriesOf(elem, c) ==
    /\ c \in [0 .. Limbs -> Int] /\ c[0] = 0
    /\ \A i \in 1 .. Limbs : c[i] = (elem[i] + c[i - 1]) \div Radix
CarriedLimb(elem, c, i) ==
    ((elem[i] + c[i - 1]) % Radix) + (IF i = 1 THEN 2 * Prime19 * c[Limbs] ELSE 0)

LEMMA CarryFacts ==
    ASSUME NEW elem \in [1 .. Limbs -> Int]
    PROVE  \E c : /\ CarriesOf(elem, c)
                  /\ carry25519(elem) = [i \in 1 .. Limbs |-> CarriedLimb(elem, c, i)]
                  /\ carry25519(elem) \in [1 .. Limbs -> Int]
<1> DEFINE Carries(f) == f = [i \in 0 .. Limbs |-> IF i = 0 THEN 0 ELSE (elem[i] + f[i - 1]) \div Radix]
           carry == CHOOSE f : Carries(f)
           step == [i \in 1 .. Limbs |-> [n \in Int |-> (elem[i] + n) \div Radix]]
<1>1. Limbs \in Nat /\ Radix \in Nat /\ Radix > 1 /\ Prime19 \in Nat
  BY Sizes
<1>2. carry25519(elem) = Elem([i \in 1 .. Limbs |-> CarriedLimb(elem, carry, i)])
  BY DEF carry25519, CarriedLimb
<1>3. \E f : Carries(f) /\ CarriesOf(elem, f)
  <2> DEFINE Numbers == Int
  <2>1. step \in [1 .. Limbs -> [Numbers -> Numbers]] /\ 0 \in Numbers
    BY <1>1
  <2> HIDE DEF step, Numbers
  <2>2. PICK f \in [0 .. Limbs -> Numbers] : Stepwise(f, Limbs, 0, step)
    BY <1>1, <2>1, StepwiseExists
  <2>3. ASSUME NEW i \in 1 .. Limbs PROVE step[i][f[i - 1]] = (elem[i] + f[i - 1]) \div Radix
    <3>1. f[i - 1] \in Int
      BY <1>1 DEF Numbers
    <3> QED BY <3>1 DEF step
  <2>4. \A i \in 0 .. Limbs : f[i] = IF i = 0 THEN 0 ELSE (elem[i] + f[i - 1]) \div Radix
    BY <1>1, <2>2, <2>3 DEF Stepwise
  <2>5. Carries(f)
    BY <2>2, <2>4
  <2>6. CarriesOf(elem, f)
    BY <1>1, <2>2, <2>3 DEF CarriesOf, Stepwise, Numbers
  <2> QED BY <2>5, <2>6
<1>4. Carries(carry)
  BY <1>3
<1> HIDE DEF carry
<1>5. CarriesOf(elem, carry)
  <2>1. PICK f : Carries(f) /\ CarriesOf(elem, f)
    BY <1>3
  <2>2. \A i \in 0 .. Limbs : carry[i] = f[i]
    <3> DEFINE T == {i \in 0 .. Limbs : carry[i] = f[i]}
    <3>1. 0 \in T
      BY <1>1, <1>4, <2>1
    <3>2. ASSUME NEW i \in 1 .. Limbs, i - 1 \in T PROVE i \in T
      BY <1>1, <1>4, <2>1, <3>2
    <3>3. \A i \in (0 + 1) .. Limbs : i - 1 \in T => i \in T
      BY <3>2
    <3> HIDE DEF T
    <3>4. \A i \in 0 .. Limbs : i \in T
      BY <1>1, <3>1, <3>3, Reached
    <3> QED BY <3>4 DEF T
  <2>3. carry = f
    BY <1>4, <2>1, <2>2
  <2> QED BY <2>1, <2>3
<1>6. [i \in 1 .. Limbs |-> CarriedLimb(elem, carry, i)] \in [1 .. Limbs -> Int]
  <2>1. ASSUME NEW i \in 1 .. Limbs PROVE CarriedLimb(elem, carry, i) \in Int
    <3>1. elem[i] \in Int /\ carry[i - 1] \in Int /\ carry[Limbs] \in Int
      BY <1>1, <1>5 DEF CarriesOf
    <3>2. (elem[i] + carry[i - 1]) % Radix \in Int /\ 2 * Prime19 * carry[Limbs] \in Int
      BY <1>1, <3>1
    <3> QED BY <3>2 DEF CarriedLimb
  <2> QED BY <2>1
<1>7. carry25519(elem) = [i \in 1 .. Limbs |-> CarriedLimb(elem, carry, i)]
  BY <1>1, <1>2, <1>6, ElemFact
<1> QED
  BY <1>5, <1>6, <1>7

-----------------------------------------------------------------------------
(* Products are carried twice.                                              *)

LEMMA ScaledWithin ==
    ASSUME NEW m \in Nat, NEW X \in Nat, NEW n \in (-X) .. X
    PROVE  m * n \in (-(m * X)) .. (m * X)
<1>1. X - n \in Nat /\ X + n \in Nat
  OBVIOUS
<1>2. m * (X - n) \in Nat /\ m * (X + n) \in Nat
  BY <1>1, ProductOfNats
<1>3. m * (X - n) = m * X - m * n /\ m * (X + n) = m * X + m * n
  OBVIOUS
<1>4. PICK x, y \in Int : x = m * X /\ y = m * n
  OBVIOUS
<1>5. y \in (-x) .. x
  BY <1>2, <1>3, <1>4
<1> QED
  BY <1>4, <1>5

\* What the limbs of a product are made of, before they are carried: with the sizes of the
\* code they stay below 2^44.
RawLimb(a, b, i) == product(a, b)[i + 1] + 2 * Prime19 * product(a, b)[i + 1 + Limbs]
RawBound == Total + 2 * (Prime19 * Total)

LEMMA RawFacts ==
    ASSUME Room, NEW a \in WideElement, NEW b \in WideElement, NEW i \in 1 .. Limbs
    PROVE  RawLimb(a, b, i) \in (-RawBound) .. RawBound
<1>1. Total \in Nat /\ Prime19 * Total \in Nat /\ Limbs \in Nat /\ Prime19 \in Nat
  BY Sizes, TotalFacts
<1>2. i + 1 \in 2 .. (2 * Limbs + 1) /\ i + 1 + Limbs \in 2 .. (2 * Limbs + 1)
  BY <1>1
<1>3. PICK p \in (-Total) .. Total : p = product(a, b)[i + 1]
  BY <1>2, ColumnSums
<1>4. PICK q \in (-Total) .. Total : q = product(a, b)[i + 1 + Limbs]
  BY <1>2, ColumnSums
<1>5. Prime19 * q \in (-(Prime19 * Total)) .. (Prime19 * Total)
  BY <1>1, ScaledWithin
<1>6. PICK r \in Int : r = Prime19 * q
  BY <1>5
<1>7. 2 * Prime19 * q = 2 * r
  BY <1>1, <1>6
<1>8. RawLimb(a, b, i) = p + 2 * r
  BY <1>3, <1>4, <1>7 DEF RawLimb
<1>9. PICK pt \in Nat : pt = Prime19 * Total
  BY <1>1
<1>10. p + 2 * r \in (-(Total + 2 * pt)) .. (Total + 2 * pt)
  BY <1>1, <1>5, <1>6, <1>9
<1> QED
  BY <1>8, <1>9, <1>10 DEF RawBound

\* After the first carry, all limbs but the lowest are small.
OnceCarried(e) ==
    /\ e \in [1 .. Limbs -> Int]
    /\ \A i \in 2 .. Limbs : e[i] \in 0 .. (Radix - 1)
    /\ e[1] \in (-(2 * (Prime19 * Square))) .. (2 * (Prime19 * Square) + (Radix - 1))

LEMMA FirstCarry ==
    ASSUME Room, NEW elem \in [1 .. Limbs -> Int],
           \A i \in 1 .. Limbs : elem[i] \in (-RawBound) .. RawBound
    PROVE  OnceCarried(carry25519(elem))
<1>1. /\ Limbs \in Nat /\ Limbs > 1 /\ Radix \in Nat \ {0} /\ Prime19 \in Nat /\ Square \in Nat
      /\ Total \in Nat /\ Prime19 * Total \in Nat /\ Square * Radix \in Nat
      /\ 2 * RawBound <= Square * Radix /\ 2 * Square <= Square * Radix
  BY Sizes, TotalFacts DEF RawBound
<1>2. PICK c : /\ CarriesOf(elem, c)
               /\ carry25519(elem) = [i \in 1 .. Limbs |-> CarriedLimb(elem, c, i)]
               /\ carry25519(elem) \in [1 .. Limbs -> Int]
  BY CarryFacts
<1> DEFINE T == {i \in 0 .. Limbs : c[i] \in (-Square) .. Square}
<1>3. PICK sr \in Nat : sr = Square * Radix
  BY <1>1
<1>4. RawBound \in Nat
  <2>1. PICK pt \in Nat : pt = Prime19 * Total
    BY <1>1
  <2> QED BY <1>1, <2>1 DEF RawBound
<1>5. ASSUME NEW i \in 1 .. Limbs, c[i - 1] \in (-Square) .. Square
      PROVE  /\ c[i] \in (-Square) .. Square
             /\ (elem[i] + c[i - 1]) % Radix \in 0 .. (Radix - 1)
  <2>1. PICK n \in Int : n = elem[i] + c[i - 1]
    BY <1>5, <1>1
  <2>2. elem[i] \in (-RawBound) .. RawBound
    OBVIOUS
  <2>3. -sr <= n /\ n < sr + Radix
    <3>1. PICK e \in Int, d \in Int : e = elem[i] /\ d = c[i - 1]
      BY <1>5, <1>1
    <3>2. 2 * RawBound <= sr /\ 2 * Square <= sr
      BY <1>1, <1>3
    <3>3. n = e + d /\ -RawBound <= e /\ e <= RawBound /\ -Square <= d /\ d <= Square
      BY <1>1, <1>4, <1>5, <2>1, <2>2, <3>1
    <3> QED BY <1>1, <1>4, <3>2, <3>3
  <2>4. n \div Radix \in (-Square) .. Square /\ n % Radix \in 0 .. (Radix - 1)
    BY <1>1, <1>3, <2>3, QuotientWithin
  <2> QED BY <1>2, <2>1, <2>4 DEF CarriesOf
<1>6. \A i \in 0 .. Limbs : i \in T
  <2>1. 0 \in T
    <3>1. c[0] = 0 /\ 0 \in 0 .. Limbs /\ 0 \in (-Square) .. Square
      BY <1>1, <1>2 DEF CarriesOf
    <3> QED BY <3>1
  <2>2. \A i \in (0 + 1) .. Limbs : i - 1 \in T => i \in T
    BY <1>5
  <2> HIDE DEF T
  <2> QED BY <1>1, <2>1, <2>2, Reached
<1>7. \A i \in 1 .. Limbs : (elem[i] + c[i - 1]) % Radix \in 0 .. (Radix - 1)
  <2>1. \A i \in 1 .. Limbs : i - 1 \in 0 .. Limbs
    BY <1>1
  <2> QED BY <1>5, <1>6, <2>1
<1>8. \A i \in 2 .. Limbs : carry25519(elem)[i] \in 0 .. (Radix - 1)
  <2>1. ASSUME NEW i \in 2 .. Limbs PROVE carry25519(elem)[i] \in 0 .. (Radix - 1)
    <3>1. i \in 1 .. Limbs /\ i # 1
      BY <1>1
    <3>2. carry25519(elem)[i] = ((elem[i] + c[i - 1]) % Radix) + 0
      BY <1>2, <3>1 DEF CarriedLimb
    <3> QED BY <1>1, <1>7, <3>1, <3>2
  <2> QED BY <2>1
<1>9. carry25519(elem)[1] \in (-(2 * (Prime19 * Square))) .. (2 * (Prime19 * Square) + (Radix - 1))
  <2>1. 1 \in 1 .. Limbs /\ Limbs \in 0 .. Limbs
    BY <1>1
  <2>2. carry25519(elem)[1] = ((elem[1] + c[1 - 1]) % Radix) + 2 * Prime19 * c[Limbs]
    BY <1>2, <2>1 DEF CarriedLimb
  <2>3. PICK u \in 0 .. (Radix - 1) : u = (elem[1] + c[1 - 1]) % Radix
    BY <1>7, <2>1
  <2>4. PICK v \in (-Square) .. Square : v = c[Limbs]
    BY <1>6, <2>1
  <2>5. Prime19 * v \in (-(Prime19 * Square)) .. (Prime19 * Square)
    BY <1>1, ScaledWithin
  <2>6. PICK m \in Int : m = Prime19 * v
    BY <2>5
  <2>7. 2 * Prime19 * v = 2 * m
    BY <1>1, <2>6
  <2>8. PICK ps \in Nat : ps = Prime19 * Square
    BY <1>1, ProductOfNats
  <2>9. u + 2 * m \in (-(2 * ps)) .. (2 * ps + (Radix - 1))
    BY <1>1, <2>5, <2>6, <2>8
  <2> QED BY <2>2, <2>3, <2>4, <2>7, <2>8, <2>9
<1> QED
  BY <1>2, <1>8, <1>9 DEF OnceCarried

\* The second carry leaves limbs that are small.
LEMMA SecondCarry ==
    ASSUME Room, NEW elem, OnceCarried(elem)
    PROVE  carry25519(elem) \in Element
<1>1. /\ Limbs \in Nat /\ Limbs > 2 /\ Radix \in Nat \ {0} /\ Radix > 1 /\ Prime19 \in Nat
      /\ 4 * Prime19 <= Radix /\ Prime19 * Radix \in Nat /\ Prime19 > 0
  BY Sizes, WideFacts, ProductOfNats DEF Room
<1>2. elem \in [1 .. Limbs -> Int]
  BY DEF OnceCarried
<1>3. PICK c : /\ CarriesOf(elem, c)
               /\ carry25519(elem) = [i \in 1 .. Limbs |-> CarriedLimb(elem, c, i)]
               /\ carry25519(elem) \in [1 .. Limbs -> Int]
  BY <1>2, CarryFacts
<1>4. PICK pr \in Nat : pr = Prime19 * Radix
  BY <1>1
<1>5. c[1] \in (-(2 * pr)) .. (2 * pr) /\ (elem[1] + c[1 - 1]) % Radix \in 0 .. (Radix - 1)
  <2>1. Prime19 * Square = pr * Radix
    BY <1>1, <1>4 DEF Square
  <2>2. 2 * (Prime19 * Square) = (2 * pr) * Radix
    BY <1>1, <1>4, <2>1
  <2>3. PICK n \in Int : n = elem[1] + c[1 - 1]
    BY <1>1, <1>2, <1>3 DEF CarriesOf
  <2>4. n = elem[1]
    BY <1>1, <1>2, <1>3, <2>3 DEF CarriesOf
  <2>5. -((2 * pr) * Radix) <= n /\ n < (2 * pr) * Radix + Radix
    <3>1. PICK x \in Int : x = 2 * (Prime19 * Square)
      BY <1>1, <1>4, <2>2
    <3>2. n \in (-x) .. (x + (Radix - 1))
      BY <2>4, <3>1 DEF OnceCarried
    <3>3. -x <= n /\ n < x + Radix
      BY <1>1, <3>2
    <3> QED BY <2>2, <3>1, <3>3
  <2>6. 2 * pr \in Nat
    BY <1>4
  <2>7. n \div Radix \in (-(2 * pr)) .. (2 * pr) /\ n % Radix \in 0 .. (Radix - 1)
    BY <1>1, <2>5, <2>6, QuotientWithin
  <2>8. c[1] = (elem[1] + c[1 - 1]) \div Radix
    BY <1>1, <1>3 DEF CarriesOf
  <2> QED BY <2>3, <2>7, <2>8
<1>6. c[2] \in (-(2 * Prime19)) .. (2 * Prime19) /\ (elem[2] + c[2 - 1]) % Radix \in 0 .. (Radix - 1)
  <2>1. elem[2] \in 0 .. (Radix - 1) /\ 2 \in 1 .. Limbs
    BY <1>1 DEF OnceCarried
  <2>2. PICK n \in Int : n = elem[2] + c[2 - 1]
    BY <1>1, <1>5, <2>1
  <2>3. (2 * Prime19) * Radix = 2 * pr
    BY <1>1, <1>4
  <2>4. -(2 * pr) <= n /\ n < 2 * pr + Radix
    BY <1>1, <1>4, <1>5, <2>1, <2>2
  <2>5. 2 * Prime19 \in Nat
    BY <1>1
  <2>6. n \div Radix \in (-(2 * Prime19)) .. (2 * Prime19) /\ n % Radix \in 0 .. (Radix - 1)
    BY <1>1, <2>3, <2>4, <2>5, QuotientWithin
  <2> QED BY <1>3, <2>1, <2>2, <2>6 DEF CarriesOf
<1>7. ASSUME NEW i \in 3 .. Limbs, c[i - 1] \in (-Radix) .. Radix
      PROVE  c[i] \in (-1) .. 1 /\ (elem[i] + c[i - 1]) % Radix \in 0 .. (Radix - 1)
  <2>1. elem[i] \in 0 .. (Radix - 1) /\ i \in 1 .. Limbs
    BY <1>1 DEF OnceCarried
  <2>2. PICK n \in Int : n = elem[i] + c[i - 1]
    BY <1>1, <1>7, <2>1
  <2>3. -(1 * Radix) <= n /\ n < 1 * Radix + Radix
    BY <1>1, <1>7, <2>1, <2>2
  <2>4. n \div Radix \in (-1) .. 1 /\ n % Radix \in 0 .. (Radix - 1)
    BY <1>1, <2>3, QuotientWithin
  <2> QED BY <1>3, <2>1, <2>2, <2>4 DEF CarriesOf
<1> DEFINE T == {i \in 2 .. Limbs : c[i] \in (-Radix) .. Radix}
<1>8. \A i \in 2 .. Limbs : i \in T
  <2>1. 2 \in T
    BY <1>1, <1>6
  <2>2. ASSUME NEW i \in 3 .. Limbs, i - 1 \in T PROVE i \in T
    <3>1. c[i] \in (-1) .. 1
      BY <1>7, <2>2
    <3> QED BY <1>1, <3>1
  <2>3. \A i \in (2 + 1) .. Limbs : i - 1 \in T => i \in T
    BY <2>2
  <2> HIDE DEF T
  <2> QED BY <1>1, <2>1, <2>3, Reached
<1>9. \A i \in 3 .. Limbs : c[i - 1] \in (-Radix) .. Radix
  <2>1. \A i \in 3 .. Limbs : i - 1 \in 2 .. Limbs
    BY <1>1
  <2> QED BY <1>8, <2>1
<1>10. \A i \in 1 .. Limbs : (elem[i] + c[i - 1]) % Radix \in 0 .. (Radix - 1)
  <2>1. ASSUME NEW i \in 1 .. Limbs PROVE i = 1 \/ i = 2 \/ i \in 3 .. Limbs
    BY <1>1
  <2> QED BY <1>5, <1>6, <1>7, <1>9, <2>1
<1>11. c[Limbs] \in (-1) .. 1
  BY <1>1, <1>7, <1>9
<1>12. \A i \in 1 .. Limbs : CarriedLimb(elem, c, i) \in Limb
  <2>1. ASSUME NEW i \in 1 .. Limbs PROVE CarriedLimb(elem, c, i) \in Limb
    <3>1. PICK u \in 0 .. (Radix - 1) : u = (elem[i] + c[i - 1]) % Radix
      BY <1>10
    <3>2. CASE i = 1
      <4>1. CarriedLimb(elem, c, i) = u + 2 * Prime19 * c[Limbs]
        BY <3>1, <3>2 DEF CarriedLimb
      <4>2. 2 * Prime19 * c[Limbs] \in {-2 * Prime19, 0, 2 * Prime19}
        BY <1>1, <1>11
      <4> QED BY <1>1, <4>1, <4>2 DEF Limb
    <3>3. CASE i # 1
      <4>1. CarriedLimb(elem, c, i) = u
        BY <1>1, <3>1, <3>3 DEF CarriedLimb
      <4> QED BY <1>1, <4>1 DEF Limb
    <3> QED BY <3>2, <3>3
  <2> QED BY <2>1
<1> QED
  BY <1>3, <1>12 DEF Element

\* A product of two elements that are not too wide has small limbs.
LEMMA FmulFacts ==
    ASSUME Room, NEW a \in WideElement, NEW b \in WideElement
    PROVE  fmul(a, b) \in Element
<1> DEFINE raw == [i \in 1 .. Limbs |-> RawLimb(a, b, i)]
<1>1. RawBound \in Nat /\ Limbs \in Nat
  <2>1. PICK pt \in Nat : pt = Prime19 * Total
    BY TotalFacts
  <2> QED BY <2>1, Sizes, TotalFacts DEF RawBound
<1>2. \A i \in 1 .. Limbs : RawLimb(a, b, i) \in (-RawBound) .. RawBound
  BY RawFacts
<1>3. raw \in [1 .. Limbs -> Int] /\ \A i \in 1 .. Limbs : raw[i] \in (-RawBound) .. RawBound
  BY <1>1, <1>2
<1>4. fmul(a, b) = carry25519(carry25519(Elem(raw)))
  BY DEF fmul, RawLimb
<1> HIDE DEF raw
<1>5. Elem(raw) = raw
  BY <1>1, <1>3, ElemFact
<1>6. OnceCarried(carry25519(raw))
  BY <1>3, FirstCarry
<1>7. carry25519(carry25519(raw)) \in Element
  BY <1>6, SecondCarry
<1> QED
  BY <1>4, <1>5, <1>7

-----------------------------------------------------------------------------
(* The other operations on elements.                                        *)

LEMMA ElementIsWide ==
    ASSUME Room, NEW e \in Element
    PROVE  e \in WideElement /\ e \in [1 .. Limbs -> Int]
<1>1. \A n \in Limb : n \in (-Wide) .. Wide /\ n \in Int
  BY Sizes, WideFacts DEF Limb, Wide
<1> QED
  BY <1>1 DEF Element, WideElement

\* Sums and differences are not reduced; fmul takes them.
LEMMA FaddFsubFacts ==
    ASSUME Room, NEW a \in Element, NEW b \in Element
    PROVE  fadd(a, b) \in WideElement /\ fsub(a, b) \in WideElement
<1> DEFINE s == [i \in 1 .. Limbs |-> a[i] + b[i]]
           d == [i \in 1 .. Limbs |-> a[i] - b[i]]
<1>1. \A m, n \in Limb : m + n \in (-Wide) .. Wide /\ m - n \in (-Wide) .. Wide
  BY Sizes, WideFacts DEF Limb, Wide
<1>2. \A i \in 1 .. Limbs : a[i] \in Limb /\ b[i] \in Limb
  BY DEF Element
<1>3. s \in WideElement /\ d \in WideElement
  BY <1>1, <1>2 DEF WideElement
<1>4. fadd(a, b) = Elem(s) /\ fsub(a, b) = Elem(d)
  BY DEF fadd, fsub
<1> HIDE DEF s, d
<1>5. Elem(s) = s /\ Elem(d) = d
  BY <1>3, Sizes, ElemFact DEF WideElement
<1> QED
  BY <1>3, <1>4, <1>5

LEMMA UnpackFacts ==
    ASSUME NEW key \in Encoding
    PROVE  unpack25519(key) \in Element
<1> DEFINE n(i) == key[2 * i - 1] + key[2 * i] * ByteMod
           f == [i \in 1 .. Limbs |-> IF i = Limbs THEN n(i) % (Radix \div 2) ELSE n(i)]
<1>1. ASSUME NEW i \in 1 .. Limbs PROVE n(i) \in 0 .. (Radix - 1)
  <2>1. 2 * i - 1 \in 1 .. (2 * Limbs) /\ 2 * i \in 1 .. (2 * Limbs)
    BY Sizes
  <2>2. PICK lo, hi \in 0 .. (ByteMod - 1) : lo = key[2 * i - 1] /\ hi = key[2 * i]
    BY <2>1 DEF Encoding
  <2>3. hi * ByteMod \in Nat /\ hi * ByteMod <= (ByteMod - 1) * ByteMod
    BY Sizes, Monotonic
  <2>4. (ByteMod - 1) * ByteMod = Radix - ByteMod
    BY Sizes DEF Radix
  <2>5. PICK m \in Nat : m = hi * ByteMod
    BY <2>3
  <2>6. lo + m \in 0 .. (Radix - 1)
    BY <2>3, <2>4, <2>5, Sizes
  <2> QED BY <2>2, <2>5, <2>6
<1>2. \A m \in 0 .. (Radix - 1) : m \in Limb /\ m % (Radix \div 2) \in Limb
  <2>1. Radix \div 2 \in Nat /\ Radix \div 2 > 0 /\ Radix \div 2 <= Radix
    BY Sizes
  <2>2. \A m \in 0 .. (Radix - 1) : m % (Radix \div 2) \in 0 .. (Radix - 1)
    BY <2>1, Sizes
  <2> QED BY <2>2, Sizes DEF Limb
<1>3. unpack25519(key) = Elem(f)
  BY DEF unpack25519
<1> HIDE DEF n
<1>4. f \in Element
  BY <1>1, <1>2 DEF Element
<1> HIDE DEF f
<1> QED
  BY <1>3, <1>4, Sizes, ElemFact DEF Element

LEMMA ConstFacts == Const(0) \in Element /\ Const(1) \in Element
<1>1. ASSUME NEW n \in {0, 1} PROVE Const(n) \in Element
  <2> DEFINE f == [i \in 1 .. Limbs |-> IF i = 1 THEN n ELSE 0]
  <2>1. 0 \in Limb /\ 1 \in Limb
    BY Sizes DEF Limb
  <2>2. f \in Element
    BY <2>1 DEF Element
  <2>3. Const(n) = Elem(f)
    BY DEF Const
  <2> HIDE DEF f
  <2> QED BY <2>2, <2>3, Sizes, ElemFact DEF Element
<1> QED
  BY <1>1

LEMMA CurveConstant == C121665 \in Element
<1>1. \A n \in 0 .. (Radix - 1) : n \in Limb
  BY Sizes DEF Limb
<1> QED
  BY <1>1, X25519Assumption DEF Element

-----------------------------------------------------------------------------
(* Packing.                                                                 *)

\* What remains of limb i when n is what remained of the one below.
Borrow(t, i, n) ==
    IF i = 1 THEN t[1] - (Radix - Prime19)
    ELSE t[i] - (IF i = Limbs THEN Radix \div 2 - 1 ELSE Radix - 1) - ((n \div Radix) % 2)

\* The recursion over the limbs is defined, whatever they are.
LEMMA ReducedFacts ==
    ASSUME NEW t \in [1 .. Limbs -> Int]
    PROVE  reduced(t) \in [1 .. Limbs -> Int]
<1> DEFINE Less(f) == f = [i \in 1 .. Limbs |->
                              IF i = 1 THEN t[1] - (Radix - Prime19)
                              ELSE t[i] - (IF i = Limbs THEN Radix \div 2 - 1 ELSE Radix - 1)
                                        - ((f[i - 1] \div Radix) % 2)]
           m == CHOOSE f : Less(f)
           low == [i \in 1 .. Limbs |-> IF i = Limbs THEN m[i] ELSE m[i] % Radix]
           step == [i \in 1 .. Limbs |-> [n \in Int |-> Borrow(t, i, n)]]
<1>1. Limbs \in Nat /\ Limbs > 1 /\ Radix \in Nat /\ Radix > 1 /\ Prime19 \in Nat
  BY Sizes
<1>2. ASSUME NEW i \in 1 .. Limbs, NEW n \in Int PROVE Borrow(t, i, n) \in Int
  <2>1. (n \div Radix) % 2 \in Int /\ Radix \div 2 \in Int /\ t[i] \in Int /\ t[1] \in Int
    BY <1>1
  <2> QED BY <1>1, <2>1 DEF Borrow
<1>3. \E f \in [1 .. Limbs -> Int] : Less(f)
  <2> DEFINE Numbers == Int
  <2>1. step \in [1 .. Limbs -> [Numbers -> Numbers]] /\ 0 \in Numbers
    BY <1>2
  <2> HIDE DEF step, Numbers
  <2>2. PICK g \in [0 .. Limbs -> Numbers] : Stepwise(g, Limbs, 0, step)
    BY <1>1, <2>1, StepwiseExists
  <2> DEFINE f == [i \in 1 .. Limbs |-> g[i]]
  <2>3. ASSUME NEW i \in 1 .. Limbs PROVE g[i - 1] \in Int /\ g[i] \in Int /\ g[i] = Borrow(t, i, g[i - 1])
    <3>1. g[i - 1] \in Int /\ g[i] \in Int
      BY <1>1, <2>2 DEF Numbers
    <3>2. g[i] = step[i][g[i - 1]]
      BY <2>2 DEF Stepwise
    <3> QED BY <3>1, <3>2 DEF step
  <2>4. f \in [1 .. Limbs -> Int]
    BY <2>3
  <2>5. \A i \in 1 .. Limbs : i # 1 => i - 1 \in 1 .. Limbs
    BY <1>1
  <2>6. \A i \in 1 .. Limbs : f[i] = IF i = 1 THEN t[1] - (Radix - Prime19)
                              ELSE t[i] - (IF i = Limbs THEN Radix \div 2 - 1 ELSE Radix - 1)
                                        - ((f[i - 1] \div Radix) % 2)
    BY <2>3, <2>5 DEF Borrow
  <2>7. Less(f)
    BY <2>4, <2>6
  <2> HIDE DEF f, Less
  <2> QED BY <2>4, <2>7
<1>4. Less(m)
  BY <1>3
<1>5. reduced(t) = t \/ reduced(t) = Elem(low)
  BY DEF reduced
<1> HIDE DEF m
<1>6. \A i \in 1 .. Limbs : m[i] \in Int
  <2> DEFINE T == {i \in 1 .. Limbs : m[i] \in Int}
  <2>1. ASSUME NEW i \in 1 .. Limbs PROVE m[i] = Borrow(t, i, m[i - 1])
    BY <1>4 DEF Borrow
  <2>2. 1 \in T
    <3>1. 1 \in 1 .. Limbs
      BY <1>1
    <3>2. m[1] = t[1] - (Radix - Prime19)
      BY <2>1, <3>1 DEF Borrow
    <3> QED BY <1>1, <3>1, <3>2
  <2>3. ASSUME NEW i \in (1 + 1) .. Limbs, i - 1 \in T PROVE i \in T
    <3>1. i \in 1 .. Limbs
      BY <1>1
    <3> QED BY <1>2, <2>1, <2>3, <3>1
  <2> HIDE DEF T
  <2>4. \A i \in 1 .. Limbs : i \in T
    BY <1>1, <2>2, <2>3, Reached
  <2> QED BY <2>4 DEF T
<1>7. low \in [1 .. Limbs -> Int]
  <2>1. \A n \in Int : n % Radix \in Int
    BY <1>1
  <2> QED BY <1>6, <2>1
<1> HIDE DEF low
<1> QED
  BY <1>1, <1>5, <1>7, ElemFact

LEMMA PackFacts ==
    ASSUME NEW e \in [1 .. Limbs -> Int]
    PROVE  pack25519(e) \in Encoding
<1> DEFINE t == reduced(reduced(carry25519(carry25519(carry25519(e)))))
           limb(k) == t[(k + 1) \div 2]
           f == [k \in 1 .. (2 * Limbs) |->
                   (IF k % 2 = 1 THEN limb(k) ELSE limb(k) \div ByteMod) % ByteMod]
<1>1. \A x \in [1 .. Limbs -> Int] : carry25519(x) \in [1 .. Limbs -> Int]
  BY CarryFacts
<1>2. t \in [1 .. Limbs -> Int]
  BY <1>1, ReducedFacts
<1>3. pack25519(e) = Elem(f)
  BY DEF pack25519
<1> HIDE DEF t
<1>4. f \in Encoding
  <2>1. ASSUME NEW k \in 1 .. (2 * Limbs) PROVE f[k] \in 0 .. (ByteMod - 1)
    <3>1. (k + 1) \div 2 \in 1 .. Limbs
      BY Sizes
    <3>2. limb(k) \in Int
      BY <1>2, <3>1
    <3>3. \A n \in Int : n % ByteMod \in 0 .. (ByteMod - 1) /\ n \div ByteMod \in Int
      BY Sizes
    <3> HIDE DEF limb
    <3> QED BY <3>2, <3>3
  <2> HIDE DEF limb
  <2> QED BY <2>1 DEF Encoding
<1>5. 2 * Limbs \in Nat
  BY Sizes
<1> HIDE DEF f
<1> QED
  BY <1>3, <1>4, <1>5, ElemFact DEF Encoding

-----------------------------------------------------------------------------
(* scalarmult.                                                              *)

\* A call of scalarmult, and a key, once it is there.
Call == [phase : {"ladder", "finverse"}, into : {"public", "shared"}, i : Int,
         x : Element, a : Element, b : Element, c : Element, d : Element]
Key == Encoding \cup {<<>>}

X25519Inv ==
    /\ run \in [Party -> Call \cup {Idle}]
    /\ public \in [Party -> Key]
    /\ shared \in [Party -> Key]

LEMMA StartFacts ==
    ASSUME NEW point \in Encoding, NEW into \in {"public", "shared"}
    PROVE  Start(point, into) \in Call
<1>1. LastBit \in Int
  <2>1. ByteBits \in Nat /\ Limbs \in Nat
    BY X25519Assumption
  <2>2. 2 * ByteBits * Limbs \in Int
    BY <2>1
  <2> QED BY <2>2 DEF LastBit
<1> QED
  BY <1>1, UnpackFacts, ConstFacts DEF Start, Call

LEMMA SwapFacts ==
    ASSUME NEW r \in Call, NEW n
    PROVE  swap25519(r, n) \in Call
  BY DEF swap25519, Call

\* Each product of a rung has factors that are elements, or sums or differences of two.
LEMMA RungFacts ==
    ASSUME Room, NEW r \in Call
    PROVE  Rung(r) \in Call
<1>1. \A p, q \in WideElement : fmul(p, q) \in Element
  BY FmulFacts
<1>2. \A p, q \in Element : fadd(p, q) \in WideElement /\ fsub(p, q) \in WideElement
  BY FaddFsubFacts
<1>3. \A e \in Element : e \in WideElement
  BY ElementIsWide
<1> DEFINE e == fadd(r.a, r.c)       a == fsub(r.a, r.c)
           c == fadd(r.b, r.d)       b == fsub(r.b, r.d)
           dd == fmul(e, e)          f == fmul(a, a)
           ca == fmul(c, a)          be == fmul(b, e)
           z == fsub(dd, f)
           diff == fsub(ca, be)      sum == fadd(ca, be)
<1>4. r.a \in Element /\ r.b \in Element /\ r.c \in Element /\ r.d \in Element /\ r.x \in Element
  BY DEF Call
<1>5. e \in WideElement /\ a \in WideElement /\ c \in WideElement /\ b \in WideElement
  BY <1>2, <1>4
<1>6. Rung(r) = [r EXCEPT !.a = fmul(dd, f), !.b = fmul(sum, sum),
                         !.c = fmul(z, fadd(fmul(z, C121665), dd)),
                         !.d = fmul(fmul(diff, diff), r.x)]
  BY DEF Rung
<1> HIDE DEF e, a, c, b
<1>7. dd \in Element /\ f \in Element /\ ca \in Element /\ be \in Element
  BY <1>1, <1>5
<1> HIDE DEF dd, f, ca, be
<1>8. z \in WideElement /\ diff \in WideElement /\ sum \in WideElement
  BY <1>2, <1>7
<1> HIDE DEF z, diff, sum
<1>9. fmul(dd, f) \in Element /\ fmul(sum, sum) \in Element
  BY <1>1, <1>3, <1>7, <1>8
<1>10. fmul(z, C121665) \in Element
  BY <1>1, <1>3, <1>8, CurveConstant
<1>11. fmul(z, fadd(fmul(z, C121665), dd)) \in Element
  BY <1>1, <1>2, <1>7, <1>8, <1>10
<1>12. fmul(fmul(diff, diff), r.x) \in Element
  BY <1>1, <1>3, <1>4, <1>8
<1>13. \A p, q, s, u \in Element : [r EXCEPT !.a = p, !.b = q, !.c = s, !.d = u] \in Call
  BY DEF Call
<1>14. PICK p, q, s, u \in Element :
          /\ p = fmul(dd, f) /\ q = fmul(sum, sum)
          /\ s = fmul(z, fadd(fmul(z, C121665), dd)) /\ u = fmul(fmul(diff, diff), r.x)
  BY <1>9, <1>11, <1>12
<1>15. Rung(r) = [r EXCEPT !.a = p, !.b = q, !.c = s, !.d = u]
  BY <1>6, <1>14
<1>16. [r EXCEPT !.a = p, !.b = q, !.c = s, !.d = u] \in Call
  BY ONLY <1>13, <1>14, Zenon
<1> QED
  BY ONLY <1>15, <1>16, Zenon

LEMMA InitX25519 == X25519Init => X25519Inv
  BY DEF X25519Init, X25519Inv, Key

LEMMA ContinueInv ==
    ASSUME X25519Inv, NEW p \in Party, NEW r \in Call \cup {Idle}, Continue(p, r)
    PROVE  X25519Inv'
<1>1. run' \in [Party -> Call \cup {Idle}]
  BY DEF Continue, X25519Inv
<1> QED
  BY <1>1 DEF Continue, X25519Inv

LEMMA BusyFacts ==
    ASSUME X25519Inv, NEW p \in Party, NEW phase \in {"ladder", "finverse"}, Busy(p, phase)
    PROVE  run[p] \in Call
  BY DEF X25519Inv, Busy, Idle

LEMMA ScalarmultBaseInv ==
    ASSUME X25519Inv, NEW p \in Party, scalarmult_base(p)
    PROVE  X25519Inv'
<1>1. Start(Base9, "public") \in Call
  BY StartFacts, X25519Assumption
<1> QED
  BY <1>1, ContinueInv DEF scalarmult_base

LEMMA ScalarmultInv ==
    ASSUME X25519Inv, NEW p \in Party, NEW q \in Party, scalarmult(p, q)
    PROVE  X25519Inv'
<1>1. public[q] \in Encoding
  BY DEF scalarmult, X25519Inv, Key
<1>2. Start(public[q], "shared") \in Call
  BY <1>1, StartFacts
<1> QED
  BY <1>2, ContinueInv DEF scalarmult

LEMMA LadderInv ==
    ASSUME Room, X25519Inv, NEW p \in Party, Ladder(p)
    PROVE  X25519Inv'
<1> DEFINE n == bit(secret[p], run[p].i)
           s == swap25519(Rung(swap25519(run[p], n)), n)
<1>1. run[p] \in Call
  BY BusyFacts DEF Ladder
<1>2. s \in Call
  BY <1>1, SwapFacts, RungFacts
<1>3. Continue(p, [s EXCEPT !.i = run[p].i - 1])
  BY DEF Ladder
<1> HIDE DEF s
<1>4. run[p].i - 1 \in Int
  BY <1>1 DEF Call
<1>5. [s EXCEPT !.i = run[p].i - 1] \in Call
  BY <1>2, <1>4 DEF Call
<1> QED
  BY <1>3, <1>5, ContinueInv

LEMMA FinverseInv ==
    ASSUME Room, X25519Inv, NEW p \in Party, finverse(p)
    PROVE  X25519Inv'
<1> DEFINE r == run[p]
           c == fmul(r.d, r.d)
           d == IF r.i \in {2, 4} THEN c ELSE fmul(c, r.c)
<1>1. r \in Call
  BY BusyFacts DEF finverse
<1>2. /\ r.i \in Int /\ r.i - 1 \in Int /\ r.c \in Element /\ r.d \in Element
      /\ r.c \in WideElement /\ r.d \in WideElement
  BY <1>1, ElementIsWide DEF Call
<1>3. LastBit - 1 \in Int
  <2>1. ByteBits \in Nat /\ Limbs \in Nat
    BY X25519Assumption
  <2>2. 2 * ByteBits * Limbs \in Int
    BY <2>1
  <2> QED BY <2>2 DEF LastBit
<1>4. CASE Continue(p, [r EXCEPT !.phase = "finverse", !.i = LastBit - 1, !.d = r.c])
  <2>1. [r EXCEPT !.phase = "finverse", !.i = LastBit - 1, !.d = r.c] \in Call
    BY <1>1, <1>2, <1>3 DEF Call
  <2> QED BY <1>4, <2>1, ContinueInv
<1>5. CASE Continue(p, [r EXCEPT !.i = r.i - 1, !.d = d])
  <2>1. c \in Element /\ c \in WideElement
    BY <1>2, FmulFacts, ElementIsWide
  <2>2. d \in Element
    BY <1>2, <2>1, FmulFacts
  <2> HIDE DEF d
  <2>3. [r EXCEPT !.i = r.i - 1, !.d = d] \in Call
    BY <1>1, <1>2, <2>2 DEF Call
  <2> QED BY <1>5, <2>3, ContinueInv
<1> QED
  BY <1>4, <1>5 DEF finverse

LEMMA FinishInv ==
    ASSUME Room, X25519Inv, NEW p \in Party, Finish(p)
    PROVE  X25519Inv'
<1> DEFINE packed == pack25519(fmul(run[p].a, run[p].d))
<1>1. run[p] \in Call
  BY BusyFacts DEF Finish
<1>2. run[p].a \in WideElement /\ run[p].d \in WideElement
  BY <1>1, ElementIsWide DEF Call
<1>3. packed \in Encoding
  BY <1>2, FmulFacts, ElementIsWide, PackFacts
<1>4. /\ public' = (IF run[p].into = "public" THEN [public EXCEPT ![p] = packed] ELSE public)
      /\ shared' = (IF run[p].into = "shared" THEN [shared EXCEPT ![p] = packed] ELSE shared)
      /\ run' = [run EXCEPT ![p] = Idle]
  BY DEF Finish
<1> HIDE DEF packed
<1>5. run' \in [Party -> Call \cup {Idle}]
  BY <1>4 DEF X25519Inv
<1>6. public' \in [Party -> Key] /\ shared' \in [Party -> Key]
  BY <1>3, <1>4 DEF X25519Inv, Key
<1> QED
  BY <1>5, <1>6 DEF X25519Inv

LEMMA StepX25519 ==
    ASSUME Room
    PROVE  X25519Inv /\ [X25519Next]_x25519Vars => X25519Inv'
<1> SUFFICES ASSUME X25519Inv, [X25519Next]_x25519Vars PROVE X25519Inv'
  OBVIOUS
<1>1. CASE UNCHANGED x25519Vars
  BY <1>1 DEF x25519Vars, X25519Inv
<1>2. ASSUME NEW p \in Party, scalarmult_base(p) PROVE X25519Inv'
  BY <1>2, ScalarmultBaseInv
<1>3. ASSUME NEW p \in Party, Ladder(p) PROVE X25519Inv'
  BY <1>3, LadderInv
<1>4. ASSUME NEW p \in Party, finverse(p) PROVE X25519Inv'
  BY <1>4, FinverseInv
<1>5. ASSUME NEW p \in Party, Finish(p) PROVE X25519Inv'
  BY <1>5, FinishInv
<1>6. ASSUME NEW p \in Party, NEW q \in Party \ {p}, scalarmult(p, q) PROVE X25519Inv'
  BY <1>6, ScalarmultInv
<1> QED
  BY <1>1, <1>2, <1>3, <1>4, <1>5, <1>6 DEF X25519Next

LEMMA InvSmall == X25519Inv => LimbsStaySmall
<1> SUFFICES ASSUME X25519Inv, NEW p \in Party, ~Busy(p, "idle"),
                    NEW e \in {run[p].a, run[p].b, run[p].c, run[p].d}, NEW i \in 1 .. Limbs
             PROVE  e[i] \in Limb
  BY DEF LimbsStaySmall, Limb
<1>1. run[p] \in Call
  BY DEF X25519Inv, Busy, Idle
<1>2. e \in Element
  BY <1>1 DEF Call
<1> QED
  BY <1>2 DEF Element

\* Whatever calls the parties make and key whatever order their steps interleave, the
\* elements of a run have small limbs, and keys are tuples of bytes.
THEOREM X25519Invariance ==
    ASSUME Room
    PROVE  X25519Spec => []X25519Inv
<1>1. X25519Inv /\ [X25519Next]_x25519Vars => X25519Inv'
  BY StepX25519
<1> QED
  BY <1>1, InitX25519, PTL DEF X25519Spec

\* The products of fmul never leave the range of their type: for any number of limbs
\* that are wide enough, those of the code among them, any prime and any secrets, the
\* limbs of a, b, c and d stay within a few units of 0 .. Radix.
THEOREM LimbsAreSmall ==
    ASSUME Room
    PROVE  X25519Spec => []LimbsStaySmall
  BY X25519Invariance, InvSmall, PTL
==============================================================================

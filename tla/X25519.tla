------------------------------- MODULE X25519 -------------------------------
(***************************************************************************)
(* psi::tools::crypt::x25519: two parties derive public keys from their    *)
(* secrets and a shared one from each other's.  A field element is a tuple *)
(* of signed limbs, an encoding two bytes for each limb.  A run of         *)
(* scalarmult takes a step for each bit of the ladder and the inversion.   *)
(***************************************************************************)
EXTENDS Integers, Sequences

CONSTANTS
    Party,
    Secrets,     \* the secrets a party may have
    ByteBits,    \* bits of a byte: 8
    Limbs,       \* limbs of a field element: 16
    Prime19,     \* 2^(bits of all limbs - 1) minus the prime: 19
    C121665,     \* _121665, the constant of the curve
    Base9        \* _9, the base point, encoded

ByteMod == 2 ^ ByteBits
Radix == ByteMod * ByteMod
LastBit == 2 * ByteBits * Limbs - 2   \* 254
Prime == 2 ^ (LastBit + 1) - Prime19
Encoding == [1 .. (2 * Limbs) -> 0 .. (ByteMod - 1)]

ASSUME X25519Assumption ==
    /\ {ByteBits, Limbs, Prime19} \subseteq Nat \ {0}
    /\ ByteMod \in Nat /\ ByteMod > 1   \* A power of two.
    /\ Limbs > 1 /\ Prime19 < Radix
    /\ Secrets \cup {Base9} \subseteq Encoding
    /\ C121665 \in [1 .. Limbs -> 0 .. (Radix - 1)]

VARIABLES
    secret,   \* a party's scalar
    public,   \* its public key, once it is there
    shared,   \* what it derived from the other's public key
    run       \* its call of scalarmult: what it is doing, and the elements

x25519Vars == <<secret, public, shared, run>>

-----------------------------------------------------------------------------
(* Field elements.                                                          *)

Elem(f) == f \o <<>>
Const(n) == Elem([i \in 1 .. Limbs |-> IF i = 1 THEN n ELSE 0])

unpack25519(in) ==
    Elem([i \in 1 .. Limbs |->
             LET n == in[2 * i - 1] + in[2 * i] * ByteMod
             IN  IF i = Limbs THEN n % (Radix \div 2) ELSE n])

\* Mutant: what is carried out of the last limb comes back once, not 38 times.
carryOnce(elem) ==
    LET carry[i \in 0 .. Limbs] == IF i = 0 THEN 0 ELSE (elem[i] + carry[i - 1]) \div Radix
    IN  Elem([i \in 1 .. Limbs |->
                 ((elem[i] + carry[i - 1]) % Radix) + (IF i = 1 THEN carry[Limbs] ELSE 0)])

carry25519(elem) ==
    LET carry[i \in 0 .. Limbs] == IF i = 0 THEN 0 ELSE (elem[i] + carry[i - 1]) \div Radix
    IN  Elem([i \in 1 .. Limbs |->
                 ((elem[i] + carry[i - 1]) % Radix)
                     + (IF i = 1 THEN 2 * Prime19 * carry[Limbs] ELSE 0)])

fadd(a, b) == Elem([i \in 1 .. Limbs |-> a[i] + b[i]])
fsub(a, b) == Elem([i \in 1 .. Limbs |-> a[i] - b[i]])

product(a, b) ==
    [k \in 2 .. (2 * Limbs + 1) |->
        LET sum[i \in 0 .. Limbs] ==
              IF i = 0 THEN 0
              ELSE sum[i - 1] + (IF k - i \in 1 .. Limbs THEN a[i] * b[k - i] ELSE 0)
        IN  sum[Limbs]]

\* Mutant: the result is carried once.
fmulCarriedOnce(a, b) ==
    carry25519(Elem([i \in 1 .. Limbs |->
        product(a, b)[i + 1] + 2 * Prime19 * product(a, b)[i + 1 + Limbs]]))

\* product[15] has no limb above it to add.
fmul(a, b) ==
    LET p == product(a, b)
    IN  carry25519(carry25519(Elem([i \in 1 .. Limbs |->
            p[i + 1] + 2 * Prime19 * p[i + 1 + Limbs]])))

\* Mutant: the prime is not subtracted.
unreduced(t) == t

\* t minus the prime, borrowed limb by limb, unless that is negative.
reduced(t) ==
    LET m[i \in 1 .. Limbs] ==
          IF i = 1 THEN t[1] - (Radix - Prime19)
          ELSE t[i] - (IF i = Limbs THEN Radix \div 2 - 1 ELSE Radix - 1)
                    - ((m[i - 1] \div Radix) % 2)
        carry == (m[Limbs] \div Radix) % 2
    IN  IF carry = 1 THEN t
        ELSE Elem([i \in 1 .. Limbs |-> IF i = Limbs THEN m[i] ELSE m[i] % Radix])

pack25519(in) ==
    LET t == reduced(reduced(carry25519(carry25519(carry25519(in)))))
    IN  Elem([k \in 1 .. (2 * Limbs) |->
                 LET limb == t[(k + 1) \div 2]
                 IN  (IF k % 2 = 1 THEN limb ELSE limb \div ByteMod) % ByteMod])

-----------------------------------------------------------------------------
(* scalarmult.                                                              *)

\* The low three bits of the scalar cleared, the highest bit but one set.
clamped(scalar) ==
    [scalar EXCEPT ![1] = (@ \div 8) * 8,
                   ![2 * Limbs] = (@ % 2 ^ (ByteBits - 2)) + 2 ^ (ByteBits - 2)]
bit(scalar, i) == (clamped(scalar)[(i \div ByteBits) + 1] \div 2 ^ (i % ByteBits)) % 2

Start(point, into) ==
    LET x == unpack25519(point)
    IN  [phase |-> "ladder", into |-> into, i |-> LastBit, x |-> x,
         a |-> Const(1), b |-> x, c |-> Const(0), d |-> Const(1)]

\* Mutant: only the numerators are exchanged.
swapNumerators(r, n) == IF n = 1 THEN [r EXCEPT !.a = r.b, !.b = r.a] ELSE r

swap25519(r, n) == IF n = 1 THEN [r EXCEPT !.a = r.b, !.b = r.a, !.c = r.d, !.d = r.c] ELSE r

\* One bit of the scalar: of two neighbours, the one is doubled and the other
\* becomes their sum.
Rung(r) ==
    LET e == fadd(r.a, r.c)       a == fsub(r.a, r.c)
        c == fadd(r.b, r.d)       b == fsub(r.b, r.d)
        dd == fmul(e, e)          f == fmul(a, a)
        ca == fmul(c, a)          be == fmul(b, e)
        z == fsub(dd, f)
        diff == fsub(ca, be)      sum == fadd(ca, be)
    IN  [r EXCEPT !.a = fmul(dd, f), !.b = fmul(sum, sum),
                  !.c = fmul(z, fadd(fmul(z, C121665), dd)),
                  !.d = fmul(fmul(diff, diff), r.x)]

Idle == [phase |-> "idle"]

X25519Init ==
    /\ secret \in [Party -> Secrets]
    /\ public = [p \in Party |-> <<>>] /\ shared = [p \in Party |-> <<>>]
    /\ run = [p \in Party |-> Idle]

Busy(p, phase) == run[p].phase = phase
Continue(p, r) == /\ run' = [run EXCEPT ![p] = r]
                  /\ UNCHANGED <<secret, public, shared>>

scalarmult_base(p) ==
    /\ Busy(p, "idle") /\ public[p] = <<>>
    /\ Continue(p, Start(Base9, "public"))

scalarmult(p, q) ==
    /\ Busy(p, "idle") /\ shared[p] = <<>> /\ public[q] # <<>>
    /\ Continue(p, Start(public[q], "shared"))

Ladder(p) ==
    LET r == run[p]   n == bit(secret[p], r.i)
    IN  /\ Busy(p, "ladder") /\ r.i >= 0
        /\ Continue(p, [swap25519(Rung(swap25519(r, n)), n) EXCEPT !.i = r.i - 1])

\* c is raised to the power of the prime less two.
finverse(p) ==
    LET r == run[p]
    IN  \/ /\ Busy(p, "ladder") /\ r.i < 0
           /\ Continue(p, [r EXCEPT !.phase = "finverse", !.i = LastBit - 1, !.d = r.c])
        \/ /\ Busy(p, "finverse") /\ r.i >= 0
           /\ LET c == fmul(r.d, r.d)
              IN  Continue(p, [r EXCEPT !.i = r.i - 1,
                                        !.d = IF r.i \in {2, 4} THEN c ELSE fmul(c, r.c)])

Finish(p) ==
    LET r == run[p]   out == pack25519(fmul(r.a, r.d))
    IN  /\ Busy(p, "finverse") /\ r.i < 0
        /\ public' = IF r.into = "public" THEN [public EXCEPT ![p] = out] ELSE public
        /\ shared' = IF r.into = "shared" THEN [shared EXCEPT ![p] = out] ELSE shared
        /\ run' = [run EXCEPT ![p] = Idle]
        /\ UNCHANGED secret

X25519Next ==
    \E p \in Party :
        \/ scalarmult_base(p) \/ Ladder(p) \/ finverse(p) \/ Finish(p)
        \/ \E q \in Party \ {p} : scalarmult(p, q)

X25519Spec == X25519Init /\ [][X25519Next]_x25519Vars

-----------------------------------------------------------------------------
(* Properties.                                                              *)

Val(n) == n % Prime
Residue(elem) ==
    LET sum[i \in 0 .. Limbs] == IF i = 0 THEN 0 ELSE sum[i - 1] + elem[i] * Radix ^ (i - 1)
    IN  Val(sum[Limbs])
Coefficient == Val(4 * Residue(C121665) + 2)
Curve == INSTANCE Montgomery
Mul(m, n) == Curve!Mul(m, n)
Int25519(bytes) ==
    LET sum[k \in 0 .. (2 * Limbs)] ==
          IF k = 0 THEN 0 ELSE sum[k - 1] + bytes[k] * 2 ^ (ByteBits * (k - 1))
    IN  sum[2 * Limbs]

\* However many steps a run has done, its limbs are so small that neither the sum
\* of the products of fmul nor a multiple of it leaves the range of its type.
LimbsStaySmall ==
    \A p \in Party : ~Busy(p, "idle") =>
        \A e \in {run[p].a, run[p].b, run[p].c, run[p].d}, i \in 1 .. Limbs :
            e[i] \in (-2 * Prime19) .. (Radix + 2 * Prime19)

\* At each bit, a/c and b/d are the x of two points that differ by the given one:
\* the three satisfy the equation of three points of the curve on a line.
NeighboursDiffer ==
    \A p \in Party : Busy(p, "ladder") =>
        LET r == run[p]
            a == Residue(r.a)   b == Residue(r.b)   c == Residue(r.c)   d == Residue(r.d)
            x == Residue(r.x)
            crossed == Val(Mul(a, d) + Mul(b, c))
            e2 == Val(Mul(a, b) + Mul(x, crossed) - Mul(c, d))
            e1 == Val(crossed + Mul(x + Coefficient, Mul(c, d)))
        IN  Mul(e2, e2) = Mul(4, Mul(x, Mul(Mul(a, b), e1)))

\* A key is the one encoding, below the prime, of the multiple of the given point
\* that the clamped scalar names.
KeysAreMultiples ==
    [][\A p \in Party : Finish(p) =>
          LET key == IF run[p].into = "public" THEN public'[p] ELSE shared'[p]
          IN  Int25519(key) =
                  Curve!Multiple(Int25519(clamped(secret[p])), Residue(run[p].x))]_x25519Vars

\* Whatever their secrets, and in whatever order they compute, the two parties
\* end up with the same key.
SharedKeysAgree ==
    \A p, q \in Party : shared[p] # <<>> /\ shared[q] # <<>> => shared[p] = shared[q]
=============================================================================

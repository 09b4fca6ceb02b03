----------------------------- MODULE Montgomery -----------------------------
(***************************************************************************)
(* The reference for X25519: the group of a Montgomery curve, points with  *)
(* both coordinates, added by the chord and tangent law.                   *)
(***************************************************************************)
EXTENDS Integers, Sequences

CONSTANTS Prime, Coefficient

Mod(n) == n % Prime
Mul(m, n) == Mod(m * n)
Over(m, n) ==
    LET power[e \in Nat, base \in Nat, acc \in Nat] ==
          IF e = 0 THEN acc
          ELSE power[e \div 2, Mul(base, base), IF e % 2 = 1 THEN Mul(base, acc) ELSE acc]
    IN  power[Prime - 2, Mod(n), Mod(m)]

\* The points of B * y^2 = x^3 + Coefficient * x^2 + x, and the chord and tangent law.
\* With the right B, any x other than 0 is that of a point with y = 1.
Infinity == <<>>

Plus(B, P, Q) ==
    LET slope == IF P = Q
                 THEN Over(3 * Mul(P[1], P[1]) + 2 * Mul(Coefficient, P[1]) + 1, 2 * Mul(B, P[2]))
                 ELSE Over(Q[2] - P[2], Q[1] - P[1])
        x == Mod(Mul(B, Mul(slope, slope)) - Coefficient - P[1] - Q[1])
    IN  IF P = Infinity THEN Q ELSE IF Q = Infinity THEN P
        ELSE IF P[1] = Q[1] /\ Mod(P[2] + Q[2]) = 0 THEN Infinity
        ELSE <<x, Mod(Mul(slope, P[1] - x) - P[2])>>

\* The x of n times the point; 0 for the point at infinity.
Multiple(n, x) ==
    LET B == Mod(Mul(Mul(x, x), x + Coefficient) + x)
        step[m \in Nat, P \in Seq(Nat), sum \in Seq(Nat)] ==
          IF m = 0 THEN sum
          ELSE step[m \div 2, Plus(B, P, P), IF m % 2 = 1 THEN Plus(B, P, sum) ELSE sum]
        result == step[n, <<x, 1>>, Infinity]
    IN  IF result = Infinity THEN 0 ELSE result[1]
=============================================================================

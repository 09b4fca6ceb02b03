---------------------------- MODULE MCBigInteger ----------------------------
(* Words of one digit to base 3; a value with a word in its middle has three. *)
EXTENDS BigInteger, TLC

CONSTANTS x, y

MCVars == {x, y}
MCVectors == {<<>>, <<0, 0>>, <<1, 0>>} \cup [1 .. 3 -> {0, 2}]

Symmetry == Permutations(MCVars)
=============================================================================

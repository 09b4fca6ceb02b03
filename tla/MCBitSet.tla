------------------------------ MODULE MCBitSet ------------------------------
(* Bytes of two bits, words of two bytes: 9 bits need three words, of which   *)
(* the last holds one bit.                                                    *)
EXTENDS BitSet, TLC

CONSTANTS x, y, z, p, q

MCVars == {x, y, z}
MCIds == {p, q}
MCSizes == {0, 4, 9}
MCStreams == {<<{}, {}>>, <<{0}, {1}, {0, 1}>>, <<{0}, {1}, {0}, {1}>>}
MCStrings == {<<"1", "0", "1">>,
              <<"1", "other", "1", "1", "1">>,
              <<"1", "0", "0", "1", "0", "1", "other">>}

Symmetry == Permutations(MCVars) \cup Permutations(MCIds)
=============================================================================

------------------------------- MODULE MCSha -------------------------------
(* Blocks of 8 bytes, hashes of 4 and a length of 1: the proportions of     *)
(* SHA-256.  The hash of a block is a sum that depends on every byte and    *)
(* its place.                                                               *)
EXTENDS Sha, FiniteSetsExt

Weighted(s, k) == MapThenSumSet(LAMBDA j : s[j] * (3 * j * j + 7 * j * k + k), DOMAIN s)
MCCompress(hash, block) ==
    LET byte(k) == (Weighted(hash, k) + Weighted(block, k + DigestLen)) % 251
    IN  <<byte(1), byte(2), byte(3), byte(4)>>
MCH == [k \in 1 .. DigestLen |-> 10 * k]
MCIPad == [b \in Byte |-> (b + 54) % 256]
MCOPad == [b \in Byte |-> (b + 92) % 256]

MCKeys == {<<7, 0, 9, 1>>, <<1, 2, 3, 4, 5, 6, 7, 8, 9>>}
ShortInfos == {<<>>, <<200>>, <<1, 2, 3>>}
AllInfos == ShortInfos \cup {<<1, 2>>}
=============================================================================

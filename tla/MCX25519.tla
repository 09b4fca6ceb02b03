----------------------------- MODULE MCX25519 -----------------------------
(* Bytes of four bits and two limbs: the prime 2^15 - 19.  The curve             *)
(* y^2 = x^3 + 1630 x^2 + x has 8 * 4129 points, its twist 4 * 8117.            *)
EXTENDS X25519

MCSecrets == {<<0, 0, 0, 0>>, <<15, 15, 15, 15>>, <<13, 2, 9, 6>>, <<1, 12, 3, 8>>, <<8, 0, 7, 1>>}
MC121665 == <<151, 1>>
MC9 == <<9, 0, 0, 0>>
=============================================================================

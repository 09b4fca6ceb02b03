------------------------------ MODULE XorBytes ------------------------------
(* Bytes and their exclusive or, by a table for half bytes.                   *)
EXTENDS Integers

Uint8 == 0 .. 255

XorHalves ==
    [a \in 0 .. 15 |-> [b \in 0 .. 15 |->
        LET bit(n) == ((a \div 2 ^ n) + (b \div 2 ^ n)) % 2
        IN  bit(0) + 2 * bit(1) + 4 * bit(2) + 8 * bit(3)]]

Xor(a, b) == 16 * XorHalves[a \div 16][b \div 16] + XorHalves[a % 16][b % 16]
=============================================================================

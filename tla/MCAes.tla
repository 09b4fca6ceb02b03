------------------------------- MODULE MCAes -------------------------------
(* Data of no, one and more blocks, with and without an incomplete one.       *)
EXTENDS Aes

Count(n) == [k \in 1 .. n |-> k - 1]
Step(n, a, b) == [k \in 1 .. n |-> (a * k + b) % 256]
Plain == [k \in 1 .. 16 |-> 17 * (k - 1)]

Fips(nk) == [Nk |-> nk, key |-> Count(4 * nk), data |-> Plain]
Other(nk, keyLen, dataLen) ==
    [Nk |-> nk, key |-> Step(keyLen, 91, 7), data |-> Step(dataLen, 53, 200)]

MCJobs == {Fips(4), Fips(8)}
          \cup {Other(4, 16, n) : n \in {0, 1, 15, 17, 35}}
          \cup {Other(8, 32, n) : n \in {15, 33}}
          \cup {Other(4, 15, 3), Other(8, 16, 16)}

MCExamples ==
    {[job |-> Fips(4), cipher |-> <<105, 196, 224, 216, 106, 123, 4, 48, 216, 205, 183, 128, 112, 180, 197, 90>>],
     [job |-> Fips(8), cipher |-> <<142, 162, 183, 202, 81, 103, 69, 191, 234, 252, 73, 144, 75, 73, 96, 137>>]}
=============================================================================

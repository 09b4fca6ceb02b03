--------------------------- MODULE MCByteBuffer ---------------------------
(* Two buffers and a temporary of at most two bytes, size_t modulo 5, one-bit hex digits.    *)
EXTENDS ByteBuffer, TLC

MCInputs == {<<1>>, <<0, 1>>}
MCHexInputs == {<<0>>, <<0, 1>>}
\* The last call's result is no input of any step: states that differ only in
\* it are explored once.
CallFree == <<live, obj, allocated, heap>>
Symmetry == Permutations(Addr)
=============================================================================

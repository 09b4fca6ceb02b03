---------------------------- MODULE MCByteRelay ----------------------------
(* Two buffers of at most three bytes; 2 is the line delimiter.             *)
EXTENDS ByteRelay

MCInputs == {<<1>>, <<2>>, <<1, 2>>}
=============================================================================

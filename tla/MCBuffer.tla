------------------------------ MODULE MCBuffer ------------------------------
(* Blocks for Buffer: short ones, and one that overflows into extrabuf.    *)
EXTENDS BufferCalls, TLC

CONSTANTS a, b

MCBytes == {a, b}
MCBlocks == {<<a>>, <<a, b>>, <<b, a, a>>}
=============================================================================

--------------------------- MODULE MCMemoryManager ---------------------------
(* A small heap for TLC. *)
EXTENDS MemoryManager

\* 0 gives an empty block, 3 is longer than a header.
MCRequestSizes == 0 .. 3
=============================================================================

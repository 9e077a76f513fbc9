------------------------------ MODULE MCConsole ------------------------------
(* A small screen for TLC. *)
EXTENDS Console

\* A character or a new line.
MCTexts == {<<"char">>, <<"nl">>}

\* One character.
MCHandlerTexts == {<<"char">>}

\* In bytes of three bits: as far left as an int8_t goes, the longest movement
\* to the right that is safe on two columns, and one that overflows.
MCOffsets == {-4, 2, 3}
=============================================================================

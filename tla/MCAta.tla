-------------------------------- MODULE MCAta --------------------------------
(* A small instance of AdvancedTechnologyAttachment. *)
EXTENDS AdvancedTechnologyAttachment

\* Two numbers with one low byte and another, and a third.
MCNumbers == {<<0, 0, 0, 0>>, <<0, 0, 0, 1>>, <<1, 1, 1, 0>>}

\* Less than none, and an odd number of more than there are.
MCReadCounts == {-1, 5}
=============================================================================

------------------------------ MODULE MCRxPath ------------------------------
(* A small ring, a terminal with two options, and two window sizes, one with a byte of 255. *)
EXTENDS RxPath
TwoSizes == {<<"w", "w", "w", "w">>, <<"w", "IAC", "w", "w">>}
============================================================================

------------------------------- MODULE RxFifo -------------------------------
(***************************************************************************)
(* What the RX ring of a port promises to the application: a bounded queue *)
(* that loses nothing, reorders nothing, and is emptied only as a whole,   *)
(* with at most one result text of the modem left in it.                   *)
(***************************************************************************)
EXTENDS Naturals, Sequences, SequencesExt

CONSTANTS Capacity, Text

VARIABLE q

Init == q = <<>>

Grow   == IsPrefix(q, q') /\ Len(q') <= Capacity
Shrink == IsSuffix(q', q)
Clear  == q' \in {<<>>, <<Text>>}

Spec == Init /\ [][Grow \/ Shrink \/ Clear]_q
============================================================================

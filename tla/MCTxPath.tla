------------------------------ MODULE MCTxPath ------------------------------
(* Two COM ports that share the buffer: a busy line and a quiet one. *)
EXTENDS TxPath
BusyAndQuiet == [p \in Ports |-> IF p = 0 THEN 2 ELSE 1]
OneEach == [p \in Ports |-> 1]
============================================================================

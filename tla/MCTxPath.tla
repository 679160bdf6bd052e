------------------------------ MODULE MCTxPath ------------------------------
(* Instances of TxPath for TLC: two hardware queues, the second one also    *)
(* carries the management frames.                                           *)
EXTENDS TxPath

CONSTANTS be, vo

OneAC == {vo}
TwoAC == {be, vo}
Credit1 == [a \in AC |-> 1]
Credit2 == [a \in AC |-> 2]
=============================================================================

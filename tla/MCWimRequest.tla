---------------------------- MODULE MCWimRequest ----------------------------
(* Instances of WimRequest for TLC.                                         *)
EXTENDS WimRequest

CONSTANTS c1, c2, tsf, shell

UsesBoth == [c \in Caller |-> IF c = c1 THEN {tsf} ELSE {tsf, shell}]
=============================================================================

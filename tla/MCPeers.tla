------------------------------ MODULE MCPeers -------------------------------
(* An access point that aggregates or watches idle stations: the two meet   *)
(* only in the state of the station, so their product is left out.          *)
EXTENDS Peers

OneOfTwo == {<<"auto", 0>>, <<"manual", 0>>, <<"disable", 0>>, <<"disable", 1>>, <<"disable", 2>>}
SomePhases == {0, 500}
=============================================================================

----------------------------- MODULE MCTwtSched -----------------------------
(* Instances of TwtSched for TLC.  The scheduled interval is 2; requests    *)
(* ask for it in either form, and for 14, seven times as much, which is cut *)
(* to 8 (a power of two), or to 4 when the idle period is 5.                *)
EXTENDS TwtSched, TLC

CONSTANTS s1, s2, ap1, ap2

Own(n) == [len |-> n, form |-> "own"]
Other(n) == [len |-> n, form |-> "other"]
Odd == {Own(2), Other(14)}
IdlesShort == {0, 5}
StaSym == Permutations(Sta)
=============================================================================

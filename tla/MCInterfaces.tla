---------------------------- MODULE MCInterfaces ----------------------------
(* Instances of Interfaces for TLC: an element for beacons, of the remote     *)
(* commands, and one for probe requests, which is backed up.                  *)
EXTENDS Interfaces

CONSTANTS announce6, remotecmd

AllElems == {announce6, remotecmd}

\* Two openings and: two monitors and both kinds of restart; an element and both
\* kinds of restart; an element, a monitor and a restart of either kind.
Budget(monitors, crashes, resets, sets) ==
    [opens |-> 2, monitors |-> monitors, crashes |-> crashes, resets |-> resets, sets |-> sets]
SomeBudgets == {Budget(2, 1, 1, 0), Budget(0, 1, 1, 1), Budget(1, 1, 0, 1), Budget(1, 0, 1, 1)}
=============================================================================

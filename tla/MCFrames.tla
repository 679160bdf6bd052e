------------------------------ MODULE MCFrames ------------------------------
EXTENDS Frames

CONSTANTS p1, p2, g1, g2, b1    \* pairwise, group and signing keys; p2 is of an unknown cipher

MCKind(k) == CASE k \in {p1, p2} -> "pair" [] k \in {g1, g2} -> "group" [] OTHER -> "mgmt"
MCKnown(k) == k # p2

=============================================================================

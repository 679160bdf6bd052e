SPECIFICATION Spec
CONSTANTS
    p1 = p1
    p2 = p2
    g1 = g1
    g2 = g2
    b1 = b1
    Keys = {p1, p2, g1, g2, b1}
    Kind <- MCKind
    Known <- MCKnown
    None = None
    Mod = 12
    Buf = 2
    MaxIrq = 2
    Secured = 1
INVARIANTS CryptOnce DropsBounded OnlyAfterAway
CHECK_DEADLOCK FALSE

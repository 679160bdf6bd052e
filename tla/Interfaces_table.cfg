SPECIFICATION FairSpec
CONSTANTS
    announce6 = announce6
    remotecmd = remotecmd
    Elems <- AllElems
    InBeacon = {remotecmd}
    Remote = remotecmd
    Vifs = {v1, v2}
    First = v1
    Monitor = mon
    NoVif = none
    Stas = 1
    Retries = 1
    Budgets <- SomeBudgets
INVARIANTS OwnIndex TargetKnows TwtOfAp
PROPERTIES RestartEnds
CHECK_DEADLOCK FALSE

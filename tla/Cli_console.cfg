SPECIFICATION Spec
CONSTANTS
    c1 = c1
    a1 = a1
    None = None
    Clients <- MCClients
    Agents <- MCAgents
    Threads <- MCThreads
    Typable <- MCTypable
    Sendable <- MCSendable
    IdleMode = TRUE
    MaxFaults = 1
    NTry = 2
    StatsTry = 2
    SysTry = 1
    MaxPages = 1
    Budget <- MCBudget
INVARIANTS NeverStuck OkMeansRun
PROPERTIES StopSilences CliEnds
CHECK_DEADLOCK FALSE

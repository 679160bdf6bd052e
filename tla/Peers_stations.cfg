SPECIFICATION FairSpec
CONSTANTS
  Stas = {s1}
  Zero = {}
  Clients = {s1}
  MaxTries = 2
  MaxFault = 2
  Phases <- SomePhases
  MaxLost = 2
  Offset = 0
  Twt = FALSE
  Settings <- OneOfTwo
  MaxSet = 1
INVARIANTS InStep
PROPERTIES Recovers KeptAlive GoneInTheEnd
CHECK_DEADLOCK FALSE

SPECIFICATION Spec
CONSTANTS
  s1 = s1
  s2 = s2
  ap1 = ap1
  ap2 = ap2
  None = None
  Sta = {s1, s2}
  Vif = {ap1,ap2}
  NumEntries = 2
  MaxGroup = 2
  Algos = {"BALANCED", "FCFS"}
  Interval = 2
  Requests <- Odd
  Idles <- IdlesShort
  MaxSetup = 4
  MaxFail = 1
  MaxRestart = 1
SYMMETRY StaSym
INVARIANTS
  Counted
  GroupCapSafe
  RoomIsFound
  Agreements
  WorkerSafe
  DictateSettles
CHECK_DEADLOCK FALSE

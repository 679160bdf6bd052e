SPECIFICATION FairSpec
CONSTANTS
  be = be
  vo = vo
  NoSkb = NoSkb
  AC <- OneAC
  MgmtAC = vo
  CreditMax <- Credit2
  MaxUnits = 1
  SlotCap = 1
  CtrMod = 3
  CtrStart = 2
  SlotMod = 3
  Kinds = {"data", "deauth", "wim"}
  MaxSkb = 3
  MaxFault = 0
PROPERTIES
  ImplementsChannel Drains
CHECK_DEADLOCK FALSE

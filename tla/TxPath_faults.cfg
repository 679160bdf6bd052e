SPECIFICATION Spec
CONSTANTS
  be = be
  vo = vo
  NoSkb = NoSkb
  AC <- TwoAC
  MgmtAC = vo
  CreditMax <- Credit1
  MaxUnits = 2
  SlotCap = 2
  CtrMod = 8
  CtrStart = 0
  SlotMod = 16
  Kinds = {"data", "wim"}
  MaxSkb = 2
  MaxFault = 1
INVARIANTS
  PendAccounted
  SlotsConserved
CHECK_DEADLOCK FALSE

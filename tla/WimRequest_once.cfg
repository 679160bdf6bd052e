SPECIFICATION FairSpec
CONSTANTS
  c1 = c1
  c2 = c2
  tsf = tsf
  shell = shell
  NoResp = NoResp
  Free = Free
  Caller = {c1, c2}
  Cmd = {tsf, shell}
  Uses <- UsesBoth
  Returning = {c2}
  Notified = {tsf}
  MaxReq = 4
  MaxLate = 1
  MaxLost = 1
INVARIANTS
  OneOwner
  WokenByOwn
PROPERTIES
  Returns
CHECK_DEADLOCK FALSE

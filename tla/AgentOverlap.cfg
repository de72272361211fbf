SPECIFICATION Spec
CONSTANTS
  r1 = r1
  r2 = r2
  r3 = r3
  Req = {r1, r2, r3}
  NoReq = NoReq
  Config = {}
  StoreBlocks = TRUE
  PushCap = 0
  MaxInFlight = 3
  ProcStates = {"input_required"}
  MaxLog = 3
  Kinds <- OverlapKinds
INVARIANTS LiveRunIsRegistered
CHECK_DEADLOCK FALSE

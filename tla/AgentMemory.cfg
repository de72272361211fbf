SPECIFICATION Spec
CONSTANTS
  r1 = r1
  r2 = r2
  r3 = r3
  Req = {r1, r2}
  NoReq = NoReq
  Config = {c1}
  StoreBlocks = FALSE
  PushCap = 2
  MaxInFlight = 1
  ProcStates = {"input_required"}
  MaxLog = 3
  Kinds <- EveryKind
INVARIANTS TypeOK OpenTaskHasWorker ErrorLeavesNothing PushInLogOrder
CHECK_DEADLOCK FALSE

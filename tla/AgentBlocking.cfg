SPECIFICATION Spec
CONSTANTS
  r1 = r1
  r2 = r2
  r3 = r3
  Req = {r1, r2}
  NoReq = NoReq
  Config = {}
  StoreBlocks = TRUE
  PushCap = 0
  MaxInFlight = 1
  ProcStates = {"input_required"}
  MaxLog = 4
  Kinds <- EveryKind
INVARIANTS OpenStreamLosesNothing StreamStopsAtFinal
PROPERTIES ImplementsFeed
CHECK_DEADLOCK FALSE

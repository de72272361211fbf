SPECIFICATION FairSpec
CONSTANTS
  r1 = r1
  r2 = r2
  r3 = r3
  Req = {r1, r2, r3}
  NoReq = NoReq
  Config = {}
  StoreBlocks = FALSE
  PushCap = 0
  MaxInFlight = 2
  ProcStates = {"input_required"}
  MaxLog = 4
  Kinds <- ResumeKinds
INVARIANT LiveRunIsRegistered
PROPERTIES CanceledTaskIsQuiet EveryTaskSettles StartedStreamEnds
CHECK_DEADLOCK FALSE

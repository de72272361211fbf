SPECIFICATION Spec
CONSTANTS
  s1 = s1
  s2 = s2
  t1 = t1
  t2 = t2
  Socket = {s1, s2}
  Task = {t1, t2}
  Streams <- BothStores
  None = None
  MaxTurns = 2
  MaxPatches = 1
SYMMETRY Interchangeable
INVARIANTS
  OneAnswerPerTurn
  OffersWaitingTask
  RestTellsTheTask
  CountLagsByAnswer
PROPERTY ChargedAnswerIsStored
CHECK_DEADLOCK FALSE

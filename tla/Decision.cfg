\* Two workers and two callers share two slots; three observations, a queue of two.
SPECIFICATION FairSpec
CONSTANTS
  Obs = {o1, o2, o3}
  Callers = {c1, c2}
  Workers = {w1, w2}
  NoObs = NoObs
  Slots = 2
  QueueCap = 2
  MaxRetries = 1
  Threshold = 2
  Drains = TRUE
INVARIANTS SlotsAreConserved UnfinishedIsWork ClosedCircuitHasBudget AcceptedIsInOnePlace
PROPERTIES EvaluationsEnd CloseCompletes
CHECK_DEADLOCK FALSE

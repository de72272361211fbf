\* One start fails.
SPECIFICATION FairSpec
CONSTANTS
  Name = {n1, n2}
  Version = {v1, v2}
  Agent = {a1, a2, a3, a4}
  None = None
  MaxEdits = 1
  MaxOutages = 1
  MaxStartFaults = 1
  MaxStopFaults = 1
INVARIANT OneAgentPerName
CHECK_DEADLOCK FALSE

\* Two names, two versions; an edit, one outage, a failed start and a failed stop.
SPECIFICATION FairSpec
CONSTANTS
  Name = {n1, n2}
  Version = {v1, v2}
  Agent = {a1, a2, a3, a4}
  None = None
  MaxEdits = 1
  MaxOutages = 1
  MaxStartFaults = 1
  MaxStopFaults = 1
INVARIANTS ManagedServes UniqueWhileStartsSucceed StopLeavesOnePerName
PROPERTIES OutageStopsNobody Converges StopReturns
CHECK_DEADLOCK FALSE

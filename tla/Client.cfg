\* One request of either kind, with one repeated delivery.
SPECIFICATION FairSpec
CONSTANTS
  Req = {r1}
  Timed = {r1}
  MaxEvents = 1
  MaxRepeats = 1
INVARIANTS SettledIsForgotten StreamIsFaithful
PROPERTIES CallsSettle ReceivedEndIsSeen
CHECK_DEADLOCK FALSE

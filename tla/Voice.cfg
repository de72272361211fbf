\* Two texts and one without a key in up to three turns, two transcripts handled at a
\* time.
SPECIFICATION FairSpec
CONSTANTS
  None = None
  Text = {t1, t2, k}
  Keyless = {k}
  Handler = {h1, h2}
  MaxTurns = 3
  MaxAttempts = 1
INVARIANTS HostWorkIsReachable OnlySparedTurnsAreSilent
PROPERTIES ShutdownEndsWork TurnsEnd
CHECK_DEADLOCK FALSE

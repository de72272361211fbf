\* The same call: what the caller said is never dropped without a word.
SPECIFICATION Spec
CONSTANTS
  None = None
  Text = {t1, t2}
  Keyless = {}
  Handler = {h1, h2}
  MaxTurns = 3
  MaxAttempts = 2
INVARIANTS NoSilentTurn
CHECK_DEADLOCK FALSE

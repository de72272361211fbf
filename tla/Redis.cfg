\* Two appends at a time, that overlap or not; two readers.
SPECIFICATION FairSpec
CONSTANTS
  w1 = w1  w2 = w2  r1 = r1  r2 = r2
  Writers = {w1, w2}
  Readers = {r1, r2}
  Modes <- TwoModes
  ReadCount = 2
  States <- FinalOnly
  MaxSeq = 2
INVARIANTS DocumentIsFoldOfStream LastEntryIsInDocument
PROPERTIES ImplementsFeed StreamReachesFinal
CHECK_DEADLOCK FALSE

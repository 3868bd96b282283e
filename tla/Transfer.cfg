CONSTANTS
  c1 = c1
  c2 = c2
  Session = {s1, s2}
  Content = {c1, c2}
  Size <- MCSize
  IntMax = 3
  Big = 2
  Chunk = 2
SPECIFICATION FairSpec
INVARIANTS TypeOK StoredIsPrefix LocalIsPrefix NobodyWaits
PROPERTIES StoredOnlyGrows EndsInStep TransfersEnd
CHECK_DEADLOCK FALSE

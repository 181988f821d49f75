SPECIFICATION FairSpec
CONSTANTS
  Relays <- Two
  Readers <- One
  Ring = 2
  SendsMost = 2
  TopNumber = 3
  SentMost = 3
  Budgets <- Mixes
CHECK_DEADLOCK FALSE
INVARIANTS
  TypeOK
  OneMessageOneNumber
  TakenIsThere
PROPERTIES
  KeptUntilTaken
  LeavesInItsTime
  Reaches

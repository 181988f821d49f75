SPECIFICATION FairSpec
CONSTANTS
  Devices = {1, 2, 3}
  MostHeads = 2
  MostChanges = 4
  MostRemoved = 1
INVARIANTS
  TypeOK SealsForNoRemoved OverlooksNone
PROPERTIES
  MadeOverAll RemovalReaches JoinEndsIt
CHECK_DEADLOCK FALSE

SPECIFICATION SpecBegun
CONSTANTS
  Devices <- Two
  Relays <- One
  Slots <- Two
  CountFirst <- LaterCounts
  Room <- RoomForAll
  PageMost = 1
  TopRev = 2
  Deletes = {FALSE, TRUE}
  Budgets <- ForRead
  StopsInPass = FALSE
INVARIANTS
  TypeOK
  NothingPassedOver
PROPERTIES
  ImplementsToRead

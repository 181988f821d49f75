SPECIFICATION Spec
CONSTANTS
  Devices <- Two
  Relays <- One
  Slots <- One
  CountFirst <- AllCount
  Room <- RoomForAll
  PageMost = 2
  TopRev = 1
  Deletes = {FALSE}
  Budgets <- ForStopInPass
  StopsInPass = TRUE
INVARIANTS
  MeetsTheChannel

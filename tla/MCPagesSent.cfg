SPECIFICATION FairBegun
CONSTANTS
  Devices <- Two
  Relays <- One
  Slots <- Two
  CountFirst <- AllCount
  Room <- RoomForTwo
  PageMost = 2
  TopRev = 2
  Deletes = {FALSE}
  Budgets <- ForSent
  StopsInPass = FALSE
INVARIANTS
  SentIsThere
PROPERTIES
  EachReads
  EachSends

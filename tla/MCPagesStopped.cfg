SPECIFICATION Spec
CONSTANTS
  Devices <- One
  Relays <- Two
  Slots <- Two
  CountFirst <- OnlyOne
  Room <- OneIsFull
  PageMost = 1
  TopRev = 1
  Deletes = {FALSE}
  Budgets <- ForStopped
  StopsInPass = FALSE
INVARIANTS
  MeetsTheChannel
  SentIsThere
PROPERTIES
  NoRevisionTwice

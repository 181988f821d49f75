SPECIFICATION ShowSpec
CONSTANTS
  Devices = {1, 2, 3}
  MostHeads = 3
  MostChanges = 3
  MostRemoved = 1
  Running = {1}
  Relays = {1, 2}
  Budgets <- FailsTwice
INVARIANT
  NoneUnapplied
CHECK_DEADLOCK FALSE

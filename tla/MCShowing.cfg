SPECIFICATION FairShowSpec
CONSTANTS
  Devices = {1, 2, 3}
  MostHeads = 3
  MostChanges = 3
  MostRemoved = 2
  Running = {1}
  Relays = {1, 2}
  Budgets <- Setups
INVARIANTS
  RoundsOK LeaveKnows NoneUnapplied WaitsClosed
PROPERTIES
  ImplementsLineage HeldReaches
CHECK_DEADLOCK FALSE

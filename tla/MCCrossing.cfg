CONSTANTS
  Half = 2
  MaxStatement = 3
  Devices = {d1, d2}
  MaxText = 3
  Texts <- MCTexts
  Jumps <- MCJumps
SPECIFICATION Spec
INVARIANTS
  TypeOK
  EntriesMayBe
  EditStaysAbove
  OneEditOneRev
PROPERTY ApplyFrees
CHECK_DEADLOCK FALSE

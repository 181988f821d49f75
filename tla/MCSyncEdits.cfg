SPECIFICATION FairSpec
CONSTANTS
  Devices <- TwoDevices
  Texts = {1, 2, 3}
  MaxLinks = 1
  Names <- FiveNames
  Files <- FileFive
  CopyNames <- TwoCopiesEach
  TopRev = 6
  Budgets <- NoFaults
INVARIANTS
  TypeOK
  NoTextLost
PROPERTIES
  Settle

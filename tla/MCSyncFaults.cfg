SPECIFICATION FairSpec
CONSTANTS
  Devices <- TwoDevices
  Texts = {1, 2}
  MaxLinks = 2
  Names <- FourNames
  Files <- FileFour
  CopyNames <- FewCopies
  TopRev = 6
  Budgets <- Faults
INVARIANTS
  NoTextLost
  RecordsAreBacked
PROPERTIES
  DeletesAreAgents
  NothingAfterStop
  Settle

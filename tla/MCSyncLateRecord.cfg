SPECIFICATION Spec
CONSTANTS
  Devices <- TwoDevices
  Texts = {1}
  MaxLinks = 2
  Names <- OneName
  Files <- OneName
  CopyNames <- NoCopies
  TopRev = 5
  Budgets <- LateFaults
PROPERTIES
  DeletesAreAgents

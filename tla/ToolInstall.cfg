SPECIFICATION Spec
CONSTANTS
  Names <- MCNames
  Deep <- MCDeep
  Archives <- MCArchives
  LastCommand = 3
  CallsMayFail = TRUE
INVARIANTS
  InstalledIsWhole
  OthersAreInstalled
PROPERTY KeepsUnlessTold

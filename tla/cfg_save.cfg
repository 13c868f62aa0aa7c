\* One login beside rc, every mishap possible once.
SPECIFICATION Spec
CONSTANTS
  Logins = {l1}
  Names = {1, 2}
  DefaultName = 2
  LeaseNames = {1}
  None = None
  SerialGetty = TRUE
  MaxVersion = 2
  MaxLeases = 1
  MaxCuts = 1
  MaxSaves = 2
INVARIANTS TypeOK OneTarball IdleIsSafe
PROPERTY RestoresSaved

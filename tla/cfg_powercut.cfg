\* Only the power fails.
SPECIFICATION Spec
CONSTANTS
  Logins = {l1}
  Names = {1, 2}
  DefaultName = 2
  LeaseNames = {1}
  None = None
  SerialGetty = FALSE
  MaxVersion = 2
  MaxLeases = 0
  MaxCuts = 1
  MaxSaves = 2
PROPERTY SurvivesPowerCut

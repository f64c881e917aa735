SPECIFICATION LocalizationSpec
CONSTANTS
  RequirePoseValid = TRUE
  MapLoaded = TRUE
  MaxPoses = 2
  MaxRestarts = 1
  CorrectionDepth = 2
PROPERTY InitialPoseClearsRequest

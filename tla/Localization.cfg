SPECIFICATION FairLocalizationSpec
CONSTANTS
  RequirePoseValid = TRUE
  MapLoaded = TRUE
  MaxPoses = 2
  MaxRestarts = 1
  CorrectionDepth = 2
INVARIANT LockIsConfirmed
PROPERTIES LockFollowsPose CorrectionsConverge

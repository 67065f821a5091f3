CONSTANTS
  Tree <- MCTree
  Ext <- MCExt
  ThumbName <- MCThumbName
  Includes = {}
  Excludes = {"txt"}
  Limit = 2
  Rm = TRUE
  UpEvents = {"open", "resolve", "upload", "send", "cancel"}
SPECIFICATION UpFairSpec
INVARIANTS UpTypeOK AllTried
PROPERTIES UploadEnds
CHECK_DEADLOCK FALSE

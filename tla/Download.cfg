CONSTANTS
  Msgs <- MCMsgs
  Dialogs <- MCDialogs
  Albums <- MCAlbums
  Chat <- MCChat
  Files <- MCFiles
  Groups = {TRUE}
  Deletable = {1, 4}
  Limit = 2
  Modes = {"continue", "fresh", "restart"}
  Events = {"download", "rename", "fatal", "album", "cancel", "kill"}
  MaxRuns = 2
SPECIFICATION FairSpec
INVARIANTS TypeOK PositionsDistinct ResumeSkipsOnlyDownloaded ClearedMeansDone
PROPERTIES ContinuingLosesNothing RunEnds
CHECK_DEADLOCK FALSE

CONSTANTS
  Msgs <- MCMsgs
  Dialogs <- MCTwoDialogs
  Albums <- MCAlbums
  Chat <- MCChat
  Files <- MCFiles
  Groups = {TRUE}
  Deletable = {1}
  Limit = 2
  Modes = {"continue", "fresh", "restart"}
  Events = {"download", "cancel"}
  MaxRuns = 3
SPECIFICATION Spec
INVARIANTS ClearedMeansAllThere
CHECK_DEADLOCK FALSE

CONSTANTS
  Payloads = {1, 2, 3, 4}
  NoReq = NoReq
  MaxTries = 2
  MaxRounds = 1
  Sources <- MCSources
  Service = {9}
  NoFile = {4}
  Albums = {{1, 2}}
  Media = {1, 2, 3}
  Documents = {1, 2}
  Convertible = {1, 3}
  HasText = {2, 4}
  Deletable = {1, 2}
  FwEvents = {"resolve", "dest", "album", "clone", "interrupt"}
  Chats = {"user", "chat", "lost", "forum", "folder"}
  BareId <- MCBareId
  Folders = {"folder"}
  Lost = {"lost"}
  Forums = {"forum"}
  Blocked = {2}
  Unwanted = {}
  ChatBatch = 2
  MaxDate = 6
  MaxMoves = 1
  Topics = {1, 2}
  History <- MCHistory
  XpService = {1}
  XpNoFile = {4}
  XpRefused = {2}
  Half = 6
  MaxInt = 23
  Kinds = {"users", "admins"}
  ExtDirs <- MCExtDirs
  Stem <- MCStem
  Scripts = {"tdl-a"}
  Releases = {"v1", "v2"}
  NoAsset = {}
  MaxExRuns = 2
  MaxVersion = 2
  MaxUpdates = 3
SPECIFICATION Spec
INVARIANTS TypeOK ArrivesOnce DoneHasArrived AllReported ListIsComplete ExportExact ManifestIsTrue ExecutableKept
CHECK_DEADLOCK FALSE

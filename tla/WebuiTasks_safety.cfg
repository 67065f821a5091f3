CONSTANTS
  Tasks = {t1, t2}
  Requests = {r1, r2}
  Chats = {c1}
  QueueCap = 1
  NoTask = NoTask
SPECIFICATION Spec
SYMMETRY Symmetry
INVARIANTS TypeOK SerialChildren RunningIsCurrent SucceededIsTrue RejectedNeverRuns
PROPERTIES QueuedCancelSticks StartedOnce

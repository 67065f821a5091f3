CONSTANTS
  Tasks = {t1, t2}
  Requests = {r1}
  Chats = {}
  QueueCap = 1
  NoTask = NoTask
SPECIFICATION Spec
INVARIANTS CanceledIsStopped

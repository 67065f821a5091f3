CONSTANTS
  Tasks = {t1, t2}
  Requests = {r1}
  Chats = {}
  QueueCap = 1
  NoTask = NoTask
SPECIFICATION FairSpec
PROPERTIES TasksSettle CancelAnswered CancelTakesEffect

CONSTANTS
  Tasks = {t1, t2}
  Publishers = {p1, p2}
  Pages = {s1}
  ChanCap = 1
  MaxVersion = 2
  NoTask = NoTask
SPECIFICATION Spec
INVARIANTS TypeOK NoSendOnClosed PageCatchesUp
PROPERTIES PageConverges

CONSTANTS
  Threads = {a, b}
  Namespaces = {m, n}
  Vals = {v}
  None = None
  Missing = Missing
  Garbled = Garbled
  Idle = Idle
  Nobody = Nobody
  MaxRuns = 3
  MaxOps = 2
SPECIFICATION FairSpec
INVARIANTS TypeOK NeverFailsInProcess
PROPERTIES ImplementsKV RunsEnd
CHECK_DEADLOCK FALSE

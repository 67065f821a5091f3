CONSTANTS
  Jobs = {j1, j2}
  Main = main
  DCs = {d1, d2}
  Current = d1
  Nobody = Nobody
SPECIFICATION FairSpec
INVARIANTS TypeOK OneOfEach NothingLeft
PROPERTIES CallsReturn CloseEnds
CHECK_DEADLOCK FALSE

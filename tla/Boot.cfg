SPECIFICATION FairSpec
CONSTANTS
  Routes = {root, stream}
  Main = main
  Absent = absent
  Torn = torn
INVARIANTS
  NeedsMet
  ServedOnline
PROPERTY BootEnds
CHECK_DEADLOCK FALSE

SPECIFICATION Spec
CONSTANTS
  a = a
  b = b
  Tasks <- TwoTasks
  MaxReads = 3
INVARIANTS
  IdleObjectIsNew
  LinksAreLostToOverlapOnly
  CancelledByOverlapOnly
PROPERTIES ReadsEnd
CHECK_DEADLOCK FALSE

SPECIFICATION Spec
CONSTANTS
  MaxReads = 1
  MaxPushes = 0
  PushCodes <- NoPush
  Versions <- AnyVersion
  Lingers <- EitherWay
INVARIANTS
  ErrorsAreSdkErrors
CHECK_DEADLOCK FALSE

SPECIFICATION Spec
CONSTANTS
  MaxReads = 2
  MaxPushes = 0
  PushCodes <- NoPush
  Versions <- SupportedVersions
  Lingers <- EitherWay
INVARIANTS
  SessionKeyIsCurrent
CHECK_DEADLOCK FALSE

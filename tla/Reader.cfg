SPECIFICATION LiveSpec
CONSTANTS
  MaxReads = 2
  MaxPushes = 2
  PushCodes <- EveryPush
  Versions <- SupportedVersions
  Lingers <- EitherWay
INVARIANTS
  TypeOK
  NothingLeftBehind
  EveryLinkReleased
  ResultIsOfThisRead
  SequenceNumbersUnique
  SuccessIsEarned
  AckedIsReturned
  ReportsAreOfThisRead
  KeysMatchLinks
PROPERTIES
  NoWriteAfterRelease
  ImplementsContract
  ReadEnds
CHECK_DEADLOCK FALSE

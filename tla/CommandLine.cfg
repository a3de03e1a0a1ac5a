SPECIFICATION Spec
CONSTANTS
  cli = cli
  lamp = lamp
  socket = socket
  level_report = level_report
  Devices <- Nearby
  Broadcasts <- Heard
  MaxHeard = 3
  PassedUuids <- UserUuids
  Reports <- OneReport
  Callers <- OneCaller
  Loggers <- NoCaller
  Closers <- OneCaller
  MaxCalls = 2
  Accounts <- AnAccount
  Answers <- SomeAnswers
  Pairable <- PairableDevices
INVARIANTS
  ScannerOffWhileReading
  FirstSightingIsUsed
  ScanIsComplete
  IdentitiesAreTrue
  NothingHeldAtExit
PROPERTIES CommandEnds
CHECK_DEADLOCK FALSE

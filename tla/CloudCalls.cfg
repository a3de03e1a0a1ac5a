SPECIFICATION Spec
CONSTANTS
  lister = lister
  other = other
  sensor = sensor
  lamp = lamp
  socket = socket
  Callers <- TwoCallers
  Loggers <- TwoCallers
  Closers <- TwoCallers
  MaxCalls = 5
  Accounts <- SharedHomes
  Answers <- AllAnswers
  Pairable <- BleDevices
INVARIANTS ListingIsComplete OneAccountPerListing SessionsAreReleased 
CHECK_DEADLOCK FALSE

SPECIFICATION Spec
CONSTANTS
  CONNECT_TIMEOUT = 40
  RESPONSE_TIMEOUT = 24
  FIRST_REPORT_TIMEOUT = 24
  REPORT_QUIET_PERIOD = 3
  DISCONNECT_TIMEOUT = 10
  SESSION_TIMEOUT = 120
INVARIANTS TypeOK SlotHeldBriefly ReturnsWhenQuiet SilenceIsAnAnswer
CHECK_DEADLOCK FALSE

SPECIFICATION Spec
CONSTANTS
  Bytes <- ReportBytes
  Utf8 <- Ascii
  MaxBytes = 4
  Earlier <- EarlierRecords
  MILLISECOND_TIMESTAMP_LENGTH = 2
  SECOND_TIMESTAMP_LENGTH = 1
INVARIANTS EveryRecordIsRead
CHECK_DEADLOCK FALSE

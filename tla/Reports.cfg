SPECIFICATION Spec
CONSTANTS
  Bytes <- ReportBytes
  Utf8 <- Ascii
  MaxBytes = 7
  Earlier <- EarlierRecords
  MILLISECOND_TIMESTAMP_LENGTH = 2
  SECOND_TIMESTAMP_LENGTH = 1
INVARIANTS RecordsTileTheReport ValuesAreSigned AcknowledgedIfReadable LastRecordWins
CHECK_DEADLOCK FALSE

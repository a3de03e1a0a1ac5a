SPECIFICATION Spec
CONSTANTS
  Zones <- SomeZones
  Seasons = 2
PROPERTIES OffsetIsLocal
CHECK_DEADLOCK FALSE

--------------------------- MODULE MCClockReply ---------------------------
(* Zones east and west of UTC, of whole and part hours, with and without     *)
(* daylight saving.                                                          *)
EXTENDS ClockReply

Zone(winter, summer) == [standard |-> winter, daylight |-> summer]
SomeZones ==
  {Zone(0, 3600), Zone(-10800, -10800), Zone(20700, 20700), Zone(-12600, -9000)}
=============================================================================

---------------------------- MODULE ClockReply ----------------------------
(***************************************************************************)
(* The two answers to a device that asks for the time, of time_reply.py: a *)
(* process that lives through the year of its time zone answers whenever   *)
(* it is asked.  Moments are seconds; the fields of a broken-down time are *)
(* the moment a clock on the wall shows.                                   *)
(***************************************************************************)
EXTENDS Integers

CONSTANTS
  Zones,     \* offsets in seconds east of UTC, outside daylight saving and in it
  Seasons    \* bound: how often daylight saving begins or ends

VARIABLES
  zone,      \* of the host
  daylight,  \* whether daylight saving is in force
  turns,     \* how often that changed
  now,       \* seconds since the epoch
  reply      \* the last answer

vars == <<zone, daylight, turns, now, reply>>

NoReply == [kind |-> "none"]

\* The clock on the host's wall is this far ahead of UTC.
LocalOffset == IF daylight THEN zone.daylight ELSE zone.standard

Init == /\ zone \in Zones /\ daylight \in BOOLEAN /\ turns = 0
        /\ now = 0 /\ reply = NoReply

\* Months pass and the clocks change.  time.timezone does not.
ClocksChange == /\ turns < Seasons
                /\ turns' = turns + 1 /\ daylight' = ~daylight
                /\ now' = now + 182 * 86400
                /\ UNCHANGED <<zone, reply>>

-----------------------------------------------------------------------------
\* int(): towards zero.
Truncated(a, b) == IF a >= 0 THEN a \div b ELSE -((-a) \div b)

SECONDS_PER_TIMEZONE_UNIT == 36

\* time.timezone: seconds west of UTC, without daylight saving.
Timezone == -zone.standard

TimezoneOffset == -Truncated(Timezone, SECONDS_PER_TIMEZONE_UNIT)

BuildUnixTimeReply  == [kind |-> "unix", moment |-> now, offset |-> TimezoneOffset]
BuildLocalTimeReply == [kind |-> "local", moment |-> now + LocalOffset, offset |-> TimezoneOffset]

Asked == /\ reply' \in {BuildUnixTimeReply, BuildLocalTimeReply}
         /\ UNCHANGED <<zone, daylight, turns, now>>

Next == ClocksChange \/ Asked

Spec == Init /\ [][Next]_vars

-----------------------------------------------------------------------------
\* time_reply.py:15: the offset of an answer is "the local offset in hundredths
\* of an hour, positive east of UTC", the one its local time was made with.
OffsetIsLocal ==
  [][reply' # reply => reply'.offset * SECONDS_PER_TIMEZONE_UNIT = LocalOffset]_vars
=============================================================================

---------------------------- MODULE SessionBudget ----------------------------
(***************************************************************************)
(* The clock of one read of TuyaBleClient: which await is bounded by which *)
(* constant of client.py, and what the bounds add up to.  What travels in  *)
(* the frames is the subject of TuyaBleClient; here an await ends well, or *)
(* badly, or its time runs out.                                            *)
(***************************************************************************)
EXTENDS Integers

CONSTANTS CONNECT_TIMEOUT, RESPONSE_TIMEOUT, FIRST_REPORT_TIMEOUT,
          REPORT_QUIET_PERIOD, DISCONNECT_TIMEOUT, SESSION_TIMEOUT

ASSUME TimeoutsAssumption ==
  {CONNECT_TIMEOUT, RESPONSE_TIMEOUT, FIRST_REPORT_TIMEOUT,
   REPORT_QUIET_PERIOD, DISCONNECT_TIMEOUT, SESSION_TIMEOUT} \subseteq Nat \ {0}

VARIABLES
  phase,       \* what the read awaits
  answers,     \* requests answered so far, of three
  heard,       \* whether a report was taken
  now,         \* time since the read began
  expiry,      \* when the timer of this await fires
  since,       \* when the wait for reports was last started
  handedOver,  \* when the link was handed to disconnect(), or -1
  outcome      \* how the read ended

vars == <<phase, answers, heard, now, expiry, since, handedOver, outcome>>

\* The awaits under SESSION_TIMEOUT.
Running == {"connecting", "subscribing", "writing", "waiting", "collecting"}

Init == /\ phase = "connecting" /\ answers = 0 /\ heard = FALSE
        /\ now = 0 /\ expiry = CONNECT_TIMEOUT /\ since = 0
        /\ handedOver = -1 /\ outcome = "none"

\* The event loop runs a timer that is due before any more time passes.
Tick == /\ phase # "done" /\ now < expiry
        /\ phase \in Running => now < SESSION_TIMEOUT
        /\ now' = now + 1
        /\ UNCHANGED <<phase, answers, heard, expiry, since, handedOver, outcome>>

\* start_notify() and the writes have no timer of their own: the deadline is it.
Connected == /\ phase = "connecting"
             /\ phase' = "subscribing" /\ expiry' = SESSION_TIMEOUT
             /\ UNCHANGED <<answers, heard, now, since, handedOver, outcome>>

Subscribed == /\ phase = "subscribing"
              /\ phase' = "writing" /\ expiry' = SESSION_TIMEOUT
              /\ UNCHANGED <<answers, heard, now, since, handedOver, outcome>>

Written == /\ phase = "writing"
           /\ phase' = "waiting" /\ expiry' = now + RESPONSE_TIMEOUT
           /\ UNCHANGED <<answers, heard, now, since, handedOver, outcome>>

\* The next request is written, or the wait for the first report starts.
AnsweredWithin(limit) ==
  /\ phase = "waiting"
  /\ answers' = answers + 1
  /\ \/ /\ answers < 2
        /\ phase' = "writing" /\ expiry' = SESSION_TIMEOUT /\ UNCHANGED since
     \/ /\ answers = 2
        /\ phase' = "collecting" /\ since' = now /\ expiry' = limit
  /\ UNCHANGED <<heard, now, handedOver, outcome>>

\* Mutant: only the session bounds the wait for the first report.
AnsweredUnbounded == AnsweredWithin(SESSION_TIMEOUT)

Answered == AnsweredWithin(now + FIRST_REPORT_TIMEOUT)

\* Mutant: a later report does not start the quiet period again.
FirstReportTaken ==
  /\ phase = "collecting"
  /\ heard' = TRUE /\ since' = now
  /\ expiry' = IF heard THEN expiry ELSE now + REPORT_QUIET_PERIOD
  /\ UNCHANGED <<phase, answers, now, handedOver, outcome>>

\* A report is taken: the read now waits for the device to go quiet.
ReportTaken ==
  /\ phase = "collecting"
  /\ heard' = TRUE /\ since' = now
  /\ expiry' = now + REPORT_QUIET_PERIOD
  /\ UNCHANGED <<phase, answers, now, handedOver, outcome>>

\* The read ends; without a link there is nothing to hand over.
EndWithin(o, limit) ==
  /\ outcome' = o
  /\ IF phase = "connecting"
     THEN phase' = "done" /\ UNCHANGED <<expiry, handedOver>>
     ELSE phase' = "disconnecting" /\ expiry' = limit /\ handedOver' = now
  /\ UNCHANGED <<answers, heard, now, since>>

\* Mutant: the disconnect is bounded like a connection attempt.
EndLate(o) == EndWithin(o, now + CONNECT_TIMEOUT)

End(o) == EndWithin(o, now + DISCONNECT_TIMEOUT)

\* The timer of the await fires: the caller's answer if the read was waiting
\* for reports, a failure otherwise.  The deadline wins if it is due as well.
TimedOut ==
  /\ phase \in Running /\ now = expiry /\ now < SESSION_TIMEOUT
  /\ End(IF phase = "collecting" THEN "ok" ELSE "timeout")

Deadline ==
  /\ phase \in Running /\ now = SESSION_TIMEOUT
  /\ End("deadline")

\* A step fails before its time is up, or the caller cancels.
Failed == phase \in Running /\ End("failed")

\* disconnect() returns, raises, or is given up when its timer fires.
Disconnected ==
  /\ phase = "disconnecting"
  /\ phase' = "done"
  /\ UNCHANGED <<answers, heard, now, expiry, since, handedOver, outcome>>

Next == \/ Tick \/ Connected \/ Subscribed \/ Written \/ Answered \/ ReportTaken
        \/ TimedOut \/ Deadline \/ Failed \/ Disconnected

Spec == Init /\ [][Next]_vars

-----------------------------------------------------------------------------
\* The values of every variable; the caller has its answer within the session
\* and the disconnect timeouts together (client.py:108, 165).
TypeOK ==
  /\ phase \in Running \cup {"disconnecting", "done"}
  /\ answers \in 0 .. 3 /\ heard \in BOOLEAN
  /\ now \in 0 .. SESSION_TIMEOUT + DISCONNECT_TIMEOUT
  /\ expiry \in Nat /\ since \in 0 .. SESSION_TIMEOUT
  /\ handedOver \in -1 .. SESSION_TIMEOUT
  /\ outcome \in {"none", "ok", "timeout", "deadline", "failed"}

\* The link is handed over within the session's time and the caller is back at
\* most DISCONNECT_TIMEOUT later, whatever each await takes (client.py:99-105).
SlotHeldBriefly ==
  handedOver # -1 => /\ handedOver <= SESSION_TIMEOUT
                     /\ now - handedOver <= DISCONNECT_TIMEOUT

\* A read that returns reports has heard nothing for the quiet period, and one
\* that returns none has waited for the first the whole of its time
\* (client.py:94-97, 216-224).
ReturnsWhenQuiet ==
  outcome = "ok" =>
    handedOver - since >= IF heard THEN REPORT_QUIET_PERIOD ELSE FIRST_REPORT_TIMEOUT

\* A device that acknowledges the status request and then says nothing gives
\* an answer, not an error (client.py:96-97), unless connecting and the three
\* requests took so long that the session ends before the wait for a report.
SilenceIsAnAnswer ==
  outcome = "deadline" /\ answers = 3 /\ ~heard =>
    since + FIRST_REPORT_TIMEOUT >= SESSION_TIMEOUT
=============================================================================

------------------------- MODULE SessionBudgetProofs -------------------------
(* What SessionBudget promises, for every value of the six timeouts. *)
EXTENDS SessionBudget, TLAPS

\* What relates the clock to the timer of the await: a timer that has not fired
\* is not in the past, a running read still has its link, and the timer of the
\* wait for reports was set when that wait was started.
ClockInv ==
  /\ phase \in Running => /\ now <= SESSION_TIMEOUT /\ now <= expiry
                          /\ handedOver = -1 /\ outcome = "none"
  /\ phase = "waiting" => answers < 3 /\ heard = FALSE
  /\ phase = "collecting" =>
       /\ since <= now
       /\ expiry = since + (IF heard THEN REPORT_QUIET_PERIOD ELSE FIRST_REPORT_TIMEOUT)
  /\ phase = "disconnecting" =>
       /\ handedOver # -1 /\ now <= expiry
       /\ expiry = handedOver + DISCONNECT_TIMEOUT
  /\ outcome = "deadline" /\ answers = 3 => handedOver = SESSION_TIMEOUT
  /\ phase \in {"connecting", "subscribing", "writing"} => answers < 3 /\ heard = FALSE
  /\ phase = "done" /\ handedOver = -1 => outcome # "ok" /\ answers < 3

\* The inductive invariant: the typing and every property, with what they need.
BudgetInv ==
  TypeOK /\ ClockInv /\ SlotHeldBriefly /\ ReturnsWhenQuiet /\ SilenceIsAnAnswer

\* A fresh read satisfies the invariant.
LEMMA BudgetInit == Init => BudgetInv
<1> SUFFICES ASSUME Init PROVE BudgetInv
  OBVIOUS
<1>1. CONNECT_TIMEOUT \in Nat \ {0} /\ SESSION_TIMEOUT \in Nat \ {0} /\ DISCONNECT_TIMEOUT \in Nat \ {0}
  BY TimeoutsAssumption
<1>2. TypeOK
  <2>1. now \in 0 .. SESSION_TIMEOUT + DISCONNECT_TIMEOUT
    BY <1>1, SMT DEF Init
  <2>2. expiry \in Nat /\ since \in 0 .. SESSION_TIMEOUT /\ handedOver \in -1 .. SESSION_TIMEOUT
    BY <1>1, SMT DEF Init
  <2>3. answers \in 0 .. 3
    BY SMT DEF Init
  <2>4. heard \in BOOLEAN
    BY DEF Init
  <2> QED BY <2>1, <2>2, <2>3, <2>4, Zenon DEF Init, TypeOK, Running
<1>3. ClockInv
  BY <1>1, SMT DEF Init, ClockInv, Running
<1>4. SlotHeldBriefly /\ ReturnsWhenQuiet /\ SilenceIsAnAnswer
  BY DEF Init, SlotHeldBriefly, ReturnsWhenQuiet, SilenceIsAnAnswer
<1> QED BY <1>2, <1>3, <1>4 DEF BudgetInv

\* Ending a read keeps the invariant if its outcome is one of those that the
\* timers and failures produce, each at its time.
LEMMA BudgetEnd ==
  ASSUME BudgetInv, NEW o \in {"ok", "timeout", "deadline", "failed"}, End(o),
         phase \in Running,
         o = "ok" => phase = "collecting" /\ now = expiry,
         o = "deadline" => now = SESSION_TIMEOUT
  PROVE  BudgetInv'
<1> USE TimeoutsAssumption DEF BudgetInv, TypeOK, ClockInv, Running, End, EndWithin
<1>1. (TypeOK /\ ClockInv)'
  BY SMT
<1>2. SlotHeldBriefly'
  BY <1>1, SMT DEF SlotHeldBriefly
<1>3. ReturnsWhenQuiet'
  BY SMT DEF ReturnsWhenQuiet
<1>4. SilenceIsAnAnswer'
  BY SMT DEF SilenceIsAnAnswer
<1> QED BY <1>1, <1>2, <1>3, <1>4 DEF BudgetInv

\* Every step keeps the invariant.
LEMMA BudgetNext == BudgetInv /\ [Next]_vars => BudgetInv'
<1> SUFFICES ASSUME BudgetInv, [Next]_vars PROVE BudgetInv'
  OBVIOUS
<1> USE TimeoutsAssumption DEF Running
<1>1. CASE Tick
  BY <1>1, SMT DEF Tick, BudgetInv, TypeOK, ClockInv,
     SlotHeldBriefly, ReturnsWhenQuiet, SilenceIsAnAnswer
<1>2. CASE Connected \/ Subscribed \/ Written
  BY <1>2, SMT DEF Connected, Subscribed, Written, BudgetInv, TypeOK, ClockInv,
     SlotHeldBriefly, ReturnsWhenQuiet, SilenceIsAnAnswer
<1>3. CASE Answered
  <2>1. TypeOK'
    BY <1>3, SMT DEF Answered, AnsweredWithin, BudgetInv, TypeOK, ClockInv
  <2>2. ClockInv'
    BY <1>3, SMT DEF Answered, AnsweredWithin, BudgetInv, TypeOK, ClockInv
  <2>3. (SlotHeldBriefly /\ ReturnsWhenQuiet /\ SilenceIsAnAnswer)'
    BY <1>3, SMT DEF Answered, AnsweredWithin, BudgetInv, TypeOK, ClockInv,
       SlotHeldBriefly, ReturnsWhenQuiet, SilenceIsAnAnswer
  <2> QED BY <2>1, <2>2, <2>3 DEF BudgetInv
<1>4. CASE ReportTaken
  BY <1>4, SMT DEF ReportTaken, BudgetInv, TypeOK, ClockInv,
     SlotHeldBriefly, ReturnsWhenQuiet, SilenceIsAnAnswer
<1>5. CASE TimedOut
  BY <1>5, BudgetEnd DEF TimedOut
<1>6. CASE Deadline
  BY <1>6, BudgetEnd DEF Deadline
<1>7. CASE Failed
  BY <1>7, BudgetEnd DEF Failed
<1>8. CASE Disconnected
  BY <1>8, SMT DEF Disconnected, BudgetInv, TypeOK, ClockInv,
     SlotHeldBriefly, ReturnsWhenQuiet, SilenceIsAnAnswer
<1>9. CASE UNCHANGED vars
  BY <1>9, SMT DEF vars, BudgetInv, TypeOK, ClockInv,
     SlotHeldBriefly, ReturnsWhenQuiet, SilenceIsAnAnswer
<1> QED BY <1>1, <1>2, <1>3, <1>4, <1>5, <1>6, <1>7, <1>8, <1>9 DEF Next

LEMMA BudgetAlways == Spec => []BudgetInv
  BY BudgetInit, BudgetNext, PTL DEF Spec

\* The session and the disconnect timeouts bound the whole read.
THEOREM BudgetTypeCorrect == Spec => []TypeOK
<1>1. BudgetInv => TypeOK BY DEF BudgetInv
<1> QED BY <1>1, BudgetAlways, PTL

\* The connection slot is handed over in time, and the caller returns soon after.
THEOREM SlotIsHeldBriefly == Spec => []SlotHeldBriefly
<1>1. BudgetInv => SlotHeldBriefly BY DEF BudgetInv
<1> QED BY <1>1, BudgetAlways, PTL

\* A read returns only once the device has gone quiet.
THEOREM OnlyQuietReadsReturn == Spec => []ReturnsWhenQuiet
<1>1. BudgetInv => ReturnsWhenQuiet BY DEF BudgetInv
<1> QED BY <1>1, BudgetAlways, PTL

\* Silence after the acknowledgement is an answer if the session has the time.
THEOREM SilenceAnswers == Spec => []SilenceIsAnAnswer
<1>1. BudgetInv => SilenceIsAnAnswer BY DEF BudgetInv
<1> QED BY <1>1, BudgetAlways, PTL
=============================================================================

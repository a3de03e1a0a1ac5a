--------------------------- MODULE TuyaBleClient ---------------------------
(***************************************************************************)
(* The reader of src/src/tuya_ble_sdk/client.py: one TuyaBleClient object  *)
(* that runs read after read, the GATT link each read opens, the device at *)
(* the other end of it, and the event loop that interleaves the read with  *)
(* the notification callback and with the background reply tasks.          *)
(*                                                                         *)
(* Grain.  A step runs one task from one await to the next, as asyncio     *)
(* does.  A frame is one unit: its fragments, AES and CRC appear only      *)
(* through their effect, a frame is readable under the key it was          *)
(* encrypted with and lost if a fragment of it is.  A timer is an action   *)
(* that may fire whenever the await it bounds is suspended; the durations  *)
(* are the subject of SessionBudget.                                       *)
(*                                                                         *)
(* Names.  The n-th read opens link n, and the device discloses a fresh    *)
(* salt (srand) on every link, so link n also names the session key        *)
(* derived from that salt.                                                 *)
(***************************************************************************)
EXTENDS Integers, Sequences, FiniteSets, SequencesExt

CONSTANTS
  MaxReads,     \* bound: how many reads the caller starts on the client
  MaxPushes,    \* bound: how many frames the device sends of its own accord
  PushCodes,    \* which kinds of device-initiated frames it sends
  Versions,     \* protocol versions the device may disclose
  Lingers       \* whether a device's link can stay up when a disconnect fails

AllPushCodes == {"report", "empty_report", "bad_report", "clock"}

ASSUME MaxReadsAssumption  == MaxReads \in Nat
ASSUME MaxPushesAssumption == MaxPushes \in Nat
ASSUME PushCodesAssumption == PushCodes \subseteq AllPushCodes
ASSUME VersionsAssumption  == Versions \subseteq 0 .. 255
ASSUME LingersAssumption   == Lingers \subseteq BOOLEAN

VARIABLES
  pc,               \* the await the read is suspended on
  stage,            \* the request the read is at
  reads,            \* reads started so far; the current one opens link `reads`
  client,           \* _client: the link the reader holds, or NoLink
  sessionKey,       \* _session_key, named by the salt it derives from, or NoKey
  protocolVersion,  \* _protocol_version
  seqNo,            \* _sequence_number
  pending,          \* keys of _pending
  reply,            \* the frame the outstanding future holds, or NoFrame
  reports,          \* _reports
  background,       \* _background: replies created and not finished
  ready,            \* the event loop's queue of woken tasks
  collected,        \* reports gathered by this read, then its result
  outcome,          \* how the last read ended
  links,            \* links that are up
  released,         \* links handed to client.disconnect()
  inbox,            \* per link, frames travelling to the reader
  air,              \* frames handed to the radio by the reader
  answered,         \* requests among them the device has answered
  pushed,           \* frames the device sent of its own accord
  device            \* the device the credentials are for: see Devices

sessionVars == <<client, sessionKey, seqNo, pending, reply, reports,
                 background, ready>>
radioVars   == <<links, inbox, air, answered, pushed>>
vars == <<pc, stage, reads, sessionVars, protocolVersion, collected, outcome,
          released, radioVars, device>>

-----------------------------------------------------------------------------
Links    == 1 .. MaxReads
NoLink   == 0
LoginKey == 0            \* the key derived from the local key alone
NoKey    == -1
Reader   == 0            \* the read's task in `ready`; a reply is its number
Stages   == {"info", "pair", "status"}
Bodies   == {"ok", "rejected", "malformed"}

DEFAULT_PROTOCOL_VERSION == 3
Packable == 0 .. 15      \* versions whose shift by four fits the header byte

Awaits == {"idle", "connecting", "subscribing", "sending", "waiting",
           "collecting", "disconnecting"}
Running == Awaits \ {"idle", "disconnecting"}

Outcomes == {"none", "ok", "connection", "handshake_timeout", "protocol",
             "authentication", "struct_error", "cancelled"}

NoFrame == [link |-> NoLink, key |-> NoKey, code |-> "none", to |-> 0,
            id |-> 0, body |-> "ok"]

\* A push as the reader sees it: where it came from and the device's number.
Push(f) == [link |-> f.link, id |-> f.id]

\* Whether the device shares our local key, whether a pairing request has room
\* for the credentials, the version it discloses, and whether its link can
\* outlive a disconnect that fails.
Devices == [knowsKey : BOOLEAN, fits : BOOLEAN, version : Versions, lingers : Lingers]

Init ==
  /\ pc = "idle" /\ stage = "info" /\ reads = 0
  /\ client = NoLink /\ sessionKey = NoKey
  /\ protocolVersion = DEFAULT_PROTOCOL_VERSION
  /\ seqNo = 1 /\ pending = {} /\ reply = NoFrame /\ reports = <<>>
  /\ background = {} /\ ready = <<>> /\ collected = {} /\ outcome = "none"
  /\ links = {} /\ released = {} /\ inbox = [l \in Links |-> <<>>]
  /\ air = {} /\ answered = {} /\ pushed = 0
  /\ device \in Devices

-----------------------------------------------------------------------------
\* Teardown.

\* Wrong variants, for mutation: the number restarts at zero; the key is kept;
\* only a link with a key is handed over; queued reports are kept; the handle
\* and the reply tasks are dropped only after disconnect() returned.
TearDownAs(number, key, keepReports, handOver, keepTasks) ==
  /\ client' = IF keepTasks THEN client ELSE NoLink
  /\ released' = released \cup (IF handOver THEN {client} \ {NoLink} ELSE {})
  /\ sessionKey' = key /\ seqNo' = number /\ pending' = {} /\ reply' = NoFrame
  /\ reports' = IF keepReports THEN reports ELSE <<>>
  /\ background' = IF keepTasks THEN background ELSE {}
  /\ ready' = IF keepTasks THEN ready ELSE <<>>
  /\ pc' = IF client = NoLink \/ ~handOver THEN "idle" ELSE "disconnecting"

TearDownToZero         == TearDownAs(0, NoKey, FALSE, TRUE, FALSE)
TearDownKeepsKey       == TearDownAs(1, sessionKey, FALSE, TRUE, FALSE)
TearDownKeepsReports   == TearDownAs(1, NoKey, TRUE, TRUE, FALSE)
TearDownOfKeyedLink    == TearDownAs(1, NoKey, FALSE, sessionKey # NoKey, FALSE)
TearDownLeavesTasks    == TearDownAs(1, sessionKey, FALSE, TRUE, TRUE)

\* Up to its only await: forget the session, and hand the link, if there is
\* one, to disconnect().  The protocol version survives.
TearDown ==
  /\ client' = NoLink
  /\ released' = released \cup ({client} \ {NoLink})
  /\ sessionKey' = NoKey /\ seqNo' = 1 /\ pending' = {} /\ reply' = NoFrame
  /\ reports' = <<>> /\ background' = {} /\ ready' = <<>>
  /\ pc' = IF client = NoLink THEN "idle" ELSE "disconnecting"

\* The read ends with outcome o and its `finally` starts; only a read that
\* returns hands over what it collected.
EndRead(o) ==
  /\ TearDown
  /\ outcome' = o
  /\ collected' = IF o = "ok" THEN collected ELSE {}
  /\ UNCHANGED <<stage, reads, radioVars, device>>

Disconnected ==
  /\ pc = "disconnecting"
  /\ pc' = "idle"
  /\ links' = links \ {reads}
  /\ inbox' = [inbox EXCEPT ![reads] = <<>>]
  /\ UNCHANGED <<stage, reads, sessionVars, protocolVersion, collected, outcome,
                 released, air, answered, pushed, device>>

\* disconnect() raises, outlasts DISCONNECT_TIMEOUT, or is cancelled by the
\* caller: the first two are swallowed, the last replaces the outcome.
DisconnectFails(o) ==
  /\ pc = "disconnecting"
  /\ pc' = "idle"
  /\ outcome' = o
  /\ collected' = IF o = "cancelled" THEN {} ELSE collected
  /\ \/ /\ device.lingers
        /\ UNCHANGED <<links, inbox>>
     \/ /\ links' = links \ {reads}
        /\ inbox' = [inbox EXCEPT ![reads] = <<>>]
  /\ UNCHANGED <<stage, reads, sessionVars, protocolVersion, released, air,
                 answered, pushed, device>>

DisconnectTimesOut    == DisconnectFails(outcome)
DisconnectIsCancelled == DisconnectFails("cancelled")

-----------------------------------------------------------------------------
\* Connecting.

StartRead ==
  /\ pc = "idle" /\ reads < MaxReads
  /\ pc' = "connecting" /\ reads' = reads + 1 /\ stage' = "info"
  /\ outcome' = "none" /\ collected' = {}
  /\ UNCHANGED <<sessionVars, protocolVersion, released, radioVars, device>>

Connected ==
  /\ pc = "connecting"
  /\ pc' = "subscribing" /\ client' = reads /\ links' = links \cup {reads}
  /\ UNCHANGED <<stage, reads, sessionKey, protocolVersion, seqNo, pending,
                 reply, reports, background, ready, collected, outcome,
                 released, inbox, air, answered, pushed, device>>

\* Both attempts fail, CONNECT_TIMEOUT expires, or start_notify() raises.
ConnectFails ==
  /\ pc \in {"connecting", "subscribing"}
  /\ EndRead("connection")
  /\ UNCHANGED protocolVersion

-----------------------------------------------------------------------------
\* Requests.  These operators are tails of steps: `rest` is the event loop's
\* queue once the running task has been taken off it.

RequestKey(s, salt) == IF s = "info" THEN LoginKey ELSE salt

\* Mutant: the future of the previous request is not replaced.
IssueRequestReusesReply(s, salt, version, rest) ==
  IF version \notin Packable
  THEN EndRead("struct_error")
  ELSE /\ pc' = "sending" /\ stage' = s
       /\ seqNo' = seqNo + 1
       /\ pending' = pending \cup {seqNo}
       /\ air' = air \cup {[link |-> client, seq |-> seqNo, to |-> 0,
                            code |-> s, key |-> RequestKey(s, salt)]}
       /\ sessionKey' = salt
       /\ ready' = rest
       /\ UNCHANGED <<reads, client, reply, reports, background, collected,
                      outcome, released, links, inbox, answered, pushed, device>>

\* Register a future, hand request s to the radio and suspend on the write;
\* a version that does not fit the header byte raises struct.error instead.
IssueRequest(s, salt, version, rest) ==
  IF version \notin Packable
  THEN EndRead("struct_error")
  ELSE /\ pc' = "sending" /\ stage' = s
       /\ seqNo' = seqNo + 1
       /\ pending' = pending \cup {seqNo}
       /\ reply' = NoFrame
       /\ air' = air \cup {[link |-> client, seq |-> seqNo, to |-> 0,
                            code |-> s, key |-> RequestKey(s, salt)]}
       /\ sessionKey' = salt
       /\ ready' = rest
       /\ UNCHANGED <<reads, client, reports, background, collected, outcome,
                      released, links, inbox, answered, pushed, device>>

\* start_notify() returns: the handshake opens with the information request.
Subscribed ==
  /\ pc = "subscribing"
  /\ IssueRequest("info", sessionKey, protocolVersion, ready)
  /\ UNCHANGED protocolVersion

\* Mutant: the pairing request is issued before the salt is adopted.
DeviceInfoAnsweredLate(f, rest) ==
  /\ stage = "info"
  /\ IF f.body = "malformed"
     THEN EndRead("protocol") /\ UNCHANGED protocolVersion
     ELSE /\ protocolVersion' = device.version
          /\ IF device.fits
             THEN IssueRequest("pair", sessionKey, device.version, rest)
             ELSE EndRead("protocol")

\* The answer to the information request: take its salt and version, and pair
\* unless the credentials take more bytes than a pairing request has.
DeviceInfoAnswered(f, rest) ==
  /\ stage = "info"
  /\ IF f.body = "malformed"
     THEN EndRead("protocol") /\ UNCHANGED protocolVersion
     ELSE /\ protocolVersion' = device.version
          /\ IF device.fits
             THEN IssueRequest("pair", f.link, device.version, rest)
             ELSE EndRead("protocol")

\* The device's verdict on the pairing request.
PairAnswered(f, rest) ==
  /\ stage = "pair"
  /\ CASE f.body = "malformed" -> EndRead("protocol")
       [] f.body = "rejected"  -> EndRead("authentication")
       [] f.body = "ok" ->
            IssueRequest("status", sessionKey, protocolVersion, rest)
  /\ UNCHANGED protocolVersion

\* The status request is acknowledged: whatever is queued is taken at once,
\* then the read waits for more.
StatusAnswered(rest) ==
  /\ stage = "status"
  /\ pc' = "collecting"
  /\ collected' = collected \cup ToSet(reports)
  /\ reports' = <<>> /\ reply' = NoFrame /\ ready' = rest
  /\ UNCHANGED <<stage, reads, client, sessionKey, protocolVersion, seqNo,
                 pending, background, outcome, released, radioVars, device>>

TakeAnswer(f, rest) ==
  \/ DeviceInfoAnswered(f, rest)
  \/ PairAnswered(f, rest)
  \/ StatusAnswered(rest)

\* The last fragment is written.  An answer that came first is taken at once.
RequestWritten ==
  /\ pc = "sending"
  /\ IF reply = NoFrame
     THEN /\ pc' = "waiting"
          /\ UNCHANGED <<stage, reads, sessionVars, protocolVersion, collected,
                         outcome, released, radioVars, device>>
     ELSE TakeAnswer(reply, ready)

\* write_gatt_char() raises BleakError, the one exception of a write that
\* _async_send translates; what else a backend may raise is left out.
WriteFails ==
  /\ pc = "sending"
  /\ EndRead("connection")
  /\ UNCHANGED protocolVersion

\* The reader is woken by the answer and reaches its turn.
AnswerTaken ==
  /\ pc = "waiting" /\ ready # <<>> /\ Head(ready) = Reader
  /\ TakeAnswer(reply, Tail(ready))

-----------------------------------------------------------------------------
\* Timers and cancellation.  A timer that fires after the reader was woken and
\* before its turn wins: the reader resumes with the exception.

\* Mutant: every unanswered request is reported as the handshake's.
ResponseTimesOutAlike ==
  /\ pc = "waiting"
  /\ EndRead("handshake_timeout")
  /\ UNCHANGED protocolVersion

ResponseTimesOut ==
  /\ pc = "waiting"
  /\ EndRead(IF stage = "info" THEN "handshake_timeout" ELSE "connection")
  /\ UNCHANGED protocolVersion

ReportGoesQuiet ==
  /\ pc = "collecting"
  /\ EndRead("ok")
  /\ UNCHANGED protocolVersion

\* Mutant: the deadline does not cover the write.
SessionExpiresBetweenWrites ==
  /\ pc \in Running \ {"sending"}
  /\ EndRead("connection")
  /\ UNCHANGED protocolVersion

SessionExpires ==
  /\ pc \in Running
  /\ EndRead("connection")
  /\ UNCHANGED protocolVersion

CallerCancels ==
  /\ pc \in Running
  /\ EndRead("cancelled")
  /\ UNCHANGED protocolVersion

-----------------------------------------------------------------------------
\* The notification callback.

\* The key a frame announces is at hand and is the one it was encrypted with.
Readable(f) == f.key \in {LoginKey, sessionKey}

\* set_result() wakes the reader only if it is already awaiting the future.
Answer(f) ==
  /\ pending' = pending \ {f.to}
  /\ reply' = f
  /\ ready' = IF pc = "waiting" THEN Append(ready, Reader) ELSE ready
  /\ UNCHANGED <<seqNo, reports, background>>

\* Device-initiated frames that are answered; a report that does not parse,
\* an answer nobody waits for and an unknown code are dropped.
Answerable == {"report", "empty_report", "clock"}

\* A report wakes a reader suspended on the empty queue.
Woken(f) ==
  IF f.code = "report" /\ pc = "collecting" /\ reports = <<>>
  THEN <<Reader>> ELSE <<>>

\* Mutants: the reply does not take a number of its own; the reply is
\* scheduled before the report is queued.
HandleDeviceCommandAs(f, step, woken) ==
  /\ IF f.code \in Answerable
     THEN /\ reports' = IF f.code = "report" THEN Append(reports, Push(f)) ELSE reports
          /\ seqNo' = seqNo + step
          /\ background' = background \cup {[seq |-> seqNo, to |-> f.id, code |-> f.code]}
          /\ ready' = ready \o woken
     ELSE UNCHANGED <<reports, seqNo, background, ready>>
  /\ UNCHANGED <<pending, reply>>

HandleDeviceCommandUnnumbered(f) ==
  HandleDeviceCommandAs(f, 0, Woken(f) \o <<seqNo>>)
HandleDeviceCommandReplyFirst(f) ==
  HandleDeviceCommandAs(f, 1, <<seqNo>> \o Woken(f))

\* Queue what the report holds, then schedule the reply task, numbered from
\* the counter the requests use.
HandleDeviceCommand(f) ==
  /\ IF f.code \in Answerable
     THEN /\ reports' = IF f.code = "report" THEN Append(reports, Push(f)) ELSE reports
          /\ seqNo' = seqNo + 1
          /\ background' = background \cup {[seq |-> seqNo, to |-> f.id, code |-> f.code]}
          /\ ready' = ready \o Woken(f) \o <<seqNo>>
     ELSE UNCHANGED <<reports, seqNo, background, ready>>
  /\ UNCHANGED <<pending, reply>>

Dispatch(f) == IF f.to \in pending THEN Answer(f) ELSE HandleDeviceCommand(f)

FrameArrives(l) ==
  /\ l \in links /\ inbox[l] # <<>>
  /\ IF Readable(Head(inbox[l]))
     THEN Dispatch(Head(inbox[l]))
     ELSE UNCHANGED <<seqNo, pending, reply, reports, background, ready>>
  /\ inbox' = [inbox EXCEPT ![l] = Tail(@)]
  /\ UNCHANGED <<pc, stage, reads, client, sessionKey, protocolVersion, collected,
                 outcome, links, released, air, answered, pushed, device>>

\* The reader runs: it takes everything queued and waits for more.
DrainReports ==
  /\ pc = "collecting" /\ ready # <<>> /\ Head(ready) = Reader
  /\ collected' = collected \cup ToSet(reports)
  /\ reports' = <<>> /\ ready' = Tail(ready)
  /\ UNCHANGED <<pc, stage, reads, client, sessionKey, protocolVersion, seqNo,
                 pending, reply, background, outcome, released, radioVars, device>>

-----------------------------------------------------------------------------
\* The background reply tasks.

\* A reply task starts: it is written under the key of the session it finds,
\* or dropped when there is none.
ReplyStarts(r) ==
  /\ ready # <<>> /\ Head(ready) = r.seq
  /\ ready' = Tail(ready)
  /\ IF client # NoLink /\ sessionKey # NoKey /\ protocolVersion \in Packable
     THEN /\ air' = air \cup {[link |-> client, seq |-> r.seq, to |-> r.to,
                               code |-> r.code, key |-> sessionKey]}
          /\ UNCHANGED background
     ELSE background' = background \ {r} /\ UNCHANGED air
  /\ UNCHANGED <<pc, stage, reads, client, sessionKey, protocolVersion, seqNo,
                 pending, reply, reports, collected, outcome, links, released,
                 inbox, answered, pushed, device>>

\* Its writes return, or raise BleakError: either way the task is over.
ReplyFinishes(r) ==
  /\ r.seq \notin ToSet(ready)
  /\ background' = background \ {r}
  /\ UNCHANGED <<pc, stage, reads, client, sessionKey, protocolVersion, seqNo,
                 pending, reply, reports, ready, collected, outcome, released,
                 radioVars, device>>

-----------------------------------------------------------------------------
\* The device and the radio: not part of the repository, modelled from the
\* peripheral the tests drive and from what the client awaits.

clientVars == <<pc, stage, reads, sessionVars, protocolVersion, collected,
                outcome, released, device>>

\* The device can read the information request if it shares our local key,
\* the later ones if they use the salt it disclosed on that link.
DeviceReads(f) == device.knowsKey /\ f.key = RequestKey(f.code, f.link)

Verdicts(s) == CASE s = "info"   -> {"ok", "malformed"}
                 [] s = "pair"   -> {"ok", "rejected", "malformed"}
                 [] s = "status" -> {"ok"}

DeviceAnswers(f) ==
  /\ f \notin answered /\ f.code \in Stages /\ f.link \in links /\ DeviceReads(f)
  /\ answered' = answered \cup {f}
  /\ \E body \in Verdicts(f.code) :
       inbox' = [inbox EXCEPT ![f.link] = Append(@,
                   [link |-> f.link, key |-> RequestKey(f.code, f.link),
                    code |-> f.code, to |-> f.seq, id |-> 0, body |-> body])]
  /\ UNCHANGED <<clientVars, links, air, pushed>>

\* Once it has disclosed a salt, the device reports and asks for the time.
DevicePushes(l) ==
  /\ l \in links /\ pushed < MaxPushes
  /\ \E f \in answered : f.link = l /\ f.code = "info"
  /\ pushed' = pushed + 1
  /\ \E code \in PushCodes :
       inbox' = [inbox EXCEPT ![l] = Append(@,
                   [link |-> l, key |-> l, code |-> code, to |-> 0,
                    id |-> pushed + 1, body |-> "ok"])]
  /\ UNCHANGED <<clientVars, links, air, answered>>

\* A fragment is lost, and the frame with it.
FrameLost(l) ==
  /\ inbox[l] # <<>>
  /\ inbox' = [inbox EXCEPT ![l] = Tail(@)]
  /\ UNCHANGED <<clientVars, links, air, answered, pushed>>

\* The link goes down; the client is not told.
LinkDrops(l) ==
  /\ l \in links
  /\ links' = links \ {l}
  /\ inbox' = [inbox EXCEPT ![l] = <<>>]
  /\ UNCHANGED <<clientVars, air, answered, pushed>>

-----------------------------------------------------------------------------
Read == \/ StartRead \/ Connected \/ ConnectFails \/ Subscribed
        \/ RequestWritten \/ WriteFails \/ AnswerTaken \/ DrainReports
        \/ ResponseTimesOut \/ ReportGoesQuiet \/ SessionExpires \/ CallerCancels
        \/ Disconnected \/ DisconnectTimesOut \/ DisconnectIsCancelled

ReplyTask == \E r \in background : ReplyStarts(r) \/ ReplyFinishes(r)

Radio == \/ \E f \in air : DeviceAnswers(f)
         \/ \E l \in Links : DevicePushes(l) \/ FrameLost(l) \/ LinkDrops(l)

Next == Read \/ ReplyTask \/ Radio \/ \E l \in Links : FrameArrives(l)

Spec == Init /\ [][Next]_vars

\* asyncio fires the two timers that bound a read; nothing is assumed of the
\* caller, the radio, the device or the shorter timers.
Fairness == WF_vars(SessionExpires) /\ WF_vars(DisconnectTimesOut)

LiveSpec == Spec /\ Fairness

-----------------------------------------------------------------------------
\* What must hold.

DeviceFrames ==
  [link : Links, key : {LoginKey} \cup Links, code : Stages \cup AllPushCodes,
   to : Nat, id : Nat, body : Bodies]
ReaderFrames ==
  [link : Links, seq : Nat \ {0}, to : Nat, code : Stages \cup AllPushCodes,
   key : {LoginKey} \cup Links]
Pushes  == [link : Links, id : Nat]
Replies == [seq : Nat \ {0}, to : Nat, code : AllPushCodes]

\* The values of every variable: in particular no frame of ours is numbered 0,
\* which the protocol reserves for "answers nothing" (client.py:82, 246).
TypeOK ==
  /\ pc \in Awaits /\ stage \in Stages /\ reads \in 0 .. MaxReads
  /\ client \in {NoLink} \cup Links /\ sessionKey \in {NoKey} \cup Links
  /\ protocolVersion \in {DEFAULT_PROTOCOL_VERSION} \cup Versions
  /\ seqNo \in Nat \ {0} /\ pending \subseteq Nat \ {0}
  /\ reply \in {NoFrame} \cup DeviceFrames /\ reports \in Seq(Pushes)
  /\ background \subseteq Replies /\ ready \in Seq(Nat)
  /\ collected \subseteq Pushes /\ outcome \in Outcomes
  /\ links \subseteq Links /\ released \subseteq Links
  /\ inbox \in [Links -> Seq(DeviceFrames)]
  /\ air \subseteq ReaderFrames /\ answered \subseteq ReaderFrames
  /\ pushed \in 0 .. MaxPushes
  /\ device \in Devices

\* From the moment teardown starts until the next read has its link, nothing
\* of a session is left, whatever notifications and tasks run meanwhile
\* (client.py:150-161: every field is reset before the only await).
NothingLeftBehind ==
  pc \in {"idle", "connecting", "disconnecting"} =>
    /\ client = NoLink /\ sessionKey = NoKey /\ seqNo = 1
    /\ pending = {} /\ reply = NoFrame /\ reports = <<>>
    /\ background = {} /\ ready = <<>>

\* Between reads every link that is still up has been handed to disconnect(),
\* whatever step the read failed at (client.py:118-119, 149).
EveryLinkReleased == pc = "idle" => links \subseteq released

\* A read queues and returns only what the device pushed on that read's own
\* link: nothing late from an earlier one (client.py:161, 205-227).
ReportsAreOfThisRead ==
  ~device.lingers => \A p \in collected \cup ToSet(reports) : p.link = reads

\* What a read returns came over its own link even when an earlier disconnect
\* failed and the old link still delivers: a frame of that link can be taken
\* for the new handshake's answer, but the device then reads nothing further.
ResultIsOfThisRead ==
  outcome = "ok" => \A p \in collected : p.link = reads

\* The information request leaves under the login key, and every later frame
\* under the salt disclosed on the link it is written to (client.py:178-196,
\* 250, 376), also when teardown and a new handshake pass in between.
KeysMatchLinks ==
  ~device.lingers => \A f \in air : f.key = IF f.code = "info" THEN LoginKey ELSE f.link

\* No two frames of a link carry the same number, although the read and the
\* notification callback draw from one counter in any order (client.py:279-283).
SequenceNumbersUnique ==
  \A f, g \in air : f.link = g.link /\ f.seq = g.seq => f = g

\* A read that returns has been answered all three requests on its own link,
\* by a device that shares the local key and could be sent the credentials
\* (client.py:170-190, 214, pair.py:25-30).
SuccessIsEarned ==
  outcome = "ok" =>
    /\ device.knowsKey /\ device.fits
    /\ \A s \in Stages : \E f \in answered : f.link = reads /\ f.code = s

\* A read that returns contains every report it started to acknowledge: the
\* device will not send an acknowledged report again.  The reply task is woken
\* after the reader (client.py:336-337), so a report that loses the race with
\* the quiet timer is never acknowledged.
AckedIsReturned ==
  outcome = "ok" =>
    \A f \in air : f.link = reads /\ f.code = "report"
                     => [link |-> f.link, id |-> f.to] \in collected

\* No frame is written to a link already handed to disconnect(), not even by a
\* reply task that was scheduled before (client.py:150-152, 265-268).
NoWriteAfterRelease == [][\A f \in air' \ air : f.link \notin released]_vars

\* Every read ends, whatever the radio does (client.py:108, 165).
ReadEnds == pc # "idle" ~> pc = "idle"

\* The reader implements the promise of ReadContract.
Level ==
  CASE pc \notin Running  -> 0
    [] pc = "collecting"  -> 3
    [] OTHER -> (CASE stage = "info" -> 0 [] stage = "pair" -> 1 [] stage = "status" -> 2)

Contract == INSTANCE ReadContract WITH
  Reports <- [link : Links, id : 0 .. MaxPushes],
  phase   <- IF pc = "idle" THEN "idle"
             ELSE IF pc = "disconnecting" THEN "releasing" ELSE "reading",
  holding <- client # NoLink \/ pc = "disconnecting",
  level   <- Level,
  result  <- collected,
  outcome <- outcome

\* Every behaviour of the client is one the contract allows: a result only from
\* a read that climbed all the steps, an authentication error only from a device
\* that got far enough to reject us, the handshake timeout only before any key
\* was agreed, and no return to the caller while the connection is held.
ImplementsContract == Contract!Spec

\* client.py:193: the client takes "the session parameters the device just
\* disclosed", a per-session salt (models/device_info.py:13).
SessionKeyIsCurrent == sessionKey \in {NoKey, reads}

\* exceptions/tuya_ble_error.py: "every error raised by this SDK derives from"
\* TuyaBleError.
ErrorsAreSdkErrors == outcome # "struct_error"
=============================================================================

---------------------------- MODULE SharedClient ----------------------------
(***************************************************************************)
(* One TuyaBleClient object of client.py with several reads running at     *)
(* once.  Nothing in the class forbids it, and a read keeps everything but *)
(* its own future in the object: the handle, the session key, the number   *)
(* of the next frame and the futures of all reads.                         *)
(*                                                                         *)
(* TuyaBleClient is the same code with one read at a time; this module     *)
(* leaves out what the device pushes (reports, replies) and keeps what two *)
(* reads can do to each other.  A step runs one task from one await to the *)
(* next, and a task whose future is done may be kept waiting longer than   *)
(* the event loop would: the schedules checked include the loop's.  A      *)
(* frame and its answer are one unit each; an answer arrives in the step   *)
(* in which the device gives it, as late as it likes.                      *)
(***************************************************************************)
EXTENDS Integers, FiniteSets

CONSTANTS
  Tasks,      \* the tasks that call async_read_data_points
  MaxReads    \* bound: reads they start in all

ASSUME SharedReadsAssumption == MaxReads \in Nat

VARIABLES
  client,      \* _client: a link or NoLink
  sessionKey,  \* _session_key, named by the link whose salt it derives from
  seqNo,       \* _sequence_number
  pending,     \* _pending: a number and the task whose future it holds
  read,        \* per task: where its read is
  reads,       \* reads started so far; the n-th opens link n
  links,       \* links that are up
  released,    \* links handed to client.disconnect()
  overlaps,    \* pairs of links: the second was opened during the read of the first
  air          \* requests written to links that are up and not yet answered

fields == <<client, sessionKey, seqNo, pending>>
radio  == <<links, air>>
vars   == <<fields, read, reads, links, released, overlaps, air>>

-----------------------------------------------------------------------------
NoLink   == 0
NoKey    == -1
LoginKey == 0
NoAnswer == [code |-> "none", salt |-> NoLink]
Stages   == {"info", "pair", "status"}

\* A read: its await, its request, the link it opened, the number and the state
\* of its future, the link its teardown is closing, and how it ended.
Idle == [at |-> "idle", stage |-> "info", link |-> NoLink, number |-> 0,
         future |-> "none", answer |-> NoAnswer, closing |-> NoLink, outcome |-> "none"]

Running(t) == read[t].at \notin {"idle", "disconnecting"}
Busy(t)    == read[t].at # "idle"

Init ==
  /\ client = NoLink /\ sessionKey = NoKey /\ seqNo = 1 /\ pending = {}
  /\ read = [t \in Tasks |-> Idle] /\ reads = 0
  /\ links = {} /\ released = {} /\ overlaps = {} /\ air = {}

-----------------------------------------------------------------------------
\* Teardown: it resets the fields of the object, not those of its own read.

\* The futures in `pending` are cancelled, whichever read they belong to.
Cancelling(t) ==
  [u \in Tasks |->
     IF u # t /\ read[u].future = "open" /\ \E p \in pending : p.task = u
     THEN [read[u] EXCEPT !.future = "cancelled"] ELSE read[u]]

\* A read that ended, but for the link it still closes.
Ended(t, o, closing) ==
  [Idle EXCEPT !.at = IF closing = NoLink THEN "idle" ELSE "disconnecting",
               !.link = read[t].link, !.closing = closing, !.outcome = o]

\* Mutant: a read without a handle returns before it resets the object.
TearDownOfHandleOnly(t, o) ==
  /\ IF client = NoLink THEN UNCHANGED fields
     ELSE client' = NoLink /\ sessionKey' = NoKey /\ seqNo' = 1 /\ pending' = {}
  /\ released' = released \cup ({client} \ {NoLink})
  /\ read' = [Cancelling(t) EXCEPT ![t] = Ended(t, o, client)]
  /\ UNCHANGED <<reads, overlaps, radio>>

\* Mutant: only a link with a session key is handed over.
TearDownOfKeyedLink(t, o) ==
  /\ client' = NoLink /\ sessionKey' = NoKey /\ seqNo' = 1 /\ pending' = {}
  /\ LET closing == IF sessionKey = NoKey THEN NoLink ELSE client
     IN  /\ released' = released \cup ({closing} \ {NoLink})
         /\ read' = [Cancelling(t) EXCEPT ![t] = Ended(t, o, closing)]
  /\ UNCHANGED <<reads, overlaps, radio>>

\* The read of t ends with outcome o: the link it hands over is the one the
\* object holds at that moment, which another read may have opened.
TearDown(t, o) ==
  /\ client' = NoLink /\ sessionKey' = NoKey /\ seqNo' = 1 /\ pending' = {}
  /\ released' = released \cup ({client} \ {NoLink})
  /\ read' = [Cancelling(t) EXCEPT ![t] = Ended(t, o, client)]
  /\ UNCHANGED <<reads, overlaps, radio>>

\* disconnect() returns, raises or is given up: the link closes.
Disconnected(t) ==
  /\ read[t].at = "disconnecting"
  /\ read' = [read EXCEPT ![t].at = "idle", ![t].closing = NoLink]
  /\ links' = links \ {read[t].closing}
  /\ air' = {f \in air : f.link \in links'}
  /\ UNCHANGED <<fields, reads, released, overlaps>>

-----------------------------------------------------------------------------
\* The read.

StartRead(t) ==
  /\ read[t].at = "idle" /\ reads < MaxReads
  /\ reads' = reads + 1
  /\ read' = [read EXCEPT ![t] = [Idle EXCEPT !.at = "connecting", !.link = reads + 1]]
  /\ overlaps' = overlaps \cup {<<read[u].link, reads + 1>> : u \in {v \in Tasks : Busy(v)}}
                          \cup {<<reads + 1, read[u].link>> : u \in {v \in Tasks : Busy(v)}}
  /\ UNCHANGED <<fields, released, radio>>

\* The handle replaces whatever the object held.
Connected(t) ==
  /\ read[t].at = "connecting"
  /\ client' = read[t].link /\ links' = links \cup {read[t].link}
  /\ read' = [read EXCEPT ![t].at = "subscribing"]
  /\ UNCHANGED <<sessionKey, seqNo, pending, reads, released, overlaps, air>>

\* The future of an ended request is taken out by number, and so may be the one
\* that another read registered under it since.
Unlisted(t) == {p \in pending : p.number # read[t].number}

\* A request takes a number and goes out over the object's handle, under its key
\* of the moment; without a handle or a key it is refused.  `salt` is the key
\* the step leaves in the object.
IssueRequest(t, s, salt) ==
  /\ seqNo' = seqNo + 1 /\ sessionKey' = salt
  /\ IF client = NoLink \/ (s # "info" /\ salt = NoKey)
     THEN /\ read' = [read EXCEPT ![t] = [Idle EXCEPT !.at = "refused", !.link = read[t].link]]
          /\ pending' = {p \in Unlisted(t) : p.number # seqNo}
          /\ UNCHANGED air
     ELSE /\ read' = [read EXCEPT ![t] = [@ EXCEPT !.at = "waiting", !.stage = s, !.number = seqNo,
                                                   !.future = "open", !.answer = NoAnswer]]
          /\ pending' = {p \in Unlisted(t) : p.number # seqNo} \cup {[number |-> seqNo, task |-> t]}
          /\ air' = air \cup {[link |-> client, number |-> seqNo, code |-> s, task |-> t,
                               key |-> IF s = "info" THEN LoginKey ELSE salt]}
  /\ UNCHANGED <<client, reads, links, released, overlaps>>

Subscribed(t) == read[t].at = "subscribing" /\ IssueRequest(t, "info", sessionKey)

\* The write of the request and the wait for its answer are one await here: a
\* write that fails, RESPONSE_TIMEOUT and SESSION_TIMEOUT all end the read.
\* The salt of the information answer is adopted.  An answer of another kind, a
\* malformed one and a refusal to pair end the read as Expires does.
AnswerTaken(t) ==
  /\ read[t].at = "waiting" /\ read[t].future = "answered"
  /\ CASE read[t].stage = "info" ->
            read[t].answer.code = "info" /\ IssueRequest(t, "pair", read[t].answer.salt)
       [] read[t].stage = "pair" -> IssueRequest(t, "status", sessionKey)
       [] read[t].stage = "status" ->
            /\ read' = [read EXCEPT ![t] = [Idle EXCEPT !.at = "collecting", !.link = read[t].link]]
            /\ pending' = Unlisted(t)
            /\ UNCHANGED <<client, sessionKey, seqNo, reads, released, overlaps, radio>>

\* Another read's teardown cancelled the future: CancelledError, which nothing
\* on the way out of the read translates.
FutureCancelled(t) ==
  /\ read[t].at = "waiting" /\ read[t].future = "cancelled"
  /\ TearDown(t, "cancelled")

\* Mutants: the deadline covers the handshake alone; its own cancellation is
\* not translated.
ExpiresAsCancelled(t) == Running(t) /\ TearDown(t, "cancelled")
ExpiresInHandshake(t) == Running(t) /\ read[t].at # "collecting" /\ TearDown(t, "sdk_error")

\* A timer fires, the radio fails, or the request was refused.
Expires(t) == Running(t) /\ TearDown(t, "sdk_error")

GoesQuiet(t) == read[t].at = "collecting" /\ TearDown(t, "ok")

-----------------------------------------------------------------------------
\* The device answers a request it can read, on whatever link it came; the
\* callback gives the answer to the future registered under its number.
DeviceAnswers(f) ==
  /\ f.key = IF f.code = "info" THEN LoginKey ELSE f.link
  /\ air' = air \ {f}
  /\ LET readable == f.key \in {LoginKey, sessionKey}
         takers   == {p \in pending : p.number = f.number}
     IN  IF readable /\ takers # {}
         THEN /\ pending' = pending \ takers
              /\ read' = [t \in Tasks |->
                            IF \E p \in takers : p.task = t
                            THEN [read[t] EXCEPT !.future = "answered",
                                    !.answer = [code |-> f.code, salt |-> f.link]]
                            ELSE read[t]]
         ELSE UNCHANGED <<pending, read>>
  /\ UNCHANGED <<client, sessionKey, seqNo, reads, links, released, overlaps>>

Next ==
  \/ \E t \in Tasks :
       \/ StartRead(t) \/ Connected(t) \/ Subscribed(t) \/ AnswerTaken(t)
       \/ FutureCancelled(t) \/ Expires(t) \/ GoesQuiet(t) \/ Disconnected(t)
  \/ \E f \in air : DeviceAnswers(f)

\* The deadline of each read and the timeout of its disconnect.
Fairness == \A t \in Tasks : WF_vars(Expires(t)) /\ WF_vars(Disconnected(t))

Spec == Init /\ [][Next]_vars /\ Fairness

-----------------------------------------------------------------------------
AllIdle == \A t \in Tasks : ~Busy(t)

\* However the reads overlapped, once none is left the object is as new, so the
\* next read is not hurt: each teardown resets every field, also when another
\* took its handle (client.py:150-163).
IdleObjectIsNew ==
  AllIdle => client = NoLink /\ sessionKey = NoKey /\ seqNo = 1 /\ pending = {}

\* A link is left up by a read only if another read overlapped it: the handle
\* of the first was then replaced, and nobody disconnects it (client.py:132).
LinksAreLostToOverlapOnly ==
  AllIdle => \A l \in links \ released : \E p \in overlaps : p[1] = l

\* A read that nobody cancelled is cancelled only by the teardown of a read that
\* overlapped it, and it was waiting for an answer then (client.py:153-155).
CancelledByOverlapOnly ==
  \A t \in Tasks : read[t].outcome = "cancelled" => \E p \in overlaps : p[1] = read[t].link

\* Every read ends, also one whose handle, key or future another read took.
ReadsEnd == \A t \in Tasks : Busy(t) ~> ~Busy(t)
=============================================================================

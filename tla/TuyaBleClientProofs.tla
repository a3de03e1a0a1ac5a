------------------------ MODULE TuyaBleClientProofs ------------------------
(***************************************************************************)
(* Theorems about TuyaBleClient, for every number of reads and pushes,     *)
(* every device and every choice of the other constants.                   *)
(***************************************************************************)
EXTENDS TuyaBleClient, TLAPS

-----------------------------------------------------------------------------
\* The inductive invariant: what the theorems say, and what their proofs need.

\* The read holds its own link from connecting to teardown, and a link that is
\* up and not held has been released.
LinkInv ==
  /\ pc # "idle" => reads \in Links
  /\ pc \in Running \ {"connecting"} => client = reads
  /\ client \in {NoLink, reads}
  /\ \A l \in links : l \in released \/ l = client
  /\ \A l \in released : l < reads \/ (l = reads /\ pc \in {"idle", "disconnecting"})

\* Nothing can be queued or scheduled before the first request, and past the
\* information request there is a session key.
KeyInv ==
  /\ pc = "subscribing" =>
       /\ sessionKey = NoKey /\ seqNo = 1 /\ pending = {} /\ reply = NoFrame
       /\ reports = <<>> /\ background = {} /\ ready = <<>>
  /\ pc \in {"sending", "waiting", "collecting"} /\ stage # "info"
       => sessionKey \in Links

\* One request is outstanding at most, and until it is answered its future is
\* empty.
PendingInv ==
  \A m, n \in pending : m = n /\ reply = NoFrame

\* A task is queued once, a queued reply was numbered, and the reader is queued
\* only with something to take.
ReadyInv ==
  /\ \A i, j \in DOMAIN ready : ready[i] = ready[j] => i = j
  /\ \A i \in DOMAIN ready : ready[i] < seqNo
  /\ \A i \in DOMAIN ready : ready[i] = Reader =>
       \/ pc = "waiting" /\ reply # NoFrame
       \/ pc = "collecting" /\ reports # <<>>

\* What was written was numbered, and a reply that waits its turn was not.
AirInv ==
  /\ \A f \in air :
       /\ f.link <= reads
       /\ f.link = reads /\ pc \notin {"idle", "disconnecting"}
            => client = reads /\ f.seq < seqNo
       /\ f.link = client => \A i \in DOMAIN ready : f.seq # ready[i]
  /\ SequenceNumbersUnique

\* The login key protects nothing but the answer to the information request.
InboxInv ==
  \A l \in Links : \A i \in DOMAIN inbox[l] :
    inbox[l][i].key = LoginKey => inbox[l][i].code = "info"

IInv == /\ TypeOK /\ NothingLeftBehind /\ LinkInv /\ KeyInv
        /\ PendingInv /\ ReadyInv /\ AirInv /\ InboxInv

-----------------------------------------------------------------------------
\* What a queue holds after one more element is put at its end.
LEMMA AppendFacts ==
  ASSUME NEW S, NEW q \in Seq(S), NEW e \in S
  PROVE  /\ Append(q, e) \in Seq(S) /\ Append(q, e) # <<>>
         /\ Len(Append(q, e)) = Len(q) + 1
         /\ \A i \in DOMAIN Append(q, e) :
              \/ i \in DOMAIN q /\ Append(q, e)[i] = q[i]
              \/ i = Len(q) + 1 /\ i \notin DOMAIN q /\ Append(q, e)[i] = e
<1>1. Append(q, e) \in Seq(S) /\ Len(Append(q, e)) = Len(q) + 1
  OBVIOUS
<1>2. Append(q, e) # <<>>
  <2>1. Len(<<>>) = 0 /\ Len(q) \in Nat
    OBVIOUS
  <2> QED
    BY <1>1, <2>1
<1>3. DOMAIN q = 1 .. Len(q) /\ DOMAIN Append(q, e) = 1 .. (Len(q) + 1) /\ Len(q) \in Nat
  BY <1>1
<1>4. \A i \in DOMAIN Append(q, e) :
        \/ i \in DOMAIN q /\ Append(q, e)[i] = q[i]
        \/ i = Len(q) + 1 /\ i \notin DOMAIN q /\ Append(q, e)[i] = e
  BY <1>3
<1> QED
  BY <1>1, <1>2, <1>4

\* The initial state: every read starts from nothing.
LEMMA InitIInv == Init => IInv
<1> SUFFICES ASSUME Init PROVE IInv
  OBVIOUS
<1>1. TypeOK
  BY MaxReadsAssumption, MaxPushesAssumption
  DEF Init, TypeOK, Awaits, Stages, Outcomes, NoFrame
<1>2. NothingLeftBehind /\ LinkInv /\ KeyInv /\ PendingInv /\ ReadyInv
  BY DEF Init, NothingLeftBehind, LinkInv, KeyInv, PendingInv, ReadyInv, Running
<1>3. AirInv /\ InboxInv
  BY DEF Init, AirInv, InboxInv, SequenceNumbersUnique
<1> QED
  BY <1>1, <1>2, <1>3 DEF IInv

\* Teardown re-establishes the invariant from any running state, whatever the
\* outcome and whatever version was adopted on the way.
LEMMA EndReadIInv ==
  ASSUME IInv, NEW o \in Outcomes, EndRead(o), pc \in Running,
         protocolVersion' \in {DEFAULT_PROTOCOL_VERSION} \cup Versions
  PROVE  IInv'
<1> USE DEF IInv, EndRead, TearDown, radioVars
<1>0. pc' \in {"idle", "disconnecting"}
  OBVIOUS
<1>1. TypeOK'
  <2>1. released' \subseteq Links /\ collected' \subseteq Pushes
    BY DEF TypeOK
  <2> QED
    BY <1>0, <2>1 DEF TypeOK, Awaits, radioVars
<1>2. NothingLeftBehind' /\ KeyInv' /\ PendingInv' /\ ReadyInv' /\ InboxInv'
  BY <1>0 DEF NothingLeftBehind, KeyInv, PendingInv, ReadyInv, InboxInv, Running
<1>3. LinkInv'
  BY <1>0 DEF LinkInv, Running, Awaits, NothingLeftBehind, TypeOK, Links, NoLink
<1>4. AirInv'
  BY <1>0 DEF AirInv, SequenceNumbersUnique
<1> QED
  BY <1>1, <1>2, <1>3, <1>4

\* Issuing a request keeps the invariant: its number is new, its key is there,
\* and the queue the reader leaves behind does not hold the reader.
LEMMA IssueRequestIInv ==
  ASSUME IInv, pc \in {"subscribing", "sending", "waiting"},
         NEW s \in Stages, NEW salt \in {NoKey} \cup Links,
         NEW version \in {DEFAULT_PROTOCOL_VERSION} \cup Versions,
         NEW rest \in Seq(Nat),
         s # "info" => salt \in Links,
         pending = {},
         \A i, j \in DOMAIN rest : rest[i] = rest[j] => i = j,
         \A i \in DOMAIN rest : rest[i] # Reader /\ \E j \in DOMAIN ready : rest[i] = ready[j],
         protocolVersion' = version,
         IssueRequest(s, salt, version, rest)
  PROVE  IInv'
<1>1. CASE version \notin Packable
  <2>1. EndRead("struct_error")
    BY <1>1 DEF IssueRequest
  <2>2. "struct_error" \in Outcomes /\ pc \in Running
    BY DEF Outcomes, Running, Awaits
  <2> QED
    BY <2>1, <2>2, EndReadIInv
<1>2. CASE version \in Packable
  <2> USE <1>2 DEF IInv, IssueRequest
  <2>0. client = reads /\ reads \in Links /\ seqNo \in Nat \ {0} /\ client # NoLink
    BY DEF LinkInv, TypeOK, Running, Awaits, Links, NoLink
  <2>1. TypeOK'
    <3>1. [link |-> client, seq |-> seqNo, to |-> 0, code |-> s,
           key |-> RequestKey(s, salt)] \in ReaderFrames
      BY <2>0 DEF ReaderFrames, RequestKey
    <3>2. air' \subseteq ReaderFrames
      BY <3>1 DEF TypeOK
    <3>3. seqNo' \in Nat \ {0} /\ pending' \subseteq Nat \ {0}
      BY <2>0
    <3> QED
      BY <3>2, <3>3 DEF TypeOK, Awaits
  <2>2. NothingLeftBehind' /\ LinkInv'
    BY <2>0 DEF NothingLeftBehind, LinkInv, Running, Awaits
  <2>3. KeyInv' /\ PendingInv' /\ InboxInv'
    BY DEF KeyInv, PendingInv, InboxInv
  <2>4. ReadyInv'
    <3>1. /\ \A i, j \in DOMAIN rest : rest[i] = rest[j] => i = j
          /\ \A i \in DOMAIN rest : rest[i] # Reader /\ \E j \in DOMAIN ready : rest[i] = ready[j]
          /\ ready' = rest /\ seqNo' = seqNo + 1
      OBVIOUS
    <3>2. ready \in Seq(Nat) /\ \A i \in DOMAIN ready : ready[i] \in Nat /\ ready[i] < seqNo
      BY DEF ReadyInv, TypeOK
    <3> HIDE DEF IInv, IssueRequest
    <3>3. \A i \in DOMAIN rest : rest[i] < seqNo + 1
      BY <2>0, <3>1, <3>2
    <3> QED
      BY <3>1, <3>3 DEF ReadyInv
  <2>5. AirInv'
    <3> DEFINE new == [link |-> client, seq |-> seqNo, to |-> 0,
                       code |-> s, key |-> RequestKey(s, salt)]
    <3>1. air' = air \cup {new}
      OBVIOUS
    <3>2. \A f \in air : f.link = client => f.seq < seqNo
      BY <2>0 DEF AirInv
    <3>3. \A f \in air : f.seq \in Nat \ {0} /\ f.link \in Links
      BY DEF TypeOK, ReaderFrames
    <3>4. SequenceNumbersUnique'
      BY <2>0, <3>1, <3>2, <3>3 DEF AirInv, SequenceNumbersUnique
    <3>5. \A f \in air' : /\ f.link <= reads'
                          /\ f.link = reads' => client' = reads' /\ f.seq < seqNo'
      BY <2>0, <3>1, <3>2, <3>3 DEF AirInv, Links
    <3>6. \A f \in air' : f.link = client' => \A i \in DOMAIN ready' : f.seq # ready'[i]
      BY <2>0, <3>1, <3>2, <3>3 DEF AirInv, ReadyInv
    <3> QED
      BY <3>4, <3>5, <3>6 DEF AirInv
  <2> QED
    BY <2>1, <2>2, <2>3, <2>4, <2>5
<1> QED
  BY <1>1, <1>2

\* What the event loop's queue must look like once the running task left it.
RestOf(rest) ==
  /\ rest \in Seq(Nat)
  /\ \A i, j \in DOMAIN rest : rest[i] = rest[j] => i = j
  /\ \A i \in DOMAIN rest : rest[i] # Reader /\ \E j \in DOMAIN ready : rest[i] = ready[j]

\* Taking the answer to any of the three requests keeps the invariant.
LEMMA TakeAnswerIInv ==
  ASSUME IInv, pc \in {"sending", "waiting"}, reply # NoFrame,
         NEW rest, RestOf(rest), TakeAnswer(reply, rest)
  PROVE  IInv'
<1>0. /\ pending = {} /\ reply \in DeviceFrames /\ reply.link \in Links
      /\ pc \in Running /\ device.version \in Versions
  BY DEF IInv, TypeOK, Devices, PendingInv, DeviceFrames, Running, Awaits
<1>1. CASE DeviceInfoAnswered(reply, rest)
  <2>1. CASE reply.body = "malformed"
    <3>1. /\ EndRead("protocol") /\ "protocol" \in Outcomes
          /\ protocolVersion' \in {DEFAULT_PROTOCOL_VERSION} \cup Versions
      BY <1>1, <2>1 DEF DeviceInfoAnswered, Outcomes, IInv, TypeOK
    <3> QED
      BY <1>0, <3>1, EndReadIInv
  <2>2. CASE reply.body # "malformed" /\ ~device.fits
    <3>1. /\ EndRead("protocol") /\ "protocol" \in Outcomes
          /\ protocolVersion' \in {DEFAULT_PROTOCOL_VERSION} \cup Versions
      BY <1>0, <1>1, <2>2 DEF DeviceInfoAnswered, Outcomes
    <3> QED
      BY <1>0, <3>1, EndReadIInv
  <2>3. CASE reply.body # "malformed" /\ device.fits
    <3>1. /\ IssueRequest("pair", reply.link, device.version, rest)
          /\ protocolVersion' = device.version
      BY <1>1, <2>3 DEF DeviceInfoAnswered
    <3>2. "pair" \in Stages
      BY DEF Stages
    <3> QED
      BY <1>0, <3>1, <3>2, IssueRequestIInv DEF RestOf
  <2> QED
    BY <2>1, <2>2, <2>3
<1>2. CASE PairAnswered(reply, rest)
  <2>0. /\ stage = "pair" /\ protocolVersion' = protocolVersion
        /\ protocolVersion \in {DEFAULT_PROTOCOL_VERSION} \cup Versions
        /\ sessionKey \in Links
    BY <1>2 DEF PairAnswered, IInv, TypeOK, KeyInv
  <2>1. \/ EndRead("protocol") \/ EndRead("authentication")
        \/ IssueRequest("status", sessionKey, protocolVersion, rest)
    <3>1. reply.body \in Bodies
      BY <1>0 DEF DeviceFrames
    <3> QED
      BY <1>2, <3>1 DEF PairAnswered, Bodies
  <2>2. {"protocol", "authentication"} \subseteq Outcomes /\ "status" \in Stages
    BY DEF Outcomes, Stages
  <2>3. CASE EndRead("protocol")
    BY <1>0, <2>0, <2>2, <2>3, EndReadIInv
  <2>4. CASE EndRead("authentication")
    BY <1>0, <2>0, <2>2, <2>4, EndReadIInv
  <2>5. CASE IssueRequest("status", sessionKey, protocolVersion, rest)
    BY <1>0, <2>0, <2>2, <2>5, IssueRequestIInv DEF RestOf
  <2> QED
    BY <2>1, <2>3, <2>4, <2>5
<1>3. CASE StatusAnswered(rest)
  <2> USE <1>3 DEF IInv, StatusAnswered, radioVars
  <2>1. TypeOK'
    <3>1. collected' \subseteq Pushes
      BY DEF TypeOK, ToSet
    <3> QED
      BY <3>1 DEF TypeOK, Awaits, RestOf
  <2>2. NothingLeftBehind' /\ LinkInv' /\ KeyInv' /\ PendingInv' /\ InboxInv'
    BY <1>0 DEF NothingLeftBehind, LinkInv, KeyInv, PendingInv, InboxInv, Running, Awaits
  <2>3. ReadyInv'
    BY DEF ReadyInv, RestOf
  <2>4. AirInv'
    BY DEF AirInv, SequenceNumbersUnique, RestOf
  <2> QED
    BY <2>1, <2>2, <2>3, <2>4
<1> QED
  BY <1>1, <1>2, <1>3 DEF TakeAnswer

\* When the reader's turn comes, it leaves such a queue behind.
LEMMA TailIsRest ==
  ASSUME IInv, ready # <<>>, Head(ready) = Reader
  PROVE  RestOf(Tail(ready))
<1>1. ready \in Seq(Nat) /\ Tail(ready) \in Seq(Nat)
  BY DEF IInv, TypeOK
<1>2. /\ ready[1] = Reader /\ 1 \in DOMAIN ready
      /\ \A i \in DOMAIN Tail(ready) :
           i + 1 \in DOMAIN ready /\ Tail(ready)[i] = ready[i + 1] /\ i \in Nat \ {0}
  BY <1>1
<1> QED
  BY <1>1, <1>2 DEF RestOf, IInv, ReadyInv

\* Every step of the read's own task keeps the invariant.
LEMMA ReadStepIInv == ASSUME IInv, Read PROVE IInv'
<1>0. /\ protocolVersion \in {DEFAULT_PROTOCOL_VERSION} \cup Versions
      /\ outcome \in Outcomes /\ reads \in Nat
  BY DEF IInv, TypeOK
<1>E. ASSUME NEW o \in Outcomes, pc \in Running, EndRead(o), UNCHANGED protocolVersion
      PROVE  IInv'
  BY <1>0, <1>E, EndReadIInv
<1>1. CASE StartRead
  <2> USE <1>0, <1>1 DEF IInv, StartRead, sessionVars, radioVars
  <2>1. TypeOK'
    <3>1. reads' \in 0 .. MaxReads
      BY MaxReadsAssumption DEF TypeOK
    <3>2. pc' \in Awaits /\ stage' \in Stages /\ outcome' \in Outcomes
      BY DEF Awaits, Stages, Outcomes
    <3> QED
      BY <3>1, <3>2 DEF TypeOK
  <2>2. NothingLeftBehind' /\ KeyInv' /\ PendingInv' /\ ReadyInv' /\ InboxInv'
    BY DEF NothingLeftBehind, KeyInv, PendingInv, ReadyInv, InboxInv
  <2>3. LinkInv'
    BY MaxReadsAssumption
    DEF LinkInv, Running, Awaits, TypeOK, NothingLeftBehind, Links
  <2>4. AirInv'
    BY DEF AirInv, SequenceNumbersUnique, NothingLeftBehind, TypeOK, ReaderFrames, Links
  <2> QED
    BY <2>1, <2>2, <2>3, <2>4
<1>2. CASE Connected
  <2> USE <1>0, <1>2 DEF IInv, Connected
  <2>0. reads \in Links /\ client = NoLink
    BY DEF LinkInv, NothingLeftBehind
  <2>1. TypeOK'
    BY <2>0 DEF TypeOK, Awaits
  <2>2. NothingLeftBehind' /\ KeyInv' /\ PendingInv' /\ ReadyInv' /\ InboxInv'
    BY DEF NothingLeftBehind, KeyInv, PendingInv, ReadyInv, InboxInv
  <2>3. LinkInv'
    BY <2>0 DEF LinkInv, Running, Awaits, TypeOK, Links, NoLink
  <2>4. AirInv'
    BY <2>0 DEF AirInv, SequenceNumbersUnique, NothingLeftBehind, TypeOK,
                ReaderFrames, Links, NoLink
  <2> QED
    BY <2>1, <2>2, <2>3, <2>4
<1>3. CASE ConnectFails
  BY <1>3, <1>E DEF ConnectFails, Outcomes, Running, Awaits
<1>4. CASE Subscribed
  <2>1. /\ pc = "subscribing" /\ pending = {} /\ sessionKey = NoKey
        /\ ready = <<>> /\ protocolVersion' = protocolVersion
        /\ IssueRequest("info", sessionKey, protocolVersion, ready)
    BY <1>4 DEF IInv, KeyInv, Subscribed
  <2>2. ready \in Seq(Nat) /\ DOMAIN ready = {} /\ "info" \in Stages
    BY <2>1 DEF Stages
  <2> QED
    BY <1>0, <2>1, <2>2, IssueRequestIInv
<1>5. CASE RequestWritten
  <2>1. CASE reply = NoFrame
    <3> USE <1>5, <2>1 DEF IInv, RequestWritten, sessionVars, radioVars
    <3>1. TypeOK' /\ NothingLeftBehind' /\ KeyInv' /\ PendingInv' /\ InboxInv'
      BY DEF TypeOK, Awaits, NothingLeftBehind, KeyInv, PendingInv, InboxInv
    <3>2. LinkInv' /\ AirInv' /\ ReadyInv'
      BY DEF LinkInv, Running, Awaits, AirInv, SequenceNumbersUnique, ReadyInv
    <3> QED
      BY <3>1, <3>2
  <2>2. CASE reply # NoFrame
    <3>1. RestOf(ready)
      BY <1>5 DEF RestOf, RequestWritten, IInv, TypeOK, ReadyInv
    <3> QED
      BY <1>5, <2>2, <3>1, TakeAnswerIInv DEF RequestWritten
  <2> QED
    BY <2>1, <2>2
<1>6. CASE WriteFails
  BY <1>6, <1>E DEF WriteFails, Outcomes, Running, Awaits
<1>7. CASE AnswerTaken
  <2>1. RestOf(Tail(ready))
    BY <1>7, TailIsRest DEF AnswerTaken
  <2>2. reply # NoFrame
    <3>1. ready \in Seq(Nat) /\ 1 \in DOMAIN ready /\ ready[1] = Reader /\ pc = "waiting"
      BY <1>7 DEF AnswerTaken, IInv, TypeOK
    <3> QED
      BY <3>1 DEF IInv, ReadyInv
  <2> QED
    BY <1>7, <2>1, <2>2, TakeAnswerIInv DEF AnswerTaken
<1>8. CASE DrainReports
  <2> USE <1>8 DEF IInv, DrainReports, radioVars
  <2>0. RestOf(Tail(ready))
    BY TailIsRest
  <2>1. TypeOK'
    <3>1. collected' \subseteq Pushes
      BY DEF TypeOK, ToSet
    <3> QED
      BY <2>0, <3>1 DEF TypeOK, RestOf
  <2>2. NothingLeftBehind' /\ LinkInv' /\ KeyInv' /\ PendingInv' /\ InboxInv'
    BY DEF NothingLeftBehind, LinkInv, KeyInv, PendingInv, InboxInv
  <2>3. ReadyInv' /\ AirInv'
    BY <2>0 DEF ReadyInv, AirInv, SequenceNumbersUnique, RestOf
  <2> QED
    BY <2>1, <2>2, <2>3
<1>9. CASE ResponseTimesOut
  BY <1>9, <1>E DEF ResponseTimesOut, Outcomes, Running, Awaits
<1>10. CASE ReportGoesQuiet
  BY <1>10, <1>E DEF ReportGoesQuiet, Outcomes, Running, Awaits
<1>11. CASE SessionExpires
  BY <1>11, <1>E DEF SessionExpires, Outcomes
<1>12. CASE CallerCancels
  BY <1>12, <1>E DEF CallerCancels, Outcomes
<1>13. CASE Disconnected \/ \E o \in Outcomes : DisconnectFails(o)
  <2> USE <1>13 DEF IInv, Disconnected, DisconnectFails, sessionVars
  <2>0. /\ pc = "disconnecting" /\ pc' = "idle" /\ links' \subseteq links
        /\ UNCHANGED <<stage, reads, sessionVars, protocolVersion, released, air,
                       answered, pushed, device>>
        /\ outcome' \in Outcomes /\ collected' \subseteq collected
        /\ inbox' \in {inbox, [inbox EXCEPT ![reads] = <<>>]}
    BY <1>0
  <2>1. inbox' \in [Links -> Seq(DeviceFrames)] /\ InboxInv'
    <3>1. CASE inbox' = inbox
      BY <3>1 DEF InboxInv, TypeOK
    <3>2. CASE inbox' = [inbox EXCEPT ![reads] = <<>>]
      <4>1. <<>> \in Seq(DeviceFrames) /\ inbox \in [Links -> Seq(DeviceFrames)]
        BY DEF TypeOK
      <4>2. \A l \in Links : inbox'[l] = IF l = reads THEN <<>> ELSE inbox[l]
        BY <3>2, <4>1
      <4> HIDE <1>13
      <4>3. inbox' \in [Links -> Seq(DeviceFrames)]
        BY <3>2, <4>1
      <4> QED
        BY <4>2, <4>3 DEF InboxInv
    <3> QED
      BY <2>0, <3>1, <3>2
  <2> HIDE <1>13 DEF Disconnected, DisconnectFails
  <2>2. TypeOK'
    BY <2>0, <2>1 DEF TypeOK, Awaits
  <2>3. NothingLeftBehind' /\ KeyInv' /\ PendingInv' /\ ReadyInv'
    BY <2>0 DEF NothingLeftBehind, KeyInv, PendingInv, ReadyInv
  <2>4. LinkInv' /\ AirInv'
    BY <2>0 DEF LinkInv, Running, Awaits, AirInv, SequenceNumbersUnique
  <2> QED
    BY <2>1, <2>2, <2>3, <2>4
<1> QED
  <2>1. "cancelled" \in Outcomes
    BY DEF Outcomes
  <2> QED
    BY <1>0, <2>1, <1>1, <1>2, <1>3, <1>4, <1>5, <1>6, <1>7, <1>8, <1>9, <1>10,
       <1>11, <1>12, <1>13
    DEF Read, DisconnectTimesOut, DisconnectIsCancelled

\* So does every step of a background reply task.
LEMMA ReplyStepIInv == ASSUME IInv, ReplyTask PROVE IInv'
<1>1. ASSUME NEW r \in background, ReplyStarts(r) PROVE IInv'
  <2> USE <1>1 DEF IInv, ReplyStarts
  <2>0. /\ ready \in Seq(Nat) /\ Tail(ready) \in Seq(Nat)
        /\ 1 \in DOMAIN ready /\ ready[1] = r.seq
        /\ \A i \in DOMAIN Tail(ready) :
             i \in Nat \ {0} /\ i + 1 \in DOMAIN ready /\ Tail(ready)[i] = ready[i + 1]
    BY DEF TypeOK
  <2>1. /\ r.seq \in Nat \ {0} /\ r.to \in Nat /\ r.code \in AllPushCodes
        /\ r.seq < seqNo
    BY <2>0 DEF TypeOK, Replies, ReadyInv
  <2>2. pc \notin {"idle", "connecting", "subscribing", "disconnecting"}
    BY DEF NothingLeftBehind, KeyInv
  <2>3. NothingLeftBehind' /\ LinkInv' /\ KeyInv' /\ PendingInv' /\ InboxInv'
    BY <2>2 DEF NothingLeftBehind, LinkInv, KeyInv, PendingInv, InboxInv
  <2>4. ReadyInv'
    BY <2>0, <2>1 DEF ReadyInv
  <2>5. CASE air' = air
    <3>1. TypeOK'
      BY <2>0, <2>5 DEF TypeOK
    <3>2. AirInv'
      BY <2>0, <2>5 DEF AirInv, SequenceNumbersUnique
    <3> QED
      BY <2>3, <2>4, <3>1, <3>2
  <2>6. CASE air' # air
    <3> DEFINE new == [link |-> client, seq |-> r.seq, to |-> r.to,
                       code |-> r.code, key |-> sessionKey]
    <3>1. /\ air' = air \cup {new} /\ background' = background
          /\ client # NoLink /\ sessionKey # NoKey
      BY <2>6
    <3>2. client = reads /\ client \in Links /\ sessionKey \in Links
      BY <3>1 DEF LinkInv, TypeOK
    <3>3. new \in ReaderFrames
      BY <2>1, <3>2 DEF ReaderFrames
    <3>4. TypeOK'
      <4>1. air' \subseteq ReaderFrames
        BY <3>1, <3>3 DEF TypeOK
      <4> QED
        BY <2>0, <3>1, <4>1 DEF TypeOK
    <3>5. \A f \in air : f.link = client => f.seq # r.seq
      BY <2>0 DEF AirInv
    <3>6. SequenceNumbersUnique'
      BY <3>1, <3>5 DEF AirInv, SequenceNumbersUnique
    <3>7. \A f \in air' : /\ f.link <= reads'
                          /\ f.link = reads' => client' = reads' /\ f.seq < seqNo'
      BY <2>1, <2>2, <3>1, <3>2 DEF AirInv, TypeOK, Awaits, Links
    <3>8. \A f \in air' : f.link = client' => \A i \in DOMAIN ready' : f.seq # ready'[i]
      <4>1. \A i \in DOMAIN Tail(ready) : Tail(ready)[i] # r.seq
        BY <2>0 DEF ReadyInv
      <4> QED
        BY <2>0, <3>1, <4>1 DEF AirInv
    <3>9. AirInv'
      BY <3>6, <3>7, <3>8 DEF AirInv
    <3> QED
      BY <2>3, <2>4, <3>4, <3>9
  <2> QED
    BY <2>5, <2>6
<1>2. ASSUME NEW r \in background, ReplyFinishes(r) PROVE IInv'
  <2> USE <1>2 DEF IInv, ReplyFinishes, radioVars
  <2>1. TypeOK' /\ NothingLeftBehind' /\ LinkInv' /\ KeyInv'
    BY DEF TypeOK, NothingLeftBehind, LinkInv, KeyInv
  <2>2. PendingInv' /\ ReadyInv' /\ AirInv' /\ InboxInv'
    BY DEF PendingInv, ReadyInv, AirInv, SequenceNumbersUnique, InboxInv
  <2> QED
    BY <2>1, <2>2
<1> QED
  BY <1>1, <1>2 DEF ReplyTask

\* A step of the radio or the device only grows or shortens what travels to
\* the reader, and what it adds under the login key answers the first request.
LEMMA RadioStepIInv == ASSUME IInv, Radio PROVE IInv'
<1>0. inbox \in [Links -> Seq(DeviceFrames)] /\ pushed \in 0 .. MaxPushes /\ pushed \in Nat
  BY DEF IInv, TypeOK
<1>1. ASSUME UNCHANGED <<clientVars, air>>, links' \subseteq links,
             inbox' \in [Links -> Seq(DeviceFrames)], InboxInv',
             answered' \subseteq ReaderFrames, pushed' \in 0 .. MaxPushes
      PROVE  IInv'
  <2> USE <1>1 DEF IInv, clientVars, sessionVars
  <2>1. TypeOK' /\ NothingLeftBehind' /\ LinkInv' /\ KeyInv'
    BY DEF TypeOK, NothingLeftBehind, LinkInv, KeyInv
  <2>2. PendingInv' /\ ReadyInv' /\ AirInv'
    BY DEF PendingInv, ReadyInv, AirInv, SequenceNumbersUnique
  <2> QED
    BY <2>1, <2>2
<1>2. ASSUME NEW l \in Links, NEW f \in DeviceFrames,
             f.key = LoginKey => f.code = "info",
             inbox' = [inbox EXCEPT ![l] = Append(@, f)]
      PROVE  inbox' \in [Links -> Seq(DeviceFrames)] /\ InboxInv'
  <2>1. inbox[l] \in Seq(DeviceFrames) /\ Append(inbox[l], f) \in Seq(DeviceFrames)
    BY <1>0
  <2>2. inbox' \in [Links -> Seq(DeviceFrames)]
    BY <1>0, <1>2, <2>1
  <2>3. \A k \in Links : inbox'[k] = IF k = l THEN Append(inbox[l], f) ELSE inbox[k]
    BY <1>0, <1>2
  <2>4. \A i \in DOMAIN Append(inbox[l], f) :
          \/ i \in DOMAIN inbox[l] /\ Append(inbox[l], f)[i] = inbox[l][i]
          \/ Append(inbox[l], f)[i] = f
    BY <2>1
  <2>5. InboxInv'
    BY <1>2, <2>3, <2>4 DEF IInv, InboxInv
  <2> QED
    BY <2>2, <2>5
<1>3. ASSUME NEW l \in Links, NEW rest \in Seq(DeviceFrames),
             \A i \in DOMAIN rest : \E j \in DOMAIN inbox[l] : rest[i] = inbox[l][j],
             inbox' = [inbox EXCEPT ![l] = rest]
      PROVE  inbox' \in [Links -> Seq(DeviceFrames)] /\ InboxInv'
  <2>1. \A k \in Links : inbox'[k] = IF k = l THEN rest ELSE inbox[k]
    BY <1>0, <1>3
  <2>2. inbox' \in [Links -> Seq(DeviceFrames)]
    BY <1>0, <1>3
  <2>3. InboxInv'
    BY <1>3, <2>1 DEF IInv, InboxInv
  <2> QED
    BY <2>2, <2>3
<1>4. ASSUME NEW f \in air, DeviceAnswers(f) PROVE IInv'
  <2>1. f \in ReaderFrames /\ f.link \in Links /\ f.seq \in Nat /\ f.code \in Stages
    BY <1>4 DEF IInv, TypeOK, ReaderFrames, DeviceAnswers
  <2>2. PICK body \in Verdicts(f.code) :
          inbox' = [inbox EXCEPT ![f.link] = Append(@,
                     [link |-> f.link, key |-> RequestKey(f.code, f.link),
                      code |-> f.code, to |-> f.seq, id |-> 0, body |-> body])]
    BY <1>4 DEF DeviceAnswers
  <2> DEFINE new == [link |-> f.link, key |-> RequestKey(f.code, f.link),
                     code |-> f.code, to |-> f.seq, id |-> 0, body |-> body]
  <2>3. body \in Bodies
    BY <2>1 DEF Verdicts, Bodies, Stages
  <2>4. new \in DeviceFrames /\ (new.key = LoginKey => new.code = "info")
    BY <2>1, <2>3 DEF DeviceFrames, RequestKey, LoginKey, Links
  <2>5. inbox' \in [Links -> Seq(DeviceFrames)] /\ InboxInv'
    BY <1>2, <2>1, <2>2, <2>4
  <2>6. answered' \subseteq ReaderFrames
    BY <1>4, <2>1 DEF DeviceAnswers, IInv, TypeOK
  <2> QED
    BY <1>0, <1>1, <1>4, <2>5, <2>6 DEF DeviceAnswers
<1>5. ASSUME NEW l \in Links, DevicePushes(l) PROVE IInv'
  <2>1. PICK code \in PushCodes :
          inbox' = [inbox EXCEPT ![l] = Append(@,
                     [link |-> l, key |-> l, code |-> code, to |-> 0,
                      id |-> pushed + 1, body |-> "ok"])]
    BY <1>5 DEF DevicePushes
  <2> DEFINE new == [link |-> l, key |-> l, code |-> code, to |-> 0,
                     id |-> pushed + 1, body |-> "ok"]
  <2>2. new \in DeviceFrames /\ new.key # LoginKey
    BY <1>0, PushCodesAssumption DEF DeviceFrames, Bodies, LoginKey, Links
  <2>3. inbox' \in [Links -> Seq(DeviceFrames)] /\ InboxInv'
    BY <1>2, <2>1, <2>2
  <2>4. pushed' \in 0 .. MaxPushes /\ answered' \subseteq ReaderFrames
    BY <1>0, <1>5, MaxPushesAssumption DEF DevicePushes, IInv, TypeOK
  <2> QED
    BY <1>1, <1>5, <2>3, <2>4 DEF DevicePushes
<1>6. ASSUME NEW l \in Links, FrameLost(l) \/ LinkDrops(l) PROVE IInv'
  <2>1. inbox[l] \in Seq(DeviceFrames) /\ <<>> \in Seq(DeviceFrames)
    BY <1>0
  <2>2. CASE FrameLost(l)
    <3>1. /\ Tail(inbox[l]) \in Seq(DeviceFrames)
          /\ \A i \in DOMAIN Tail(inbox[l]) :
               i + 1 \in DOMAIN inbox[l] /\ Tail(inbox[l])[i] = inbox[l][i + 1]
      BY <2>1, <2>2 DEF FrameLost
    <3>2. inbox' \in [Links -> Seq(DeviceFrames)] /\ InboxInv'
      BY <1>3, <2>2, <3>1 DEF FrameLost
    <3> QED
      BY <1>0, <1>1, <2>2, <3>2 DEF FrameLost, IInv, TypeOK
  <2>3. CASE LinkDrops(l)
    <3>1. \A i \in DOMAIN <<>> : \E j \in DOMAIN inbox[l] : <<>>[i] = inbox[l][j]
      OBVIOUS
    <3>2. inbox' = [inbox EXCEPT ![l] = <<>>]
      BY <2>3 DEF LinkDrops
    <3>3. inbox' \in [Links -> Seq(DeviceFrames)] /\ InboxInv'
      BY <1>3, <2>1, <3>1, <3>2
    <3> QED
      BY <1>0, <1>1, <2>3, <3>3 DEF LinkDrops, IInv, TypeOK
  <2> QED
    BY <1>6, <2>2, <2>3
<1> QED
  BY <1>4, <1>5, <1>6 DEF Radio

\* And so does the notification callback, whatever frame arrives and whichever
\* await the read is suspended on.
LEMMA FrameStepIInv ==
  ASSUME IInv, NEW l \in Links, FrameArrives(l)
  PROVE  IInv'
<1> DEFINE f == Head(inbox[l])
<1>0. /\ inbox \in [Links -> Seq(DeviceFrames)]
      /\ inbox[l] \in Seq(DeviceFrames) /\ inbox[l] # <<>>
      /\ f \in DeviceFrames /\ f = inbox[l][1] /\ 1 \in DOMAIN inbox[l]
      /\ ready \in Seq(Nat) /\ reports \in Seq(Pushes) /\ seqNo \in Nat \ {0}
  BY DEF IInv, TypeOK, FrameArrives
<1>1. inbox' \in [Links -> Seq(DeviceFrames)] /\ InboxInv'
  <2>1. /\ Tail(inbox[l]) \in Seq(DeviceFrames)
        /\ \A i \in DOMAIN Tail(inbox[l]) :
             i + 1 \in DOMAIN inbox[l] /\ Tail(inbox[l])[i] = inbox[l][i + 1]
    BY <1>0
  <2>2. inbox' = [inbox EXCEPT ![l] = Tail(inbox[l])]
    BY DEF FrameArrives
  <2>3. \A k \in Links : inbox'[k] = IF k = l THEN Tail(inbox[l]) ELSE inbox[k]
    BY <1>0, <2>2
  <2>4. inbox' \in [Links -> Seq(DeviceFrames)]
    BY <1>0, <2>1, <2>2
  <2>5. ASSUME NEW k \in Links, NEW i \in DOMAIN inbox'[k],
               inbox'[k][i].key = LoginKey
        PROVE  inbox'[k][i].code = "info"
    <3>1. CASE k = l
      <4>1. inbox'[k] = Tail(inbox[l])
        BY <2>3, <3>1
      <4>2. i + 1 \in DOMAIN inbox[l] /\ inbox'[k][i] = inbox[l][i + 1]
        BY <2>1, <2>5, <4>1
      <4> QED
        BY <2>5, <4>2 DEF IInv, InboxInv
    <3>2. CASE k # l
      BY <2>3, <2>5, <3>2 DEF IInv, InboxInv
    <3> QED
      BY <3>1, <3>2
  <2> QED
    BY <2>4, <2>5 DEF InboxInv
<1>2. UNCHANGED <<pc, stage, reads, client, sessionKey, protocolVersion, collected,
                  outcome, links, released, air, answered, pushed, device>>
  BY DEF FrameArrives
<1>D. \/ UNCHANGED <<seqNo, pending, reply, reports, background, ready>>
      \/ f.to \in pending /\ Answer(f)
      \/ Readable(f) /\ f.code \in Answerable /\ HandleDeviceCommand(f)
  BY DEF FrameArrives, Dispatch, HandleDeviceCommand
<1>F. f.key \in {LoginKey} \cup Links /\ (f.key = LoginKey => f.code = "info")
  BY <1>0 DEF DeviceFrames, IInv, InboxInv
<1> HIDE DEF f
<1>3. CASE UNCHANGED <<seqNo, pending, reply, reports, background, ready>>
  <2> USE <1>1, <1>2, <1>3 DEF IInv
  <2>1. TypeOK' /\ NothingLeftBehind' /\ LinkInv' /\ KeyInv'
    BY DEF TypeOK, NothingLeftBehind, LinkInv, KeyInv
  <2>2. PendingInv' /\ ReadyInv' /\ AirInv'
    BY DEF PendingInv, ReadyInv, AirInv, SequenceNumbersUnique
  <2> QED
    BY <2>1, <2>2
<1>4. CASE f.to \in pending /\ Answer(f)
  <2> USE <1>0, <1>1, <1>2, <1>4 DEF IInv, Answer
  <2>1. pending' = {} /\ reply = NoFrame /\ reply' = f
    BY DEF PendingInv
  <2>2. pc \notin {"idle", "connecting", "subscribing", "disconnecting"}
    BY DEF NothingLeftBehind, KeyInv
  <2>3. f # NoFrame
    BY DEF DeviceFrames, NoFrame, Links, NoLink
  <2>4. \/ ready' = ready
        \/ pc = "waiting" /\ ready' = Append(ready, Reader)
    OBVIOUS
  <2>5. ready' \in Seq(Nat)
    BY <2>4 DEF Reader
  <2>6. TypeOK'
    BY <2>1, <2>5 DEF TypeOK
  <2>7. NothingLeftBehind' /\ LinkInv' /\ KeyInv' /\ PendingInv'
    BY <2>1, <2>2 DEF NothingLeftBehind, LinkInv, KeyInv, PendingInv
  <2>8. CASE ready' = ready
    BY <2>1, <2>3, <2>6, <2>7, <2>8 DEF ReadyInv, AirInv, SequenceNumbersUnique
  <2>9. CASE pc = "waiting" /\ ready' = Append(ready, Reader)
    <3>1. \A i \in DOMAIN ready : ready[i] # Reader
      BY <2>1, <2>9 DEF ReadyInv
    <3>2. \A i \in DOMAIN ready' :
            \/ i \in DOMAIN ready /\ ready'[i] = ready[i]
            \/ i = Len(ready) + 1 /\ i \notin DOMAIN ready /\ ready'[i] = Reader
      BY <2>9
    <3>3. ReadyInv'
      BY <2>1, <2>3, <2>9, <3>1, <3>2 DEF ReadyInv, Reader
    <3>4. \A g \in air : g.seq # Reader
      BY DEF TypeOK, ReaderFrames, Reader
    <3>5. AirInv'
      BY <3>2, <3>4 DEF AirInv, SequenceNumbersUnique
    <3> QED
      BY <2>6, <2>7, <3>3, <3>5
  <2> QED
    BY <2>4, <2>8, <2>9
<1>5. CASE Readable(f) /\ f.code \in Answerable /\ HandleDeviceCommand(f)
  <2> DEFINE task == [seq |-> seqNo, to |-> f.id, code |-> f.code]
  <2>1. /\ reports' = IF f.code = "report" THEN Append(reports, Push(f)) ELSE reports
        /\ seqNo' = seqNo + 1 /\ background' = background \cup {task}
        /\ ready' = ready \o Woken(f) \o <<seqNo>>
        /\ pending' = pending /\ reply' = reply
    BY <1>5 DEF HandleDeviceCommand
  <2>2. sessionKey # NoKey /\ f.code \in AllPushCodes
    BY <1>5, <1>F DEF Readable, Answerable, AllPushCodes, Links, NoKey, LoginKey
  <2>3. pc \in {"sending", "waiting", "collecting"}
    BY <2>2 DEF IInv, TypeOK, Awaits, NothingLeftBehind, KeyInv
  <2>4. task \in Replies /\ Push(f) \in Pushes
    BY <1>0, <2>2 DEF Replies, Push, Pushes, DeviceFrames
  <2> HIDE DEF task
  <2>5. Append(reports, Push(f)) \in Seq(Pushes) /\ Append(reports, Push(f)) # <<>>
    <3>1. reports \in Seq(Pushes) /\ Push(f) \in Pushes
      BY <1>0, <2>4
    <3> QED
      BY ONLY <3>1, AppendFacts
  <2>6. seqNo \in Nat /\ seqNo' = seqNo + 1 /\ Reader \in Nat
    BY <1>0, <2>1 DEF Reader
  <2>7. /\ reports' \in Seq(Pushes) /\ (reports # <<>> => reports' # <<>>)
        /\ f.code = "report" => reports' # <<>>
    BY <1>0, <2>1, <2>5
  <2>8. \/ ready' = Append(ready, seqNo)
        \/ /\ pc = "collecting" /\ reports = <<>> /\ reports' # <<>>
           /\ ready' = Append(Append(ready, Reader), seqNo)
    <3>1. ready \o <<>> \o <<seqNo>> = Append(ready, seqNo)
      BY <1>0, <2>6
    <3>2. ready \o <<Reader>> \o <<seqNo>> = Append(Append(ready, Reader), seqNo)
      BY <1>0, <2>6
    <3> QED
      BY <2>1, <2>7, <3>1, <3>2 DEF Woken
  <2>9. Append(ready, Reader) \in Seq(Nat)
    BY <1>0, <2>6, AppendFacts
  <2>10. ready' \in Seq(Nat)
    <3>1. Append(ready, seqNo) \in Seq(Nat)
      BY <1>0, <2>6, AppendFacts
    <3>2. Append(Append(ready, Reader), seqNo) \in Seq(Nat)
      BY <2>6, <2>9, AppendFacts
    <3> QED
      BY <2>8, <3>1, <3>2
  <2>11. TypeOK'
    <3>1. background' \subseteq Replies /\ seqNo' \in Nat \ {0}
      BY <1>0, <2>1, <2>4 DEF IInv, TypeOK
    <3> QED
      BY <1>1, <1>2, <2>1, <2>7, <2>10, <3>1 DEF IInv, TypeOK
  <2>12. NothingLeftBehind' /\ LinkInv' /\ KeyInv' /\ PendingInv'
    BY <1>2, <2>1, <2>3 DEF IInv, NothingLeftBehind, LinkInv, KeyInv, PendingInv
  <2>13. /\ \A i \in DOMAIN ready : ready[i] < seqNo /\ ready[i] \in Nat
         /\ \A i, j \in DOMAIN ready : ready[i] = ready[j] => i = j
         /\ \A g \in air : g.link = client => g.seq < seqNo
         /\ \A g \in air : g.seq \in Nat \ {0}
    BY <1>0, <2>3
    DEF IInv, ReadyInv, AirInv, LinkInv, Running, Awaits, TypeOK, ReaderFrames
  <2>14. CASE ready' = Append(ready, seqNo)
    <3>1. \A i \in DOMAIN ready' :
            \/ i \in DOMAIN ready /\ ready'[i] = ready[i]
            \/ i = Len(ready) + 1 /\ i \notin DOMAIN ready /\ ready'[i] = seqNo
      BY <1>0, <2>6, <2>14, AppendFacts
    <3>2. ReadyInv'
      <4>1. \A i, j \in DOMAIN ready' : ready'[i] = ready'[j] => i = j
        BY <1>0, <2>13, <3>1
      <4>2. \A i \in DOMAIN ready' : ready'[i] < seqNo'
        <5>1. seqNo < seqNo + 1 /\ \A n \in Nat : n < seqNo => n < seqNo + 1
          BY <2>6
        <5> QED
          BY <2>6, <2>13, <3>1, <5>1
      <4>3. \A i \in DOMAIN ready' : ready'[i] = Reader => i \in DOMAIN ready /\ ready[i] = Reader
        BY <1>0, <3>1 DEF Reader
      <4> QED
        BY <1>2, <2>1, <2>7, <4>1, <4>2, <4>3 DEF IInv, ReadyInv
    <3>3. AirInv'
      BY <1>2, <2>1, <2>6, <2>13, <3>1 DEF IInv, AirInv, SequenceNumbersUnique
    <3> QED
      BY <1>1, <2>11, <2>12, <3>2, <3>3 DEF IInv
  <2>15. CASE /\ pc = "collecting" /\ reports = <<>> /\ reports' # <<>>
              /\ ready' = Append(Append(ready, Reader), seqNo)
    <3>0. \A i \in DOMAIN ready : ready[i] # Reader
      BY <2>15 DEF IInv, ReadyInv
    <3>1. \A i \in DOMAIN ready' :
            \/ i \in DOMAIN ready /\ ready'[i] = ready[i]
            \/ i = Len(ready) + 1 /\ ready'[i] = Reader
            \/ i = Len(ready) + 2 /\ ready'[i] = seqNo
      <4>1. Len(Append(ready, Reader)) = Len(ready) + 1 /\ Len(ready) \in Nat
        BY <1>0, <2>6, AppendFacts
      <4>2. \A i \in DOMAIN ready' :
              \/ i \in DOMAIN Append(ready, Reader) /\ ready'[i] = Append(ready, Reader)[i]
              \/ i = Len(ready) + 2 /\ ready'[i] = seqNo
        BY <2>6, <2>9, <2>15, <4>1, AppendFacts
      <4>3. \A i \in DOMAIN Append(ready, Reader) :
              \/ i \in DOMAIN ready /\ Append(ready, Reader)[i] = ready[i]
              \/ i = Len(ready) + 1 /\ Append(ready, Reader)[i] = Reader
        BY <1>0, <2>6, AppendFacts
      <4> QED
        BY <4>2, <4>3
    <3>2. ReadyInv'
      <4>1. \A i, j \in DOMAIN ready' : ready'[i] = ready'[j] => i = j
        BY <1>0, <2>13, <3>0, <3>1 DEF Reader
      <4>2. \A i \in DOMAIN ready' : ready'[i] < seqNo'
        <5>1. 0 < seqNo + 1 /\ seqNo < seqNo + 1 /\ \A n \in Nat : n < seqNo => n < seqNo + 1
          BY <2>6
        <5> QED
          BY <2>6, <2>13, <3>1, <5>1 DEF Reader
      <4> QED
        BY <1>2, <2>15, <4>1, <4>2 DEF ReadyInv
    <3>3. \A g \in air : g.seq # Reader
      BY <2>13 DEF Reader
    <3>4. AirInv'
      BY <1>2, <2>1, <2>6, <2>13, <3>1, <3>3 DEF IInv, AirInv, SequenceNumbersUnique
    <3> QED
      BY <1>1, <2>11, <2>12, <3>2, <3>4 DEF IInv
  <2> QED
    BY <2>8, <2>14, <2>15
<1> QED
  BY <1>3, <1>4, <1>5, <1>D

-----------------------------------------------------------------------------
\* The invariant is inductive.
LEMMA NextIInv == IInv /\ [Next]_vars => IInv'
<1> SUFFICES ASSUME IInv, [Next]_vars PROVE IInv'
  OBVIOUS
<1>1. CASE Next
  BY <1>1, ReadStepIInv, ReplyStepIInv, RadioStepIInv, FrameStepIInv DEF Next
<1>2. CASE UNCHANGED vars
  <2> USE <1>2 DEF IInv, vars, sessionVars, radioVars
  <2>1. TypeOK' /\ NothingLeftBehind' /\ LinkInv' /\ KeyInv'
    BY DEF TypeOK, NothingLeftBehind, LinkInv, KeyInv
  <2>2. PendingInv' /\ ReadyInv' /\ AirInv' /\ InboxInv'
    BY DEF PendingInv, ReadyInv, AirInv, SequenceNumbersUnique, InboxInv
  <2> QED
    BY <2>1, <2>2
<1> QED
  BY <1>1, <1>2

LEMMA SpecIInv == Spec => []IInv
<1> QED
  BY InitIInv, NextIInv, PTL DEF Spec

\* Every variable keeps its type: in particular client.py:279-283 never hands
\* out the number 0, which in a frame means "answers nothing".
THEOREM TypeCorrect == Spec => []TypeOK
<1>1. IInv => TypeOK
  BY DEF IInv
<1> QED
  BY <1>1, SpecIInv, PTL

\* Teardown is complete: whatever arrives, and whatever task runs, between the
\* first line of _async_disconnect and the next read's link (client.py:148-168),
\* no key, number, future, report or reply of the old session is left.
THEOREM TeardownIsComplete == Spec => []NothingLeftBehind
<1>1. IInv => NothingLeftBehind
  BY DEF IInv
<1> QED
  BY <1>1, SpecIInv, PTL

\* Between reads every link that is still up has been handed to disconnect(),
\* whichever step the read ended at (client.py:118-119).
THEOREM LinksAreReleased == Spec => []EveryLinkReleased
<1>1. IInv => EveryLinkReleased
  <2> SUFFICES ASSUME IInv, pc = "idle", NEW l \in links PROVE l \in released
    BY DEF EveryLinkReleased
  <2>1. client = NoLink /\ l \in Links
    BY DEF IInv, NothingLeftBehind, TypeOK
  <2> QED
    BY <2>1 DEF IInv, LinkInv, Links, NoLink
<1> QED
  BY <1>1, SpecIInv, PTL

\* The requests and the replies of a link never share a number, in whatever
\* order the read and the callback take them (client.py:239, 362).
THEOREM NumbersAreUnique == Spec => []SequenceNumbersUnique
<1>1. IInv => SequenceNumbersUnique
  BY DEF IInv, AirInv
<1> QED
  BY <1>1, SpecIInv, PTL

\* What a request puts on the air goes over the link the read holds.
LEMMA IssuedOnClient ==
  ASSUME NEW s, NEW salt, NEW version, NEW rest, IssueRequest(s, salt, version, rest)
  PROVE  \A f \in air' \ air : f.link = client
BY DEF IssueRequest, EndRead, radioVars

\* No write follows the hand-over of its link to disconnect(), by the read or
\* by a reply task scheduled before it (client.py:150-152, 265-268).
THEOREM NothingWrittenAfterRelease == Spec => NoWriteAfterRelease
<1>1. IInv /\ [Next]_vars => [\A f \in air' \ air : f.link \notin released]_vars
  <2> SUFFICES ASSUME IInv, Next, NEW f \in air' \ air PROVE f.link \notin released
    BY DEF vars, radioVars
  <2>1. f.link = client /\ pc \in Running
    <3>1. CASE Read
      <4>1. CASE Subscribed
        BY <4>1, IssuedOnClient DEF Subscribed, Running, Awaits
      <4>2. ASSUME NEW rest, TakeAnswer(reply, rest), pc \in {"sending", "waiting"}
            PROVE  f.link = client /\ pc \in Running
        <5>1. CASE DeviceInfoAnswered(reply, rest)
          BY <4>2, <5>1, IssuedOnClient
          DEF DeviceInfoAnswered, EndRead, radioVars, Running, Awaits
        <5>2. CASE PairAnswered(reply, rest)
          <6>1. reply \in DeviceFrames \/ reply = NoFrame
            BY DEF IInv, TypeOK
          <6>2. reply.body \in Bodies
            BY <6>1 DEF DeviceFrames, NoFrame, Bodies
          <6> QED
            BY <4>2, <5>2, <6>2, IssuedOnClient
            DEF PairAnswered, EndRead, radioVars, Bodies, Running, Awaits
        <5>3. CASE StatusAnswered(rest)
          BY <5>3 DEF StatusAnswered, radioVars
        <5> QED
          BY <4>2, <5>1, <5>2, <5>3 DEF TakeAnswer
      <4>3. CASE RequestWritten
        BY <4>2, <4>3 DEF RequestWritten, radioVars
      <4>4. CASE AnswerTaken
        BY <4>2, <4>4 DEF AnswerTaken
      <4> QED
        BY <3>1, <4>1, <4>3, <4>4
        DEF Read, StartRead, Connected, ConnectFails, WriteFails, DrainReports,
            ResponseTimesOut, ReportGoesQuiet, SessionExpires, CallerCancels,
            Disconnected, DisconnectTimesOut, DisconnectIsCancelled, DisconnectFails,
            EndRead, radioVars
    <3>2. CASE ReplyTask
      BY <3>2 DEF ReplyTask, ReplyStarts, ReplyFinishes, radioVars, IInv,
                  NothingLeftBehind, TypeOK, Running, Awaits
    <3>3. CASE Radio \/ \E l \in Links : FrameArrives(l)
      BY <3>3 DEF Radio, DeviceAnswers, DevicePushes, FrameLost, LinkDrops, FrameArrives
    <3> QED
      BY <3>1, <3>2, <3>3 DEF Next
  <2>2. client = reads /\ reads \in Links /\ pc \notin {"idle", "disconnecting"}
    <3>1. f.link \in Links
      <4>1. IInv'
        BY NextIInv
      <4> QED
        BY <4>1 DEF IInv, TypeOK, ReaderFrames
    <3>2. pc # "connecting"
      BY <2>1, <3>1 DEF IInv, NothingLeftBehind, Links, NoLink
    <3> QED
      BY <2>1, <3>2 DEF IInv, LinkInv, Running, Awaits
  <2> QED
    BY <2>1, <2>2 DEF IInv, LinkInv, Links
<1> QED
  BY <1>1, SpecIInv, PTL DEF Spec, NoWriteAfterRelease

-----------------------------------------------------------------------------
(***************************************************************************)
(* What a read may return, and under which key it writes: theorems that    *)
(* need to know which link, which request and which salt a frame belongs   *)
(* to.  The delicate case is a device whose link outlives a disconnect:    *)
(* the late answer of an old link can be adopted by a new read.            *)
(***************************************************************************)

\* The inductive invariant, beside IInv.

Ids == 0 .. MaxPushes

\* f answers a request made on its link, or is a frame the device sent of its
\* own accord there; either way it is encrypted as that link has it.
FromDevice(f) ==
  \/ /\ f.code \in Stages /\ f.key = RequestKey(f.code, f.link)
     /\ \E g \in answered : g.link = f.link /\ g.seq = f.to /\ g.code = f.code
  \/ /\ f.code \in AllPushCodes /\ f.key = f.link /\ f.to = 0 /\ f.id \in Ids

SentInv ==
  /\ \A l \in Links : \A i \in DOMAIN inbox[l] :
       inbox[l][i].link = l /\ FromDevice(inbox[l][i])
  /\ reply # NoFrame => FromDevice(reply)
  /\ \A i \in DOMAIN reports : reports[i].id \in Ids
  /\ \A p \in collected : p.id \in Ids

\* The device answers only what was written, and only if it shares the key.
AnsweredInv ==
  answered \subseteq air /\ \A g \in answered : device.knowsKey /\ DeviceReads(g)

\* The number 1 is the information request's: replies and later requests come
\* after a session key, and by then the counter is past it.
FirstInv ==
  /\ \A f \in air : f.seq = 1 <=> f.code = "info"
  /\ \A r \in background : r.seq > 1
  /\ pc \in {"sending", "waiting", "collecting"} => seqNo > 1
  /\ \A f \in air : f.code = "report" /\ f.link = reads
       => sessionKey # NoKey \/ pc \in {"idle", "disconnecting"}

\* A salt is disclosed once: from the moment a read uses it, no information
\* answer of that link is on its way to any read.
KeyUsed(l) == sessionKey = l \/ \E g \in air : g.key = l

SaltInv == \A l \in Links :
  /\ \A i, j \in DOMAIN inbox[l] :
       inbox[l][i].code = "info" /\ inbox[l][j].code = "info" => i = j
  /\ (reply.code = "info" /\ reply.link = l) \/ KeyUsed(l)
       => \A i \in DOMAIN inbox[l] : inbox[l][i].code # "info"
  /\ KeyUsed(l) =>
       /\ ~(reply.code = "info" /\ reply.link = l)
       /\ \E g \in answered : g.link = l /\ g.code = "info"

\* Whose number the outstanding request has.
Asked(n) == \E g \in air : g.link = reads /\ g.seq = n /\ g.code = stage

RequestInv ==
  /\ \A n \in pending : pc \in {"sending", "waiting"} /\ Asked(n)
  /\ reply # NoFrame =>
       /\ pc \in {"sending", "waiting"}
       /\ sessionKey = NoKey => reply.code = "info"
       /\ sessionKey # NoKey => reply.link = reads /\ reply.code = stage

StageInv ==
  /\ pc \in Running => outcome = "none"
  /\ pc \in Running \ {"collecting"} => collected = {}
  /\ pc \in {"idle", "disconnecting"} /\ outcome # "ok" => collected = {}
  /\ pc \in {"connecting", "subscribing"} => stage = "info"
  /\ pc \in {"sending", "waiting"} => (stage = "info" <=> sessionKey = NoKey)
  /\ stage # "info" => device.fits
  /\ sessionKey = NoKey => reports = <<>> /\ background = {}

\* A read that adopted another link's salt gets no further: nobody ever made a
\* request under that salt on that link, and the device does not read ours.
StaleInv ==
  sessionKey \notin {NoKey, reads} =>
    /\ stage = "pair" /\ reply = NoFrame /\ pc \in {"sending", "waiting"}
    /\ \A g \in air : ~(g.link = sessionKey /\ g.key = sessionKey)

\* A read under its own link's salt climbs one answered request at a time, and
\* takes only what came over that link.
Answered(s) == \E g \in answered : g.link = reads /\ g.code = s

OwnInv ==
  /\ sessionKey = reads =>
       /\ \A i \in DOMAIN reports : reports[i].link = reads
       /\ stage = "status" => Answered("pair")
  /\ pc = "collecting" =>
       /\ sessionKey = reads /\ stage = "status" /\ Answered("status")
       /\ \A p \in collected : p.link = reads

\* A report whose acknowledgement is written, or may be before the reader runs
\* again, is collected or, until the status answer is taken, queued.
Gathered(id) == [link |-> reads, id |-> id] \in collected
Queued(id)   == \E i \in DOMAIN reports : reports[i] = [link |-> reads, id |-> id]

BehindReader(n) ==
  \E i, j \in DOMAIN ready : i < j /\ ready[i] = Reader /\ ready[j] = n

AckInv ==
  sessionKey = reads =>
    /\ \A f \in air : f.link = reads /\ f.code = "report" =>
         Gathered(f.to) \/ (pc # "collecting" /\ Queued(f.to))
    /\ \A r \in background : r.code = "report" =>
         \/ Gathered(r.to)
         \/ Queued(r.to) /\ (pc = "collecting" => BehindReader(r.seq))
    /\ pc = "collecting" /\ reports # <<>> =>
         \E i \in DOMAIN ready : ready[i] = Reader

ResultInv ==
  outcome = "ok" =>
    /\ pc \in {"idle", "disconnecting"}
    /\ ResultIsOfThisRead /\ SuccessIsEarned /\ AckedIsReturned

\* If no link outlives its disconnect, one link is up at a time, and every key
\* in use is its own.
ClosedInv ==
  ~device.lingers =>
    /\ links \subseteq {reads} /\ (pc \in {"idle", "connecting"} => links = {})
    /\ \A l \in Links : inbox[l] # <<>> => l \in links
    /\ reply # NoFrame => reply.link = reads
    /\ sessionKey \in {NoKey, reads}
    /\ \A p \in collected : p.link = reads
    /\ KeysMatchLinks

SInv == /\ SentInv /\ AnsweredInv /\ FirstInv /\ SaltInv /\ RequestInv /\ StageInv
        /\ StaleInv /\ OwnInv /\ AckInv /\ ResultInv /\ ClosedInv

-----------------------------------------------------------------------------
LEMMA InitSInv == Init => SInv
<1> SUFFICES ASSUME Init PROVE SInv
  OBVIOUS
<1> USE DEF Init
<1>1. SentInv /\ AnsweredInv /\ FirstInv /\ RequestInv
  BY DEF SentInv, AnsweredInv, FirstInv, RequestInv
<1>2. SaltInv
  BY DEF SaltInv, KeyUsed, Links, NoKey, NoFrame
<1>3. StageInv /\ StaleInv /\ OwnInv
  BY DEF StageInv, StaleInv, OwnInv, Running, NoKey
<1>4. AckInv /\ ResultInv /\ ClosedInv
  BY DEF AckInv, ResultInv, ClosedInv, KeysMatchLinks, NoKey
<1> QED
  BY <1>1, <1>2, <1>3, <1>4 DEF SInv

\* What the invariants say of a read under its own salt, put together.
LEMMA OwnRead ==
  ASSUME IInv, SInv, sessionKey = reads
  PROVE  device.knowsKey /\ Answered("info")
<1>1. reads \in Links
  BY DEF IInv, TypeOK, NoKey
<1>2. Answered("info")
  BY <1>1 DEF SInv, SaltInv, KeyUsed, Answered
<1> QED
  BY <1>2 DEF SInv, AnsweredInv, Answered

\* A read that ends forgets its session; one that returns has earned it.
LEMMA EndReadSInv ==
  ASSUME IInv, SInv, NEW o \in Outcomes, EndRead(o), pc \in Running,
         o = "ok" => pc = "collecting"
  PROVE  SInv'
<1>0. /\ pc' \in {"idle", "disconnecting"} /\ sessionKey' = NoKey /\ reply' = NoFrame
      /\ reports' = <<>> /\ background' = {} /\ pending' = {} /\ ready' = <<>>
      /\ UNCHANGED <<stage, reads, links, inbox, air, answered, pushed, device>>
      /\ collected' = (IF o = "ok" THEN collected ELSE {}) /\ outcome' = o
      /\ pc' = "idle" <=> client = NoLink
  BY DEF EndRead, TearDown, radioVars
<1>1. reads \in Nat /\ reads # NoKey /\ NoKey \notin Links /\ NoFrame.code = "none"
  BY DEF IInv, TypeOK, NoKey, Links, NoFrame
<1>2. SentInv' /\ AnsweredInv' /\ FirstInv' /\ RequestInv'
  <2>1. SentInv' /\ RequestInv'
    BY <1>0 DEF SInv, SentInv, FromDevice, RequestInv
  <2>2. AnsweredInv' /\ FirstInv'
    BY <1>0 DEF SInv, AnsweredInv, DeviceReads, FirstInv
  <2> QED
    BY <2>1, <2>2
<1>3. SaltInv'
  BY <1>0, <1>1 DEF SInv, SaltInv, KeyUsed
<1>4. StageInv' /\ StaleInv' /\ OwnInv' /\ AckInv'
  BY <1>0, <1>1 DEF SInv, StageInv, StaleInv, OwnInv, AckInv, Running
<1>5. ResultInv'
  <2> SUFFICES ASSUME o = "ok" PROVE ResultInv'
    BY <1>0 DEF ResultInv
  <2>1. pc = "collecting" /\ sessionKey = reads /\ stage = "status"
    BY DEF SInv, OwnInv
  <2>2. ResultIsOfThisRead'
    BY <1>0, <2>1 DEF ResultIsOfThisRead, SInv, OwnInv
  <2>3. SuccessIsEarned'
    <3>1. device.knowsKey /\ device.fits /\ Answered("info") /\ Answered("pair")
          /\ Answered("status")
      BY <2>1, OwnRead DEF SInv, OwnInv, StageInv
    <3>2. \A s \in Stages : Answered(s)
      BY <3>1 DEF Stages
    <3> QED
      BY <1>0, <3>1, <3>2 DEF SuccessIsEarned, Answered
  <2>4. AckedIsReturned'
    BY <1>0, <2>1 DEF AckedIsReturned, SInv, AckInv, Gathered
  <2> QED
    BY <1>0, <2>2, <2>3, <2>4 DEF ResultInv
<1>6. ClosedInv'
  <2>1. pc' = "idle" => pc = "connecting"
    BY <1>0 DEF IInv, LinkInv, Running, Awaits, Links, NoLink
  <2> QED
    BY <1>0, <2>1 DEF SInv, ClosedInv, KeysMatchLinks
<1> QED
  BY <1>2, <1>3, <1>4, <1>5, <1>6 DEF SInv

\* An answer the reader holds is one to the request it is at, unless it is the
\* information answer, which any link may have given.
LEMMA AnswerHeld ==
  ASSUME IInv, SInv, reply # NoFrame
  PROVE  /\ reply \in DeviceFrames /\ reply.link \in Links /\ pending = {}
         /\ pc \in {"sending", "waiting"} /\ client = reads /\ reads \in Links
         /\ sessionKey = NoKey => stage = "info" /\ reply.code = "info"
         /\ sessionKey # NoKey =>
              /\ sessionKey = reads /\ stage # "info" /\ stage = reply.code
              /\ reply.link = reads
         /\ reply.code \in Stages
         /\ \E g \in answered : g.link = reply.link /\ g.code = reply.code
<1>1. reply \in DeviceFrames /\ reply.link \in Links /\ pending = {}
  BY DEF IInv, TypeOK, PendingInv, DeviceFrames
<1>2. pc \in {"sending", "waiting"}
  BY DEF SInv, RequestInv
<1>3. client = reads /\ reads \in Links
  BY <1>2 DEF IInv, LinkInv, Running, Awaits
<1>4. sessionKey = NoKey => stage = "info" /\ reply.code = "info"
  BY <1>2 DEF SInv, RequestInv, StageInv
<1>5. sessionKey # NoKey =>
        sessionKey = reads /\ stage # "info" /\ stage = reply.code /\ reply.link = reads
  BY <1>2 DEF SInv, RequestInv, StageInv, StaleInv
<1>6. reply.code \in Stages
  BY <1>4, <1>5 DEF IInv, TypeOK, Stages
<1>7. \E g \in answered : g.link = reply.link /\ g.code = reply.code
  BY <1>6 DEF SInv, SentInv, FromDevice, Stages, AllPushCodes
<1> QED
  BY <1>1, <1>2, <1>3, <1>4, <1>5, <1>6, <1>7

\* Each of the three requests is issued in its place: the first with no key,
\* the second under the salt of the answer taken, the third under the same.
Due(s, salt) ==
  \/ s = "info" /\ pc = "subscribing" /\ salt = NoKey
  \/ s = "pair" /\ reply # NoFrame /\ stage = "info" /\ salt = reply.link /\ device.fits
  \/ s = "status" /\ reply # NoFrame /\ stage = "pair" /\ salt = sessionKey

LEMMA IssueRequestSInv ==
  ASSUME IInv, SInv, NEW s, NEW salt, NEW version, NEW rest, Due(s, salt),
         IssueRequest(s, salt, version, rest)
  PROVE  SInv'
<1>0. /\ pc \in {"subscribing", "sending", "waiting"} /\ s \in Stages
      /\ pending = {} /\ client = reads /\ reads \in Links /\ seqNo \in Nat \ {0}
  BY AnswerHeld DEF Due, Stages, IInv, TypeOK, KeyInv, LinkInv, Running, Awaits
<1>1. CASE version \notin Packable
  <2>1. EndRead("struct_error")
    BY <1>1 DEF IssueRequest
  <2>2. "struct_error" \in Outcomes /\ pc \in Running /\ "struct_error" # "ok"
    BY <1>0 DEF Outcomes, Running, Awaits
  <2> QED
    BY <2>1, <2>2, EndReadSInv
<1>2. CASE version \in Packable
  <2> DEFINE new == [link |-> client, seq |-> seqNo, to |-> 0,
                     code |-> s, key |-> RequestKey(s, salt)]
  <2>1. /\ pc' = "sending" /\ stage' = s /\ seqNo' = seqNo + 1 /\ pending' = {seqNo}
        /\ reply' = NoFrame /\ air' = air \cup {new} /\ sessionKey' = salt
        /\ UNCHANGED <<reads, client, reports, background, collected, outcome,
                       released, links, inbox, answered, pushed, device>>
    BY <1>0, <1>2 DEF IssueRequest
  <2>2. /\ new.link = reads /\ new.seq = seqNo /\ new.code = s
        /\ s = "info" => new.key = LoginKey
        /\ s # "info" => new.key = salt
    BY <1>0 DEF RequestKey
  <2> HIDE DEF new
  <2>3. /\ NoKey \notin Links /\ LoginKey \notin Links /\ NoFrame.code = "none"
        /\ NoKey # LoginKey /\ s \notin AllPushCodes
    BY <1>0 DEF NoKey, LoginKey, Links, NoFrame, Stages, AllPushCodes
  <2>4. \/ /\ s = "info" /\ pc = "subscribing" /\ salt = NoKey /\ sessionKey = NoKey
           /\ seqNo = 1 /\ ready = <<>>
        \/ /\ s = "pair" /\ reply # NoFrame /\ reply.code = "info" /\ device.fits
           /\ salt = reply.link /\ salt \in Links /\ sessionKey = NoKey /\ seqNo > 1
        \/ /\ s = "status" /\ salt = sessionKey /\ sessionKey = reads /\ seqNo > 1
           /\ stage = "pair" /\ Answered("pair")
    BY <1>0, AnswerHeld DEF Due, IInv, KeyInv, SInv, FirstInv, StageInv, Answered
  <2>5. SentInv' /\ AnsweredInv'
    BY <2>1 DEF SInv, SentInv, FromDevice, AnsweredInv, DeviceReads
  <2>6. FirstInv'
    BY <1>0, <2>1, <2>2, <2>3, <2>4 DEF SInv, FirstInv, AllPushCodes
  <2>7. SaltInv'
    <3> SUFFICES ASSUME NEW l \in Links
                 PROVE  /\ KeyUsed(l)' => KeyUsed(l) \/ (s = "pair" /\ l = reply.link)
                        /\ s = "pair" =>
                             /\ reply.code = "info"
                             /\ \E g \in answered : g.link = reply.link /\ g.code = "info"
      BY <2>1, <2>3 DEF SInv, SaltInv, KeyUsed
    <3>1. KeyUsed(l)' => KeyUsed(l) \/ (s = "pair" /\ l = reply.link)
      BY <2>1, <2>2, <2>3, <2>4 DEF KeyUsed
    <3>2. s = "pair" => /\ reply.code = "info"
                        /\ \E g \in answered : g.link = reply.link /\ g.code = "info"
      BY <2>4, AnswerHeld
    <3> QED
      BY <3>1, <3>2
  <2>8. RequestInv'
    BY <2>1, <2>2 DEF RequestInv, Asked
  <2>9. StageInv'
    BY <1>0, <2>1, <2>3, <2>4 DEF SInv, StageInv, Running, Awaits
  <2>10. StaleInv'
    BY <1>0, <2>1, <2>2, <2>3, <2>4 DEF SInv, StaleInv, SaltInv, KeyUsed
  <2>11. OwnInv'
    BY <1>0, <2>1, <2>4 DEF SInv, OwnInv, StageInv, Answered
  <2>12. AckInv'
    BY <1>0, <2>1, <2>2, <2>3, <2>4
    DEF SInv, AckInv, FirstInv, StageInv, Gathered, Queued, AllPushCodes
  <2>13. ResultInv'
    BY <1>0, <2>1 DEF SInv, ResultInv, StageInv, Running, Awaits
  <2>14. ClosedInv'
    BY <1>0, <2>1, <2>2, <2>4 DEF SInv, ClosedInv, KeysMatchLinks
  <2> QED
    BY <2>5, <2>6, <2>7, <2>8, <2>9, <2>10, <2>11, <2>12, <2>13, <2>14 DEF SInv
<1> QED
  BY <1>1, <1>2

\* Taking the answer to any of the three requests.
LEMMA TakeAnswerSInv ==
  ASSUME IInv, SInv, reply # NoFrame, NEW rest, TakeAnswer(reply, rest)
  PROVE  SInv'
<1>0. /\ pc \in Running /\ {"protocol", "authentication"} \subseteq Outcomes
      /\ "ok" \notin {"protocol", "authentication"}
  BY AnswerHeld DEF Running, Awaits, Outcomes
<1>1. CASE DeviceInfoAnswered(reply, rest)
  BY <1>0, <1>1, EndReadSInv, IssueRequestSInv DEF DeviceInfoAnswered, Due
<1>2. CASE PairAnswered(reply, rest)
  <2>1. reply.body \in Bodies
    BY AnswerHeld DEF DeviceFrames
  <2> QED
    BY <1>0, <1>2, <2>1, EndReadSInv, IssueRequestSInv DEF PairAnswered, Bodies, Due
<1>3. CASE StatusAnswered(rest)
  <2>0. /\ stage = "status" /\ sessionKey = reads /\ Answered("status")
        /\ pc \in {"sending", "waiting"} /\ collected = {} /\ pending = {}
        /\ reports \in Seq(Pushes) /\ seqNo > 1 /\ NoFrame.code = "none"
        /\ outcome = "none" /\ sessionKey # NoKey
    BY <1>3, AnswerHeld
    DEF StatusAnswered, Answered, SInv, StageInv, FirstInv, Running, Awaits, IInv,
        TypeOK, NoFrame, NoKey
  <2>1. /\ pc' = "collecting" /\ reports' = <<>> /\ reply' = NoFrame
        /\ UNCHANGED <<stage, reads, client, sessionKey, seqNo, pending, background,
                       outcome, links, inbox, air, answered, pushed, device>>
        /\ \A p : p \in collected' <=> \E i \in DOMAIN reports : p = reports[i]
    BY <1>3, <2>0 DEF StatusAnswered, radioVars, ToSet
  <2>2. SentInv' /\ AnsweredInv' /\ FirstInv' /\ RequestInv'
    BY <2>0, <2>1
    DEF SInv, SentInv, FromDevice, AnsweredInv, DeviceReads, FirstInv, RequestInv
  <2>3. SaltInv'
    BY <2>0, <2>1 DEF SInv, SaltInv, KeyUsed
  <2>4. StageInv' /\ StaleInv' /\ ResultInv'
    BY <2>0, <2>1 DEF SInv, StageInv, StaleInv, ResultInv, Running, Awaits
  <2>5. OwnInv' /\ ClosedInv'
    BY <2>0, <2>1 DEF SInv, OwnInv, Answered, ClosedInv, KeysMatchLinks
  <2>6. AckInv'
    BY <2>0, <2>1 DEF SInv, AckInv, Gathered, Queued
  <2> QED
    BY <2>2, <2>3, <2>4, <2>5, <2>6 DEF SInv
<1> QED
  BY <1>1, <1>2, <1>3 DEF TakeAnswer

\* What travels to the reader is shortened from the front, or not at all.
Shortened ==
  \A l \in Links :
    /\ inbox'[l] # <<>> => inbox[l] # <<>>
    /\ \E d \in {0, 1} : \A i \in DOMAIN inbox'[l] :
         i \in Nat /\ i + d \in DOMAIN inbox[l] /\ inbox'[l][i] = inbox[l][i + d]

LEMMA ShortenedInbox ==
  ASSUME IInv
  PROVE  /\ inbox' = inbox => Shortened
         /\ \A l \in Links : inbox' = [inbox EXCEPT ![l] = <<>>] => Shortened
         /\ \A l \in Links : inbox[l] # <<>> /\ inbox' = [inbox EXCEPT ![l] = Tail(@)]
              => Shortened
<1>0. inbox \in [Links -> Seq(DeviceFrames)]
  BY DEF IInv, TypeOK
<1>1. \A l \in Links : \A i \in DOMAIN inbox[l] : i \in Nat /\ i + 0 = i
  BY <1>0
<1>2. inbox' = inbox => Shortened
  BY <1>1 DEF Shortened
<1>3. ASSUME NEW l \in Links, inbox' = [inbox EXCEPT ![l] = <<>>] PROVE Shortened
  <2>1. \A k \in Links : inbox'[k] = IF k = l THEN <<>> ELSE inbox[k]
    BY <1>0, <1>3
  <2> QED
    BY <1>1, <2>1 DEF Shortened
<1>4. ASSUME NEW l \in Links, inbox[l] # <<>>, inbox' = [inbox EXCEPT ![l] = Tail(@)]
      PROVE  Shortened
  <2>1. \A k \in Links : inbox'[k] = IF k = l THEN Tail(inbox[l]) ELSE inbox[k]
    BY <1>0, <1>4
  <2>2. \A i \in DOMAIN Tail(inbox[l]) :
          i \in Nat /\ i + 1 \in DOMAIN inbox[l] /\ Tail(inbox[l])[i] = inbox[l][i + 1]
    BY <1>0, <1>4
  <2> QED
    BY <1>1, <1>4, <2>1, <2>2 DEF Shortened
<1> QED
  BY <1>2, <1>3, <1>4

\* The parts about what travels survive its being shortened.
LEMMA ShortenedSalt ==
  ASSUME IInv, SInv, Shortened, UNCHANGED <<sessionKey, air, answered>>,
         reply'.code # "info" \/ reply' = reply
  PROVE  SaltInv'
<1> SUFFICES ASSUME NEW l \in Links
             PROVE  /\ \A i, j \in DOMAIN inbox'[l] :
                         inbox'[l][i].code = "info" /\ inbox'[l][j].code = "info" => i = j
                    /\ (reply'.code = "info" /\ reply'.link = l) \/ KeyUsed(l)'
                         => \A i \in DOMAIN inbox'[l] : inbox'[l][i].code # "info"
                    /\ KeyUsed(l)' =>
                         /\ ~(reply'.code = "info" /\ reply'.link = l)
                         /\ \E g \in answered' : g.link = l /\ g.code = "info"
  BY DEF SaltInv
<1>1. PICK d \in {0, 1} : \A i \in DOMAIN inbox'[l] :
        i \in Nat /\ i + d \in DOMAIN inbox[l] /\ inbox'[l][i] = inbox[l][i + d]
  BY DEF Shortened
<1>2. KeyUsed(l)' <=> KeyUsed(l)
  BY DEF KeyUsed
<1>3. \A i, j \in DOMAIN inbox'[l] : i + d = j + d => i = j
  BY <1>1
<1> QED
  BY <1>1, <1>2, <1>3 DEF SInv, SaltInv

LEMMA ShortenedSent ==
  ASSUME IInv, SInv, Shortened, UNCHANGED answered,
         reply' # NoFrame => FromDevice(reply'),
         \A i \in DOMAIN reports' : reports'[i].id \in Ids,
         \A p \in collected' : p.id \in Ids
  PROVE  SentInv'
<1>1. \A f : FromDevice(f)' <=> FromDevice(f)
  BY DEF FromDevice
<1>2. \A l \in Links : \A i \in DOMAIN inbox'[l] :
        \E j \in DOMAIN inbox[l] : inbox'[l][i] = inbox[l][j]
  BY DEF Shortened
<1> QED
  BY <1>1, <1>2 DEF SInv, SentInv, FromDevice

\* Every step of the read's own task.
LEMMA ReadStepSInv == ASSUME IInv, SInv, Read PROVE SInv'
<1>0. /\ NoKey \notin Links /\ NoFrame.code = "none" /\ reads \in Nat /\ NoKey # reads
      /\ ready \in Seq(Nat)
  BY DEF IInv, TypeOK, NoKey, Links, NoFrame
<1>E. ASSUME NEW o \in Outcomes, pc \in Running, EndRead(o), o = "ok" => pc = "collecting"
      PROVE  SInv'
  BY <1>E, EndReadSInv
<1>1. CASE StartRead
  <2>1. /\ pc = "idle" /\ sessionKey = NoKey /\ reply = NoFrame /\ reports = <<>>
        /\ background = {} /\ pending = {} /\ ready = <<>>
    BY <1>1 DEF StartRead, IInv, NothingLeftBehind
  <2>2. /\ pc' = "connecting" /\ reads' = reads + 1 /\ stage' = "info"
        /\ outcome' = "none" /\ collected' = {}
        /\ UNCHANGED <<sessionKey, reply, reports, background, pending, seqNo, ready,
                       links, inbox, air, answered, pushed, device>>
    BY <1>1 DEF StartRead, sessionVars, radioVars
  <2>3. \A f \in air : f.link # reads'
    BY <1>0, <2>2 DEF IInv, AirInv, TypeOK, ReaderFrames, Links
  <2>4. SentInv' /\ AnsweredInv' /\ RequestInv' /\ StageInv'
    BY <2>1, <2>2
    DEF SInv, SentInv, FromDevice, AnsweredInv, DeviceReads, RequestInv, StageInv
  <2>5. FirstInv'
    BY <2>1, <2>2, <2>3 DEF SInv, FirstInv
  <2>6. SaltInv'
    BY <2>1, <2>2 DEF SInv, SaltInv, KeyUsed
  <2>7. StaleInv' /\ OwnInv' /\ AckInv' /\ ResultInv' /\ ClosedInv'
    BY <1>0, <2>1, <2>2
    DEF StaleInv, OwnInv, AckInv, ResultInv, SInv, ClosedInv, KeysMatchLinks, NoKey
  <2> QED
    BY <2>4, <2>5, <2>6, <2>7 DEF SInv
<1>2. CASE Connected
  <2>1. sessionKey = NoKey
    BY <1>2 DEF Connected, IInv, NothingLeftBehind
  <2>2. /\ pc = "connecting" /\ pc' = "subscribing" /\ links' = links \cup {reads}
        /\ UNCHANGED <<stage, reads, sessionKey, reply, reports, background, pending,
                       ready, collected, outcome, inbox, air, answered, device>>
    BY <1>2 DEF Connected
  <2>3. SentInv' /\ AnsweredInv' /\ FirstInv' /\ RequestInv' /\ StageInv'
    BY <2>1, <2>2
    DEF SInv, SentInv, FromDevice, AnsweredInv, DeviceReads, FirstInv, RequestInv,
        StageInv, Running, Awaits, Asked
  <2>4. SaltInv'
    BY <2>2 DEF SInv, SaltInv, KeyUsed
  <2>5. StaleInv' /\ OwnInv' /\ AckInv' /\ ResultInv' /\ ClosedInv'
    BY <1>0, <2>1, <2>2
    DEF StaleInv, OwnInv, AckInv, SInv, ResultInv, ClosedInv, KeysMatchLinks
  <2> QED
    BY <2>3, <2>4, <2>5 DEF SInv
<1>3. CASE ConnectFails
  BY <1>3, <1>E DEF ConnectFails, Outcomes, Running, Awaits
<1>4. CASE Subscribed
  BY <1>4, IssueRequestSInv DEF Subscribed, Due, IInv, KeyInv
<1>5. CASE RequestWritten /\ reply = NoFrame
  <2>1. /\ pc = "sending" /\ pc' = "waiting"
        /\ UNCHANGED <<stage, reads, sessionKey, seqNo, reply, reports, background,
                       pending, ready, collected, outcome, links, inbox, air, answered,
                       pushed, device>>
    BY <1>5 DEF RequestWritten, sessionVars, radioVars
  <2>2. SentInv' /\ AnsweredInv' /\ FirstInv' /\ RequestInv' /\ StageInv'
    BY <2>1
    DEF SInv, SentInv, FromDevice, AnsweredInv, DeviceReads, FirstInv, RequestInv,
        StageInv, Running, Awaits, Asked
  <2>3. SaltInv'
    BY <2>1 DEF SInv, SaltInv, KeyUsed
  <2>4. StaleInv' /\ OwnInv' /\ ResultInv' /\ ClosedInv'
    BY <2>1 DEF SInv, StaleInv, OwnInv, Answered, ResultInv, ClosedInv, KeysMatchLinks
  <2>5. AckInv'
    BY <2>1 DEF SInv, AckInv, Gathered, Queued
  <2> QED
    BY <2>2, <2>3, <2>4, <2>5 DEF SInv
<1>6. CASE RequestWritten /\ reply # NoFrame
  BY <1>6, TakeAnswerSInv DEF RequestWritten
<1>7. CASE WriteFails
  BY <1>7, <1>E DEF WriteFails, Outcomes, Running, Awaits
<1>8. CASE AnswerTaken
  <2>1. ready[1] = Reader /\ 1 \in DOMAIN ready /\ pc = "waiting"
    BY <1>0, <1>8 DEF AnswerTaken
  <2>2. reply # NoFrame
    BY <2>1 DEF IInv, ReadyInv
  <2> QED
    BY <1>8, <2>2, TakeAnswerSInv DEF AnswerTaken
<1>9. CASE DrainReports
  <2>1. /\ pc = "collecting" /\ reports' = <<>>
        /\ UNCHANGED <<pc, stage, reads, sessionKey, seqNo, reply, background, pending,
                       outcome, links, inbox, air, answered, pushed, device>>
        /\ \A p : p \in collected' <=> p \in collected \/ \E i \in DOMAIN reports : p = reports[i]
    BY <1>9 DEF DrainReports, radioVars, ToSet
  <2>2. sessionKey = reads /\ outcome = "none"
    BY <2>1 DEF SInv, OwnInv, StageInv, Running, Awaits
  <2>3. SentInv' /\ AnsweredInv' /\ FirstInv' /\ RequestInv' /\ StageInv'
    BY <1>0, <2>1, <2>2
    DEF SInv, SentInv, FromDevice, AnsweredInv, DeviceReads, FirstInv, RequestInv,
        StageInv, Asked, Running
  <2>4. SaltInv'
    BY <2>1 DEF SInv, SaltInv, KeyUsed
  <2>5. StaleInv' /\ OwnInv' /\ ResultInv' /\ ClosedInv'
    BY <2>1, <2>2
    DEF SInv, StaleInv, OwnInv, Answered, ResultInv, ClosedInv, KeysMatchLinks
  <2>6. AckInv'
    BY <2>1, <2>2 DEF SInv, AckInv, Gathered, Queued
  <2> QED
    BY <2>3, <2>4, <2>5, <2>6 DEF SInv
<1>10. CASE ResponseTimesOut
  BY <1>10, <1>E DEF ResponseTimesOut, Outcomes, Running, Awaits
<1>11. CASE ReportGoesQuiet
  BY <1>11, <1>E DEF ReportGoesQuiet, Outcomes, Running, Awaits
<1>12. CASE SessionExpires
  BY <1>12, <1>E DEF SessionExpires, Outcomes
<1>13. CASE CallerCancels
  BY <1>13, <1>E DEF CallerCancels, Outcomes
<1>14. CASE Disconnected \/ DisconnectFails(outcome) \/ DisconnectFails("cancelled")
  <2>1. /\ pc = "disconnecting" /\ pc' = "idle"
        /\ UNCHANGED <<stage, reads, sessionKey, seqNo, reply, reports, background,
                       pending, air, answered, pushed, device>>
        /\ outcome' \in {outcome, "cancelled"} /\ collected' \subseteq collected
        /\ outcome' = "ok" => outcome = "ok" /\ collected' = collected
        /\ outcome' = outcome \/ collected' = {}
        /\ \/ inbox' = inbox /\ device.lingers
           \/ links' = links \ {reads} /\ inbox' = [inbox EXCEPT ![reads] = <<>>]
    BY <1>14 DEF Disconnected, DisconnectFails, sessionVars
  <2>2. Shortened /\ reads \in Links /\ sessionKey = NoKey
    BY <2>1, ShortenedInbox DEF IInv, LinkInv, NothingLeftBehind
  <2>3. SaltInv'
    BY <2>1, <2>2, ShortenedSalt
  <2>4. SentInv'
    <3>1. /\ reply' # NoFrame => FromDevice(reply')
          /\ \A i \in DOMAIN reports' : reports'[i].id \in Ids
          /\ \A p \in collected' : p.id \in Ids
      BY <2>1 DEF SInv, SentInv
    <3> QED
      BY <2>1, <2>2, <3>1, ShortenedSent
  <2>5. AnsweredInv' /\ FirstInv' /\ RequestInv' /\ StageInv'
    BY <2>1
    DEF SInv, AnsweredInv, DeviceReads, FirstInv, RequestInv, StageInv, Running, Awaits, Asked
  <2>6. StaleInv' /\ OwnInv' /\ AckInv'
    BY <1>0, <2>1, <2>2 DEF StaleInv, OwnInv, AckInv
  <2>7. ResultInv'
    BY <2>1 DEF SInv, ResultInv, ResultIsOfThisRead, SuccessIsEarned, AckedIsReturned
  <2>8. ClosedInv'
    <3> SUFFICES ASSUME ~device.lingers PROVE ClosedInv'
      BY <2>1 DEF ClosedInv
    <3>1. inbox \in [Links -> Seq(DeviceFrames)]
      BY DEF IInv, TypeOK
    <3>2. inbox'[reads] = <<>> /\ links' = {}
      BY <2>1, <2>2, <3>1 DEF SInv, ClosedInv
    <3>3. \A l \in Links : inbox'[l] # <<>> => l \in links /\ l # reads
      BY <2>2, <3>2 DEF Shortened, SInv, ClosedInv
    <3>4. \A l \in Links : inbox'[l] = <<>>
      BY <3>3 DEF SInv, ClosedInv
    <3> QED
      BY <2>1, <3>2, <3>4 DEF SInv, ClosedInv, KeysMatchLinks
  <2> QED
    BY <2>3, <2>4, <2>5, <2>6, <2>7, <2>8 DEF SInv
<1> QED
  BY <1>1, <1>2, <1>3, <1>4, <1>5, <1>6, <1>7, <1>8, <1>9, <1>10, <1>11, <1>12,
     <1>13, <1>14
  DEF Read, DisconnectTimesOut, DisconnectIsCancelled

\* A reply task only runs under a session key, and writes an acknowledgement
\* only when the reader cannot be woken by that report any more.
LEMMA ReplyStepSInv == ASSUME IInv, SInv, ReplyTask PROVE SInv'
<1>0. /\ NoKey \notin Links /\ reads \in Nat /\ ready \in Seq(Nat)
      /\ background \subseteq Replies
  BY DEF IInv, TypeOK, NoKey, Links
<1>1. ASSUME NEW r \in background, ReplyStarts(r) PROVE SInv'
  <2>1. /\ ready[1] = r.seq /\ 1 \in DOMAIN ready /\ ready' = Tail(ready)
        /\ r.seq \in Nat \ {0} /\ r.code \in AllPushCodes /\ r.seq > 1
        /\ \A i \in DOMAIN ready : i \in Nat /\ (i > 1 =>
             i - 1 \in DOMAIN Tail(ready) /\ Tail(ready)[i - 1] = ready[i])
    BY <1>0, <1>1 DEF ReplyStarts, Replies, SInv, FirstInv
  <2>2. /\ UNCHANGED <<pc, stage, reads, client, sessionKey, protocolVersion, seqNo,
                       pending, reply, reports, collected, outcome, links, released,
                       inbox, answered, pushed, device>>
        /\ background' \subseteq background
    BY <1>1 DEF ReplyStarts
  <2>3. sessionKey # NoKey /\ sessionKey \in Links
    BY <1>1 DEF SInv, StageInv, IInv, TypeOK
  <2>4. pc \in {"sending", "waiting", "collecting"}
    BY <2>3 DEF IInv, TypeOK, Awaits, NothingLeftBehind, KeyInv
  <2>5. \A n \in Nat : BehindReader(n) /\ n # r.seq => BehindReader(n)'
    <3> SUFFICES ASSUME NEW n \in Nat, NEW i \in DOMAIN ready, NEW j \in DOMAIN ready,
                        i < j, ready[i] = Reader, ready[j] = n
                 PROVE  BehindReader(n)'
      BY DEF BehindReader
    <3>1. i > 1 /\ j > 1 /\ i \in Nat /\ j \in Nat
      <4>1. i \in Nat \ {0} /\ j \in Nat
        BY <1>0
      <4>2. i # 1
        BY <2>1 DEF Reader
      <4> QED
        BY <4>1, <4>2
    <3>2. /\ i - 1 \in DOMAIN ready' /\ j - 1 \in DOMAIN ready' /\ i - 1 < j - 1
          /\ ready'[i - 1] = Reader /\ ready'[j - 1] = n
      BY <2>1, <3>1
    <3> QED
      BY <3>2 DEF BehindReader
  <2>6. ~BehindReader(r.seq)
    <3> SUFFICES ASSUME NEW i \in DOMAIN ready, NEW j \in DOMAIN ready,
                        i < j, ready[i] = Reader, ready[j] = r.seq
                 PROVE  FALSE
      BY DEF BehindReader
    <3>1. j = 1 /\ i \in Nat \ {0}
      BY <1>0, <2>1 DEF IInv, ReadyInv
    <3> QED
      BY <3>1
  <2>7. (\E i \in DOMAIN ready : ready[i] = Reader)
           => \E i \in DOMAIN ready' : ready'[i] = Reader
    <3> SUFFICES ASSUME NEW i \in DOMAIN ready, ready[i] = Reader
                 PROVE  i - 1 \in DOMAIN ready' /\ ready'[i - 1] = Reader
      OBVIOUS
    <3>1. i \in Nat /\ i # 1 /\ i # 0
      BY <1>0, <2>1 DEF Reader
    <3>2. i > 1
      BY <3>1
    <3> QED
      BY <2>1, <3>2
  <2>8. \/ air' = air
        \/ background' = background /\ \E new :
             /\ air' = air \cup {new}
             /\ new.link = reads /\ new.seq = r.seq /\ new.to = r.to
             /\ new.code = r.code /\ new.key = sessionKey
    <3> DEFINE new == [link |-> client, seq |-> r.seq, to |-> r.to,
                       code |-> r.code, key |-> sessionKey]
    <3>1. client \in {NoLink, reads}
      BY DEF IInv, LinkInv
    <3>2. \/ air' = air
          \/ background' = background /\ air' = air \cup {new} /\ client # NoLink
      BY <1>1 DEF ReplyStarts
    <3>3. /\ new.link = client /\ new.seq = r.seq /\ new.to = r.to
          /\ new.code = r.code /\ new.key = sessionKey
      OBVIOUS
    <3> HIDE DEF new
    <3> QED
      BY <3>1, <3>2, <3>3
  <2>9. r.code # "info" /\ r.code \notin Stages
    BY <2>1 DEF AllPushCodes, Stages
  <2>10. SentInv'
    BY <2>2 DEF SInv, SentInv, FromDevice
  <2>11. AnsweredInv' /\ StageInv' /\ ResultInv'
    <3>1. pc \in Running /\ outcome # "ok"
      BY <2>4 DEF Running, Awaits, SInv, StageInv
    <3> QED
      BY <1>0, <2>2, <2>3, <2>8, <3>1
      DEF SInv, AnsweredInv, DeviceReads, StageInv, ResultInv
  <2>12. FirstInv'
    BY <2>1, <2>2, <2>3, <2>8, <2>9 DEF SInv, FirstInv
  <2>13. SaltInv'
    <3>1. \A l \in Links : KeyUsed(l)' <=> KeyUsed(l)
      BY <2>2, <2>8 DEF KeyUsed
    <3> QED
      BY <2>2, <3>1 DEF SInv, SaltInv
  <2>14. RequestInv'
    BY <2>2, <2>8 DEF SInv, RequestInv, Asked
  <2>15. StaleInv' /\ OwnInv'
    BY <2>2, <2>8 DEF SInv, StaleInv, OwnInv, Answered
  <2>16. AckInv'
    <3> SUFFICES ASSUME sessionKey = reads PROVE AckInv'
      BY <2>2 DEF AckInv
    <3>1. \A id : (Gathered(id)' <=> Gathered(id)) /\ (Queued(id)' <=> Queued(id))
      BY <2>2 DEF Gathered, Queued
    <3>2. ASSUME NEW f \in air', f.link = reads, f.code = "report"
          PROVE  Gathered(f.to) \/ (pc # "collecting" /\ Queued(f.to))
      <4>1. CASE f \in air
        BY <3>2, <4>1 DEF SInv, AckInv
      <4>2. CASE f \notin air
        <5>1. f.to = r.to /\ r.code = "report"
          BY <2>8, <3>2, <4>2
        <5> QED
          BY <2>6, <5>1 DEF SInv, AckInv
      <4> QED
        BY <4>1, <4>2
    <3>3. ASSUME NEW q \in background', q.code = "report"
          PROVE  \/ Gathered(q.to)
                 \/ Queued(q.to) /\ (pc = "collecting" => BehindReader(q.seq)')
      <4>1. q \in background /\ q.seq \in Nat
        BY <1>0, <2>2 DEF Replies
      <4> QED
        BY <2>5, <2>6, <3>3, <4>1 DEF SInv, AckInv
    <3>4. pc = "collecting" /\ reports # <<>> => \E i \in DOMAIN ready' : ready'[i] = Reader
      BY <2>7 DEF SInv, AckInv
    <3> QED
      BY <2>2, <3>1, <3>2, <3>3, <3>4 DEF AckInv
  <2>17. ClosedInv'
    BY <2>2, <2>3, <2>8, <2>9 DEF SInv, ClosedInv, KeysMatchLinks
  <2> QED
    BY <2>10, <2>11, <2>12, <2>13, <2>14, <2>15, <2>16, <2>17 DEF SInv
<1>2. ASSUME NEW r \in background, ReplyFinishes(r) PROVE SInv'
  <2>1. /\ background' \subseteq background
        /\ UNCHANGED <<pc, stage, reads, client, sessionKey, seqNo, pending, reply,
                       reports, ready, collected, outcome, links, inbox, air,
                       answered, pushed, device>>
    BY <1>2 DEF ReplyFinishes, radioVars
  <2>2. SentInv' /\ AnsweredInv' /\ FirstInv' /\ RequestInv' /\ StageInv'
    BY <2>1
    DEF SInv, SentInv, FromDevice, AnsweredInv, DeviceReads, FirstInv, RequestInv,
        Asked, StageInv
  <2>3. SaltInv'
    BY <2>1 DEF SInv, SaltInv, KeyUsed
  <2>4. StaleInv' /\ OwnInv' /\ ClosedInv'
    BY <2>1 DEF SInv, StaleInv, OwnInv, Answered, ClosedInv, KeysMatchLinks
  <2>5. AckInv'
    BY <2>1 DEF SInv, AckInv, Gathered, Queued, BehindReader
  <2>6. ResultInv'
    BY <2>1 DEF SInv, ResultInv, ResultIsOfThisRead, SuccessIsEarned, AckedIsReturned
  <2> QED
    BY <2>2, <2>3, <2>4, <2>5, <2>6 DEF SInv
<1> QED
  BY <1>1, <1>2 DEF ReplyTask

\* What the device adds to a link keeps the parts about what travels, if an
\* information answer is the first of its link.
LEMMA AppendedInbox ==
  ASSUME IInv, SInv, NEW l \in Links, NEW new \in DeviceFrames,
         inbox' = [inbox EXCEPT ![l] = Append(@, new)], answered \subseteq answered',
         UNCHANGED <<reply, reports, collected, sessionKey, air>>, new.link = l,
         \/ /\ new.code \in Stages /\ new.key = RequestKey(new.code, l)
            /\ \E g \in answered' : g.link = l /\ g.seq = new.to /\ g.code = new.code
         \/ new.code \in AllPushCodes /\ new.key = l /\ new.to = 0 /\ new.id \in Ids,
         new.code = "info" => ~\E g \in answered : g.link = l /\ g.code = "info"
  PROVE  /\ SentInv' /\ SaltInv'
         /\ \A k \in Links : inbox'[k] # <<>> => inbox[k] # <<>> \/ k = l
<1>0. inbox \in [Links -> Seq(DeviceFrames)] /\ inbox[l] \in Seq(DeviceFrames)
  BY DEF IInv, TypeOK
<1>1. \A k \in Links : inbox'[k] = IF k = l THEN Append(inbox[l], new) ELSE inbox[k]
  BY <1>0
<1>2. \A i \in DOMAIN Append(inbox[l], new) :
        \/ i \in DOMAIN inbox[l] /\ Append(inbox[l], new)[i] = inbox[l][i]
        \/ i = Len(inbox[l]) + 1 /\ Append(inbox[l], new)[i] = new
  BY <1>0, AppendFacts
<1>3. ASSUME NEW k \in Links, NEW i \in DOMAIN inbox'[k]
      PROVE  \/ i \in DOMAIN inbox[k] /\ inbox'[k][i] = inbox[k][i]
             \/ k = l /\ i = Len(inbox[l]) + 1 /\ inbox'[k][i] = new
  <2>1. CASE k = l
    <3>1. inbox'[k] = Append(inbox[l], new)
      BY <1>1, <2>1
    <3> QED
      BY <1>2, <1>3, <2>1, <3>1
  <2>2. CASE k # l
    BY <1>1, <1>3, <2>2
  <2> QED
    BY <2>1, <2>2
<1>4. SentInv'
  <2>1. ASSUME NEW k \in Links, NEW i \in DOMAIN inbox'[k]
        PROVE  /\ inbox'[k][i].link = k
               /\ \/ /\ inbox'[k][i].code \in Stages
                     /\ inbox'[k][i].key = RequestKey(inbox'[k][i].code, inbox'[k][i].link)
                     /\ \E g \in answered' : g.link = inbox'[k][i].link /\ g.seq = inbox'[k][i].to
                                             /\ g.code = inbox'[k][i].code
                  \/ inbox'[k][i].code \in AllPushCodes
                     /\ inbox'[k][i].key = inbox'[k][i].link
                     /\ inbox'[k][i].to = 0 /\ inbox'[k][i].id \in Ids
    <3>1. CASE i \in DOMAIN inbox[k] /\ inbox'[k][i] = inbox[k][i]
      BY <3>1 DEF SInv, SentInv, FromDevice
    <3>2. CASE k = l /\ inbox'[k][i] = new
      BY <3>2
    <3> QED
      BY <1>3, <2>1, <3>1, <3>2
  <2> QED
    BY <2>1 DEF SInv, SentInv, FromDevice
<1>5. SaltInv'
  <2>1. \A k : KeyUsed(k)' <=> KeyUsed(k)
    BY DEF KeyUsed
  <2>2. new.code = "info" =>
          /\ ~KeyUsed(l) /\ \A i \in DOMAIN inbox[l] : inbox[l][i].code # "info"
          /\ ~(reply.code = "info" /\ reply.link = l)
    BY DEF SInv, SaltInv, SentInv, FromDevice, Stages, AllPushCodes, NoFrame
  <2>3. ASSUME NEW k \in Links
        PROVE  /\ \A i, j \in DOMAIN inbox'[k] :
                    inbox'[k][i].code = "info" /\ inbox'[k][j].code = "info" => i = j
               /\ (reply.code = "info" /\ reply.link = k) \/ KeyUsed(k)
                    => \A i \in DOMAIN inbox'[k] : inbox'[k][i].code # "info"
    BY <1>3, <2>2, <2>3 DEF SInv, SaltInv
  <2> QED
    BY <2>1, <2>3 DEF SInv, SaltInv
<1> QED
  BY <1>1, <1>4, <1>5

\* A step of the radio or the device adds one answer or one push to a link, or
\* shortens what travels on it.
LEMMA RadioStepSInv == ASSUME IInv, SInv, Radio PROVE SInv'
<1>0. inbox \in [Links -> Seq(DeviceFrames)] /\ pushed \in 0 .. MaxPushes /\ pushed \in Nat
  BY DEF IInv, TypeOK
<1>1. ASSUME UNCHANGED <<clientVars, air>>, links' \subseteq links,
             answered \subseteq answered', AnsweredInv', SentInv', SaltInv',
             ~device.lingers =>
               /\ pc \in {"idle", "connecting"} => links' = {}
               /\ \A l \in Links : inbox'[l] # <<>> => l \in links'
      PROVE  SInv'
  <2> USE <1>1 DEF SInv, clientVars, sessionVars
  <2>1. FirstInv' /\ RequestInv' /\ StageInv'
    BY DEF FirstInv, RequestInv, Asked, StageInv
  <2>2. StaleInv' /\ OwnInv'
    BY DEF StaleInv, OwnInv, Answered
  <2>3. AckInv'
    BY DEF AckInv, Gathered, Queued, BehindReader
  <2>4. ResultInv'
    BY DEF ResultInv, ResultIsOfThisRead, SuccessIsEarned, AckedIsReturned
  <2>5. ClosedInv'
    BY DEF ClosedInv, KeysMatchLinks
  <2> QED
    BY <2>1, <2>2, <2>3, <2>4, <2>5
<1>3. ASSUME NEW f \in air, DeviceAnswers(f) PROVE SInv'
  <2>1. /\ f \in ReaderFrames /\ f.link \in Links /\ f.seq \in Nat /\ f.code \in Stages
        /\ f \notin answered /\ answered' = answered \cup {f} /\ DeviceReads(f)
        /\ UNCHANGED <<clientVars, links, air, pushed>> /\ f.link \in links
    BY <1>3 DEF IInv, TypeOK, ReaderFrames, DeviceAnswers
  <2>2. PICK new \in DeviceFrames :
          /\ inbox' = [inbox EXCEPT ![f.link] = Append(@, new)]
          /\ new.link = f.link /\ new.code = f.code /\ new.to = f.seq
          /\ new.key = RequestKey(f.code, f.link)
    <3>1. PICK body \in Verdicts(f.code) :
            inbox' = [inbox EXCEPT ![f.link] = Append(@,
                       [link |-> f.link, key |-> RequestKey(f.code, f.link),
                        code |-> f.code, to |-> f.seq, id |-> 0, body |-> body])]
      BY <1>3 DEF DeviceAnswers
    <3>2. body \in Bodies
      BY <2>1 DEF Verdicts, Bodies, Stages
    <3>3. [link |-> f.link, key |-> RequestKey(f.code, f.link), code |-> f.code,
           to |-> f.seq, id |-> 0, body |-> body] \in DeviceFrames
      BY <2>1, <3>2 DEF DeviceFrames, RequestKey, LoginKey
    <3> QED
      BY <3>1, <3>3
  <2>3. UNCHANGED <<reply, reports, collected, sessionKey, device, pc>>
    BY <2>1 DEF clientVars, sessionVars
  <2>4. AnsweredInv'
    BY <2>1, <2>3 DEF SInv, AnsweredInv, DeviceReads
  <2>5. f.code = "info" => ~\E g \in answered : g.link = f.link /\ g.code = "info"
    BY <2>1 DEF SInv, AnsweredInv, FirstInv, IInv, AirInv, SequenceNumbersUnique
  <2>6. /\ SentInv' /\ SaltInv'
        /\ \A k \in Links : inbox'[k] # <<>> => inbox[k] # <<>> \/ k = f.link
    BY <2>1, <2>2, <2>3, <2>5, AppendedInbox
  <2> QED
    BY <1>1, <2>1, <2>4, <2>6 DEF SInv, ClosedInv
<1>4. ASSUME NEW l \in Links, DevicePushes(l) PROVE SInv'
  <2>1. /\ l \in links /\ pushed < MaxPushes
        /\ UNCHANGED <<clientVars, links, air, answered>>
    BY <1>4 DEF DevicePushes
  <2>2. PICK new \in DeviceFrames :
          /\ inbox' = [inbox EXCEPT ![l] = Append(@, new)]
          /\ new.link = l /\ new.code \in AllPushCodes /\ new.key = l /\ new.to = 0
          /\ new.id \in Ids
    <3>1. PICK code \in PushCodes :
            inbox' = [inbox EXCEPT ![l] = Append(@,
                       [link |-> l, key |-> l, code |-> code, to |-> 0,
                        id |-> pushed + 1, body |-> "ok"])]
      BY <1>4 DEF DevicePushes
    <3>2. /\ [link |-> l, key |-> l, code |-> code, to |-> 0,
              id |-> pushed + 1, body |-> "ok"] \in DeviceFrames
          /\ code \in AllPushCodes /\ pushed + 1 \in Ids
      BY <1>0, <2>1, PushCodesAssumption, MaxPushesAssumption DEF DeviceFrames, Bodies, Ids
    <3> QED
      BY <3>1, <3>2
  <2>3. UNCHANGED <<reply, reports, collected, sessionKey, device, pc>>
    BY <2>1 DEF clientVars, sessionVars
  <2>4. AnsweredInv'
    BY <2>1, <2>3 DEF SInv, AnsweredInv, DeviceReads
  <2>5. new.code # "info"
    BY <2>2 DEF AllPushCodes
  <2>6. /\ SentInv' /\ SaltInv'
        /\ \A k \in Links : inbox'[k] # <<>> => inbox[k] # <<>> \/ k = l
    BY <2>1, <2>2, <2>3, <2>5, AppendedInbox
  <2> QED
    BY <1>1, <2>1, <2>4, <2>6 DEF SInv, ClosedInv
<1>5. ASSUME NEW l \in Links, FrameLost(l) \/ LinkDrops(l) PROVE SInv'
  <2>1. /\ UNCHANGED <<clientVars, air, answered, pushed>> /\ links' \subseteq links
        /\ \/ inbox[l] # <<>> /\ inbox' = [inbox EXCEPT ![l] = Tail(@)] /\ links' = links
           \/ inbox' = [inbox EXCEPT ![l] = <<>>] /\ links' = links \ {l}
    BY <1>5 DEF FrameLost, LinkDrops
  <2>2. Shortened
    BY <2>1, ShortenedInbox
  <2>3. UNCHANGED <<reply, reports, collected, sessionKey, device, pc>>
    BY <2>1 DEF clientVars, sessionVars
  <2>4. AnsweredInv'
    BY <2>1, <2>3 DEF SInv, AnsweredInv, DeviceReads
  <2>5. SaltInv'
    BY <2>1, <2>2, <2>3, ShortenedSalt
  <2>6. SentInv'
    <3>1. /\ reply' # NoFrame => FromDevice(reply')
          /\ \A i \in DOMAIN reports' : reports'[i].id \in Ids
          /\ \A p \in collected' : p.id \in Ids
      BY <2>3 DEF SInv, SentInv
    <3> QED
      BY <2>1, <2>2, <3>1, ShortenedSent
  <2>7. ASSUME ~device.lingers
        PROVE  /\ pc \in {"idle", "connecting"} => links' = {}
               /\ \A k \in Links : inbox'[k] # <<>> => k \in links'
    <3>1. CASE links' = links
      BY <2>2, <2>7, <3>1 DEF SInv, ClosedInv, Shortened
    <3>2. CASE inbox' = [inbox EXCEPT ![l] = <<>>] /\ links' = links \ {l}
      <4>1. inbox'[l] = <<>>
        BY <1>0, <3>2
      <4> QED
        BY <2>2, <2>7, <3>2, <4>1 DEF SInv, ClosedInv, Shortened
    <3> QED
      BY <2>1, <3>1, <3>2
  <2> QED
    BY <1>1, <2>1, <2>4, <2>5, <2>6, <2>7
<1> QED
  BY <1>3, <1>4, <1>5 DEF Radio

\* A frame that settles the outstanding request was sent over the read's own
\* link in answer to that very request, unless it answers the first one; and a
\* read under another link's salt is never answered.
LEMMA SettlingFrame ==
  ASSUME IInv, SInv, NEW f, FromDevice(f), Readable(f), f.to \in pending,
         f.key = LoginKey => f.code = "info"
  PROVE  /\ f.code \in Stages
         /\ sessionKey = NoKey => f.code = "info"
         /\ sessionKey # NoKey => sessionKey = reads /\ f.link = reads /\ f.code = stage
<1>1. /\ pc \in {"sending", "waiting"} /\ f.to # 0
      /\ \E h \in air : h.link = reads /\ h.seq = f.to /\ h.code = stage
  BY DEF SInv, RequestInv, Asked, IInv, TypeOK
<1>2. /\ f.code \in Stages /\ f.key = RequestKey(f.code, f.link)
      /\ \E g \in answered : g.link = f.link /\ g.seq = f.to /\ g.code = f.code
  BY <1>1 DEF FromDevice
<1>3. PICK g \in air : /\ g.link = f.link /\ g.seq = f.to /\ g.code = f.code
                       /\ g.key = RequestKey(g.code, g.link)
  BY <1>2 DEF SInv, AnsweredInv, DeviceReads
<1>4. PICK h \in air : h.link = reads /\ h.seq = f.to /\ h.code = stage
  BY <1>1
<1>5. f.code = "info" <=> stage = "info"
  BY <1>3, <1>4 DEF SInv, FirstInv
<1>6. sessionKey = NoKey => f.code = "info"
  BY <1>1, <1>5 DEF SInv, StageInv
<1>7. ASSUME sessionKey # NoKey
      PROVE  sessionKey = reads /\ f.link = reads /\ f.code = stage
  <2>1. f.code # "info" /\ f.key = f.link /\ g.key = f.link /\ f.key # LoginKey
    BY <1>1, <1>2, <1>3, <1>5, <1>7 DEF SInv, StageInv, RequestKey, IInv, TypeOK,
       ReaderFrames, Links, LoginKey
  <2>2. sessionKey = f.link
    BY <2>1 DEF Readable
  <2>3. sessionKey = reads
    BY <1>3, <1>7, <2>1, <2>2 DEF SInv, StaleInv
  <2>4. g = h
    BY <1>3, <1>4, <2>2, <2>3 DEF IInv, AirInv, SequenceNumbersUnique
  <2> QED
    BY <1>3, <1>4, <2>2, <2>3, <2>4
<1> QED
  BY <1>2, <1>6, <1>7

\* The notification callback.
LEMMA FrameStepSInv ==
  ASSUME IInv, SInv, NEW l \in Links, FrameArrives(l)
  PROVE  SInv'
<1> DEFINE f == Head(inbox[l])
<1>0. /\ inbox \in [Links -> Seq(DeviceFrames)]
      /\ inbox[l] \in Seq(DeviceFrames) /\ inbox[l] # <<>> /\ l \in links
      /\ f \in DeviceFrames /\ f = inbox[l][1] /\ 1 \in DOMAIN inbox[l]
      /\ ready \in Seq(Nat) /\ reports \in Seq(Pushes) /\ seqNo \in Nat \ {0}
  BY DEF IInv, TypeOK, FrameArrives
<1>1. /\ inbox' = [inbox EXCEPT ![l] = Tail(@)]
      /\ UNCHANGED <<pc, stage, reads, client, sessionKey, protocolVersion, collected,
                     outcome, links, released, air, answered, pushed, device>>
  BY DEF FrameArrives
<1>2. Shortened
  BY <1>0, <1>1, ShortenedInbox
<1>3. f.link = l /\ FromDevice(f) /\ (f.key = LoginKey => f.code = "info")
  BY <1>0 DEF SInv, SentInv, IInv, InboxInv
<1>D. \/ UNCHANGED <<seqNo, pending, reply, reports, background, ready>>
      \/ Readable(f) /\ f.to \in pending /\ Answer(f)
      \/ Readable(f) /\ f.code \in Answerable /\ HandleDeviceCommand(f)
  BY DEF FrameArrives, Dispatch, HandleDeviceCommand
<1> HIDE DEF f
<1>4. AnsweredInv'
  BY <1>1 DEF SInv, AnsweredInv, DeviceReads
<1>5. ASSUME reply' \in {reply, f}
      PROVE  ClosedInv'
  BY <1>0, <1>1, <1>2, <1>3, <1>5
  DEF SInv, ClosedInv, Shortened, KeysMatchLinks
<1>6. CASE UNCHANGED <<seqNo, pending, reply, reports, background, ready>>
  <2>1. SaltInv'
    BY <1>1, <1>2, <1>6, ShortenedSalt
  <2>2. SentInv'
    BY <1>1, <1>2, <1>6, ShortenedSent DEF SInv, SentInv
  <2>3. FirstInv' /\ RequestInv' /\ StageInv' /\ StaleInv' /\ OwnInv'
    BY <1>1, <1>6
    DEF SInv, FirstInv, RequestInv, Asked, StageInv, StaleInv, OwnInv, Answered
  <2>4. AckInv' /\ ResultInv'
    BY <1>1, <1>6
    DEF SInv, AckInv, Gathered, Queued, BehindReader, ResultInv, ResultIsOfThisRead,
        SuccessIsEarned, AckedIsReturned
  <2> QED
    BY <1>4, <1>5, <1>6, <2>1, <2>2, <2>3, <2>4 DEF SInv
<1>7. CASE Readable(f) /\ f.to \in pending /\ Answer(f)
  <2>1. /\ pending' \subseteq pending /\ reply' = f
        /\ UNCHANGED <<seqNo, reports, background>>
    BY <1>7 DEF Answer
  <2>2. /\ f.code \in Stages
        /\ sessionKey = NoKey => f.code = "info"
        /\ sessionKey # NoKey => sessionKey = reads /\ f.link = reads /\ f.code = stage
    BY <1>3, <1>7, SettlingFrame
  <2>3. pc \in {"sending", "waiting"} /\ outcome = "none"
    BY <1>7 DEF SInv, RequestInv, StageInv, Running, Awaits
  <2>4. SentInv'
    BY <1>1, <1>2, <1>3, <2>1, ShortenedSent DEF SInv, SentInv
  <2>5. SaltInv'
    <3>1. \A k \in Links : KeyUsed(k)' <=> KeyUsed(k)
      BY <1>1 DEF KeyUsed
    <3>2. f.code = "info" => ~KeyUsed(l)
      BY <1>0 DEF SInv, SaltInv
    <3>3. f.code = "info" => \A i \in DOMAIN inbox'[l] : inbox'[l][i].code # "info"
      <4> SUFFICES ASSUME f.code = "info", NEW i \in DOMAIN inbox'[l],
                          inbox'[l][i].code = "info"
                   PROVE  FALSE
        OBVIOUS
      <4>1. inbox'[l] = Tail(inbox[l])
        BY <1>0, <1>1
      <4>2. i \in Nat \ {0} /\ i + 1 \in DOMAIN inbox[l] /\ inbox'[l][i] = inbox[l][i + 1]
        BY <1>0, <4>1
      <4>3. i + 1 = 1
        BY <1>0, <4>2 DEF SInv, SaltInv
      <4> QED
        BY <4>2, <4>3
    <3>4. ASSUME NEW k \in Links
          PROVE  /\ \A i, j \in DOMAIN inbox'[k] :
                      inbox'[k][i].code = "info" /\ inbox'[k][j].code = "info" => i = j
                 /\ KeyUsed(k) => /\ \A i \in DOMAIN inbox'[k] : inbox'[k][i].code # "info"
                                  /\ \E g \in answered : g.link = k /\ g.code = "info"
      <4>1. PICK d \in {0, 1} : \A i \in DOMAIN inbox'[k] :
              i \in Nat /\ i + d \in DOMAIN inbox[k] /\ inbox'[k][i] = inbox[k][i + d]
        BY <1>2 DEF Shortened
      <4>2. \A i, j \in DOMAIN inbox'[k] : i + d = j + d => i = j
        BY <4>1
      <4> QED
        BY <4>1, <4>2 DEF SInv, SaltInv
    <3> QED
      BY <1>1, <1>3, <2>1, <3>1, <3>2, <3>3, <3>4 DEF SaltInv
  <2>6. FirstInv' /\ StageInv'
    BY <1>1, <2>1 DEF SInv, FirstInv, StageInv
  <2>7. RequestInv'
    BY <1>1, <2>1, <2>2, <2>3 DEF SInv, RequestInv, Asked
  <2>8. StaleInv' /\ OwnInv'
    BY <1>1, <2>1, <2>2 DEF SInv, StaleInv, OwnInv, Answered
  <2>9. AckInv' /\ ResultInv'
    BY <1>1, <2>1, <2>3 DEF SInv, AckInv, Gathered, Queued, ResultInv
  <2> QED
    BY <1>4, <1>5, <2>1, <2>4, <2>5, <2>6, <2>7, <2>8, <2>9 DEF SInv
<1>8. CASE Readable(f) /\ f.code \in Answerable /\ HandleDeviceCommand(f)
  <2> DEFINE task == [seq |-> seqNo, to |-> f.id, code |-> f.code]
  <2>1. /\ reports' = IF f.code = "report" THEN Append(reports, Push(f)) ELSE reports
        /\ seqNo' = seqNo + 1 /\ background' = background \cup {task}
        /\ ready' = ready \o Woken(f) \o <<seqNo>>
        /\ pending' = pending /\ reply' = reply
    BY <1>8 DEF HandleDeviceCommand
  <2>2. task.seq = seqNo /\ task.to = f.id /\ task.code = f.code
    OBVIOUS
  <2> HIDE DEF task
  <2>3. /\ f.code \in AllPushCodes /\ f.key = l /\ f.id \in Ids /\ sessionKey = l
        /\ sessionKey # NoKey
    BY <1>3, <1>8 DEF Answerable, FromDevice, Stages, Readable, Links, LoginKey, NoKey
  <2>4. pc \in {"sending", "waiting", "collecting"} /\ outcome = "none" /\ seqNo > 1
    <3>1. pc \in {"sending", "waiting", "collecting"}
      BY <2>3 DEF IInv, TypeOK, Awaits, NothingLeftBehind, KeyInv
    <3> QED
      BY <3>1 DEF SInv, StageInv, FirstInv, Running, Awaits
  <2>5. Push(f) \in Pushes /\ Push(f).link = l /\ Push(f).id = f.id
    BY <1>0, <1>3 DEF Push, Pushes, DeviceFrames
  <2>6. /\ \A i \in DOMAIN reports' :
             \/ i \in DOMAIN reports /\ reports'[i] = reports[i]
             \/ f.code = "report" /\ reports'[i] = Push(f)
        /\ \A i \in DOMAIN reports : i \in DOMAIN reports' /\ reports'[i] = reports[i]
        /\ f.code = "report" => \E i \in DOMAIN reports' : reports'[i] = Push(f)
        /\ f.code # "report" => reports' = reports
    <3>1. CASE f.code = "report"
      <4>1. /\ reports' = Append(reports, Push(f))
            /\ reports \in Seq(Pushes) /\ Push(f) \in Pushes
        BY <1>0, <2>1, <2>5, <3>1
      <4>2. /\ \A i \in DOMAIN Append(reports, Push(f)) :
                 \/ i \in DOMAIN reports /\ Append(reports, Push(f))[i] = reports[i]
                 \/ Append(reports, Push(f))[i] = Push(f)
            /\ \A i \in DOMAIN reports : i \in DOMAIN Append(reports, Push(f))
                                         /\ Append(reports, Push(f))[i] = reports[i]
            /\ Len(reports) + 1 \in DOMAIN Append(reports, Push(f))
            /\ Append(reports, Push(f))[Len(reports) + 1] = Push(f)
        BY ONLY <4>1
      <4> QED
        BY <3>1, <4>1, <4>2
    <3>2. CASE f.code # "report"
      BY <2>1, <3>2
    <3> QED
      BY <3>1, <3>2
  <2>7. /\ \A i \in DOMAIN ready : i \in DOMAIN ready' /\ ready'[i] = ready[i]
        /\ pc = "collecting" /\ reports = <<>> /\ f.code = "report" =>
             \E i, j \in DOMAIN ready' : i < j /\ ready'[i] = Reader /\ ready'[j] = seqNo
        /\ (\E i \in DOMAIN ready : ready[i] = Reader) =>
             \E i, j \in DOMAIN ready' : i < j /\ ready'[i] = Reader /\ ready'[j] = seqNo
    <3>0. ready \in Seq(Nat) /\ seqNo \in Nat /\ Reader \in Nat
      BY <1>0 DEF Reader
    <3>1. ready' = ready \o <<>> \o <<seqNo>> \/ ready' = ready \o <<Reader>> \o <<seqNo>>
      BY <2>1 DEF Woken
    <3>2. pc = "collecting" /\ reports = <<>> /\ f.code = "report"
            => ready' = ready \o <<Reader>> \o <<seqNo>>
      BY <2>1 DEF Woken
    <3>3. CASE ready' = ready \o <<>> \o <<seqNo>>
      <4>1. /\ Len(ready') = Len(ready) + 1 /\ ready' \in Seq(Nat)
            /\ \A i \in DOMAIN ready : i \in DOMAIN ready' /\ ready'[i] = ready[i]
            /\ ready'[Len(ready) + 1] = seqNo
            /\ \A i \in DOMAIN ready : i < Len(ready) + 1 /\ i \in Nat
            /\ Len(ready) + 1 \in DOMAIN ready'
        BY ONLY <3>0, <3>3
      <4>2. ready' # ready \o <<Reader>> \o <<seqNo>>
        <5>1. Len(ready \o <<Reader>> \o <<seqNo>>) = Len(ready) + 2 /\ Len(ready) \in Nat
          BY ONLY <3>0
        <5> QED
          BY <4>1, <5>1
      <4> QED
        BY <3>2, <4>1, <4>2
    <3>4. CASE ready' = ready \o <<Reader>> \o <<seqNo>>
      <4>1. /\ ready' \in Seq(Nat) /\ Len(ready) \in Nat
            /\ \A i \in DOMAIN ready : i \in DOMAIN ready' /\ ready'[i] = ready[i]
            /\ ready'[Len(ready) + 1] = Reader /\ ready'[Len(ready) + 2] = seqNo
            /\ Len(ready) + 1 \in DOMAIN ready' /\ Len(ready) + 2 \in DOMAIN ready'
        BY ONLY <3>0, <3>4
      <4>2. Len(ready) + 1 < Len(ready) + 2
        BY <4>1
      <4> QED
        BY <4>1, <4>2
    <3> QED
      BY <3>1, <3>3, <3>4
  <2>8. SentInv'
    <3>1. \A i \in DOMAIN reports' : reports'[i].id \in Ids
      BY <2>3, <2>5, <2>6 DEF SInv, SentInv
    <3> QED
      BY <1>1, <1>2, <2>1, <3>1, ShortenedSent DEF SInv, SentInv
  <2>9. SaltInv'
    BY <1>1, <1>2, <2>1, ShortenedSalt
  <2>10. FirstInv' /\ StageInv'
    <3>1. seqNo' > 1
      BY <1>0, <2>1, <2>4
    <3> QED
      BY <1>1, <2>1, <2>2, <2>3, <2>4, <3>1 DEF SInv, FirstInv, StageInv
  <2>11. RequestInv' /\ StaleInv' /\ ResultInv'
    BY <1>1, <2>1, <2>4 DEF SInv, RequestInv, Asked, StaleInv, ResultInv
  <2>12. OwnInv'
    BY <1>1, <2>3, <2>5, <2>6 DEF SInv, OwnInv, Answered
  <2>13. AckInv'
    <3> SUFFICES ASSUME sessionKey = reads PROVE AckInv'
      BY <1>1 DEF AckInv
    <3>1. \A id : (Gathered(id)' <=> Gathered(id)) /\ (Queued(id) => Queued(id)')
      BY <1>1, <2>6 DEF Gathered, Queued
    <3>2. \A n : BehindReader(n) => BehindReader(n)'
      BY <2>7 DEF BehindReader
    <3>3. ASSUME NEW id, id = f.id, NEW n, n = seqNo, f.code = "report"
          PROVE  Queued(id)' /\ (pc = "collecting" => BehindReader(n)')
      <4>1. Push(f) = [link |-> reads, id |-> id]
        BY <1>3, <2>3, <3>3 DEF Push
      <4>2. Queued(id)'
        BY <1>1, <2>6, <3>3, <4>1 DEF Queued
      <4>3. pc = "collecting" =>
              \E i, j \in DOMAIN ready' : i < j /\ ready'[i] = Reader /\ ready'[j] = seqNo
        BY <2>7, <3>3 DEF SInv, AckInv
      <4> QED
        BY <3>3, <4>2, <4>3 DEF BehindReader
    <3>4. pc = "collecting" /\ reports' # <<>> => \E i \in DOMAIN ready' : ready'[i] = Reader
      BY <2>6, <2>7 DEF SInv, AckInv
    <3>5. \A g \in air : g.link = reads /\ g.code = "report" =>
            Gathered(g.to)' \/ (pc # "collecting" /\ Queued(g.to)')
      BY <3>1 DEF SInv, AckInv
    <3>6. \A r \in background : r.code = "report" =>
            Gathered(r.to)' \/ (Queued(r.to)' /\ (pc = "collecting" => BehindReader(r.seq)'))
      BY <3>1, <3>2 DEF SInv, AckInv
    <3>7. \A r \in background' : r.code = "report" =>
            Gathered(r.to)' \/ (Queued(r.to)' /\ (pc = "collecting" => BehindReader(r.seq)'))
      BY <2>1, <2>2, <3>3, <3>6
    <3> QED
      BY <1>1, <3>4, <3>5, <3>7 DEF AckInv
  <2> QED
    BY <1>4, <1>5, <2>1, <2>8, <2>9, <2>10, <2>11, <2>12, <2>13 DEF SInv
<1> QED
  BY <1>6, <1>7, <1>8, <1>D

-----------------------------------------------------------------------------
LEMMA NextSInv == IInv /\ SInv /\ [Next]_vars => SInv'
<1> SUFFICES ASSUME IInv, SInv, [Next]_vars PROVE SInv'
  OBVIOUS
<1>1. CASE Next
  BY <1>1, ReadStepSInv, ReplyStepSInv, RadioStepSInv, FrameStepSInv DEF Next
<1>2. CASE UNCHANGED vars
  <2> USE <1>2 DEF SInv, vars, sessionVars, radioVars
  <2>1. SentInv' /\ AnsweredInv' /\ FirstInv' /\ RequestInv' /\ StageInv'
    BY DEF SentInv, FromDevice, AnsweredInv, DeviceReads, FirstInv, RequestInv, Asked,
           StageInv
  <2>2. SaltInv'
    BY DEF SaltInv, KeyUsed
  <2>3. StaleInv' /\ OwnInv' /\ ClosedInv'
    BY DEF StaleInv, OwnInv, Answered, ClosedInv, KeysMatchLinks
  <2>4. AckInv' /\ ResultInv'
    BY DEF AckInv, Gathered, Queued, BehindReader, ResultInv, ResultIsOfThisRead,
           SuccessIsEarned, AckedIsReturned
  <2> QED
    BY <2>1, <2>2, <2>3, <2>4
<1> QED
  BY <1>1, <1>2

LEMMA SpecSInv == Spec => []SInv
<1>1. Init => SInv
  BY InitSInv
<1> QED
  BY <1>1, SpecIInv, NextSInv, PTL DEF Spec

\* What a read returns came over its own link, even from a client whose earlier
\* link was not closed and still delivers (client.py:161, 205-227).
THEOREM ResultsAreOwn == Spec => []ResultIsOfThisRead
<1>1. SInv => ResultIsOfThisRead
  BY DEF SInv, ResultInv, ResultIsOfThisRead
<1> QED
  BY <1>1, SpecSInv, PTL

\* A read that returns was answered all three requests on its own link, by a
\* device that shares the local key, whatever late answers of earlier links it
\* met (client.py:170-190, 214).
THEOREM SuccessNeedsTheDevice == Spec => []SuccessIsEarned
<1>1. SInv => SuccessIsEarned
  BY DEF SInv, ResultInv, SuccessIsEarned
<1> QED
  BY <1>1, SpecSInv, PTL

\* No report is acknowledged and then not returned, although the reply tasks,
\* the callback and the quiet timer race (client.py:332-369, 217-227).
THEOREM AcknowledgedIsReturned == Spec => []AckedIsReturned
<1>1. SInv => AckedIsReturned
  BY DEF SInv, ResultInv, AckedIsReturned
<1> QED
  BY <1>1, SpecSInv, PTL

\* With a device whose link ends with the disconnect, a read queues and returns
\* the reports of its own link only (client.py:150-161).
THEOREM ReportsStayInTheirRead == Spec => []ReportsAreOfThisRead
<1>1. IInv /\ SInv => ReportsAreOfThisRead
  <2> SUFFICES ASSUME IInv, SInv, ~device.lingers, NEW p \in collected \cup ToSet(reports)
               PROVE  p.link = reads
    BY DEF ReportsAreOfThisRead
  <2>1. CASE p \in collected
    BY <2>1 DEF SInv, ClosedInv
  <2>2. CASE p \in ToSet(reports)
    <3>1. PICK i \in DOMAIN reports : p = reports[i]
      BY <2>2 DEF ToSet
    <3>2. sessionKey = reads
      BY <3>1 DEF SInv, ClosedInv, StageInv
    <3> QED
      BY <3>1, <3>2 DEF SInv, OwnInv
  <2> QED
    BY <2>1, <2>2
<1> QED
  BY <1>1, SpecIInv, SpecSInv, PTL

\* And the information request is the only frame under the login key, every
\* other being under the salt of the link it is written to (client.py:178-196).
THEOREM KeysStayOnTheirLinks == Spec => []KeysMatchLinks
<1>1. SInv => KeysMatchLinks
  BY DEF SInv, ClosedInv, KeysMatchLinks
<1> QED
  BY <1>1, SpecSInv, PTL

-----------------------------------------------------------------------------
\* The refinement.

LEMMA LevelFacts ==
  /\ pc \notin Running => Level = 0
  /\ pc = "collecting" => Level = 3
  /\ pc \in Running \ {"collecting"} =>
       /\ stage = "info" => Level = 0
       /\ stage = "pair" => Level = 1
       /\ stage = "status" => Level = 2
BY DEF Level, Running, Awaits

LEMMA LevelFactsPrimed ==
  /\ pc' \notin Running => Level' = 0
  /\ pc' = "collecting" => Level' = 3
  /\ pc' \in Running \ {"collecting"} =>
       /\ stage' = "info" => Level' = 0
       /\ stage' = "pair" => Level' = 1
       /\ stage' = "status" => Level' = 2
BY DEF Level, Running, Awaits

\* A read that ends takes the contract's Finish, if it may have that outcome.
LEMMA EndReadFinishes ==
  ASSUME NEW o, EndRead(o), pc \in Running, o \in Contract!Allowed, IInv
  PROVE  Contract!Next
<1>1. /\ outcome' = o /\ pc' \in {"idle", "disconnecting"} /\ client' = NoLink
      /\ pc' = "idle" <=> client = NoLink
      /\ collected' = IF o = "ok" THEN collected ELSE {}
  BY DEF EndRead, TearDown
<1>2. Level' = 0
  BY <1>1, LevelFactsPrimed DEF Running
<1>3. pc \notin {"idle", "disconnecting"}
  BY DEF Running
<1>4. Contract!Finish
  BY <1>1, <1>2, <1>3 DEF Contract!Finish
<1> QED
  BY <1>4 DEF Contract!Next

\* Nothing the contract speaks of changes.
LEMMA Stutters ==
  ASSUME UNCHANGED <<client, collected, outcome>>, pc' = pc, stage' = stage
  PROVE  UNCHANGED Contract!contractVars
<1>1. Level' = Level
  BY DEF Level, Running, Awaits
<1> QED
  BY <1>1 DEF Contract!contractVars

\* A request after an answer is a step up; the first one changes nothing.
LEMMA IssueClimbs ==
  ASSUME IInv, NEW s, NEW salt, NEW version \in Packable, NEW rest,
         IssueRequest(s, salt, version, rest),
         pc \in Running \ {"connecting", "collecting"},
         \/ s = "info" /\ stage = "info"
         \/ s = "pair" /\ stage = "info"
         \/ s = "status" /\ stage = "pair"
  PROVE  [Contract!Next]_(Contract!contractVars)
<1>1. /\ pc' = "sending" /\ stage' = s /\ UNCHANGED <<client, collected, outcome>>
  BY DEF IssueRequest
<1>2. client = reads /\ reads \in Links /\ pc \notin {"idle", "disconnecting"}
  BY DEF IInv, LinkInv, Running, Awaits
<1>3. client # NoLink
  BY <1>2 DEF Links, NoLink
<1>4. CASE s = "info" /\ stage = "info"
  <2>1. Level = 0 /\ Level' = 0
    BY <1>1, <1>4, LevelFacts, LevelFactsPrimed DEF Running, Awaits
  <2> QED
    BY <1>1, <1>2, <2>1 DEF Contract!contractVars
<1>5. CASE s # "info"
  <2>1. Level \in {0, 1} /\ Level' = Level + 1
    BY <1>1, <1>5, LevelFacts, LevelFactsPrimed DEF Running, Awaits
  <2>2. Contract!Climb
    BY <1>1, <1>2, <1>3, <2>1 DEF Contract!Climb
  <2> QED
    BY <2>2 DEF Contract!Next
<1> QED
  BY <1>4, <1>5

\* So is taking an answer, unless it ends the read.
LEMMA AnswerClimbs ==
  ASSUME Versions \subseteq Packable, IInv, SInv, TypeOK', SInv', reply # NoFrame,
         NEW rest, TakeAnswer(reply, rest)
  PROVE  [Contract!Next]_(Contract!contractVars)
<1>0. /\ pc \in Running \ {"connecting", "collecting"} /\ client # NoLink
      /\ protocolVersion \in Packable /\ device.version \in Packable
  <2>1. pc \in Running \ {"connecting", "collecting"}
    BY AnswerHeld DEF Running, Awaits
  <2>2. client # NoLink
    BY AnswerHeld DEF Links, NoLink
  <2>3. protocolVersion \in Packable /\ device.version \in Packable
    <3>1. DEFAULT_PROTOCOL_VERSION \in Packable
      BY DEF Packable, DEFAULT_PROTOCOL_VERSION
    <3>2. protocolVersion \in {DEFAULT_PROTOCOL_VERSION} \cup Versions /\ device.version \in Versions
      BY DEF IInv, TypeOK, Devices
    <3> QED
      BY <3>1, <3>2
  <2> QED
    BY <2>1, <2>2, <2>3
<1>1. CASE DeviceInfoAnswered(reply, rest)
  <2>1. stage = "info" /\ Level = 0
    BY <1>0, <1>1, LevelFacts DEF DeviceInfoAnswered
  <2>2. "protocol" \in Contract!Allowed
    BY <1>0, <2>1 DEF Contract!Allowed
  <2>3. EndRead("protocol") \/ IssueRequest("pair", reply.link, device.version, rest)
    BY <1>1 DEF DeviceInfoAnswered
  <2> QED
    BY <1>0, <2>1, <2>2, <2>3, EndReadFinishes, IssueClimbs
<1>2. CASE PairAnswered(reply, rest)
  <2>1. stage = "pair" /\ Level = 1
    BY <1>0, <1>2, LevelFacts DEF PairAnswered
  <2>2. {"protocol", "authentication"} \subseteq Contract!Allowed
    BY <2>1 DEF Contract!Allowed
  <2>3. reply.body \in Bodies
    BY AnswerHeld DEF DeviceFrames
  <2>4. \/ EndRead("protocol") \/ EndRead("authentication")
        \/ IssueRequest("status", sessionKey, protocolVersion, rest)
    BY <1>2, <2>3 DEF PairAnswered, Bodies
  <2> QED
    BY <1>0, <2>1, <2>2, <2>4, EndReadFinishes, IssueClimbs
<1>3. CASE StatusAnswered(rest)
  <2>1. /\ pc' = "collecting" /\ stage = "status" /\ UNCHANGED <<client, outcome>>
    BY <1>3 DEF StatusAnswered
  <2>2. Level = 2 /\ Level' = 3
    BY <1>0, <2>1, LevelFacts, LevelFactsPrimed
  <2>3. collected' \subseteq [link : Links, id : 0 .. MaxPushes]
    BY DEF TypeOK, Pushes, SInv, SentInv, Ids
  <2>4. pc \notin {"idle", "disconnecting"}
    BY <1>0 DEF Running
  <2>5. Contract!Climb
    BY <1>0, <2>1, <2>2, <2>3, <2>4 DEF Contract!Climb
  <2> QED
    BY <2>5 DEF Contract!Next
<1> QED
  BY <1>1, <1>2, <1>3 DEF TakeAnswer

\* The client keeps the promise of ReadContract, for every number of reads and
\* pushes and every device whose version fits the header byte; with any other
\* one, a read may end in struct.error, which the contract does not know.
THEOREM ClientImplementsContract ==
  ASSUME Versions \subseteq Packable
  PROVE  Spec => ImplementsContract
<1>1. Init => Contract!Init
  <2>1. Init => Level = 0
    BY LevelFacts DEF Init, Running
  <2> QED
    BY <2>1 DEF Init, Contract!Init
<1>2. IInv /\ SInv /\ IInv' /\ SInv' /\ [Next]_vars
        => [Contract!Next]_(Contract!contractVars)
  <2> SUFFICES ASSUME IInv, SInv, IInv', SInv', [Next]_vars
               PROVE  [Contract!Next]_(Contract!contractVars)
    OBVIOUS
  <2>0. /\ \A l \in Links : l # NoLink
        /\ collected' \subseteq [link : Links, id : 0 .. MaxPushes]
    BY DEF Links, NoLink, IInv, TypeOK, Pushes, SInv, SentInv, Ids
  <2>E. ASSUME NEW o, EndRead(o), pc \in Running, o \in Contract!Allowed
        PROVE  Contract!Next
    BY <2>E, EndReadFinishes
  <2>A. {"connection", "cancelled"} \subseteq Contract!Allowed
    BY DEF Contract!Allowed
  <2>1. CASE Read
    <3>1. CASE StartRead
      <4>1. /\ pc = "idle" /\ pc' = "connecting" /\ client = NoLink /\ client' = NoLink
            /\ collected' = {} /\ outcome' = "none" /\ stage' = "info"
        BY <3>1 DEF StartRead, sessionVars, IInv, NothingLeftBehind
      <4>2. Level = 0 /\ Level' = 0
        BY <4>1, LevelFacts, LevelFactsPrimed DEF Running, Awaits
      <4>3. Contract!Start
        BY <4>1, <4>2 DEF Contract!Start
      <4> QED
        BY <4>3 DEF Contract!Next
    <3>2. CASE Connected
      <4>1. /\ pc = "connecting" /\ pc' = "subscribing" /\ client = NoLink
            /\ client' # NoLink /\ stage = "info"
            /\ UNCHANGED <<stage, collected, outcome>>
        BY <2>0, <3>2
        DEF Connected, IInv, NothingLeftBehind, LinkInv, SInv, StageInv
      <4>2. Level = 0 /\ Level' = 0
        BY <4>1, LevelFacts, LevelFactsPrimed DEF Running, Awaits
      <4>3. Contract!Acquire
        BY <4>1, <4>2 DEF Contract!Acquire
      <4> QED
        BY <4>3 DEF Contract!Next
    <3>3. CASE ConnectFails
      BY <2>A, <2>E, <3>3 DEF ConnectFails, Running, Awaits
    <3>4. CASE Subscribed
      <4>1. /\ stage = "info" /\ protocolVersion \in Packable
            /\ pc \in Running \ {"connecting", "collecting"}
        BY <3>4 DEF Subscribed, SInv, StageInv, IInv, TypeOK, Packable, Running, Awaits,
                    DEFAULT_PROTOCOL_VERSION
      <4> QED
        BY <3>4, <4>1, IssueClimbs DEF Subscribed
    <3>5. CASE RequestWritten /\ reply = NoFrame
      <4>1. /\ pc = "sending" /\ pc' = "waiting"
            /\ UNCHANGED <<client, stage, collected, outcome>>
        BY <3>5 DEF RequestWritten, sessionVars
      <4>2. Level' = Level
        BY <4>1 DEF Level, Running, Awaits
      <4> QED
        BY <4>1, <4>2 DEF Contract!contractVars
    <3>6. CASE RequestWritten /\ reply # NoFrame
      BY <3>6, AnswerClimbs DEF RequestWritten, IInv
    <3>7. CASE WriteFails
      BY <2>A, <2>E, <3>7 DEF WriteFails, Running, Awaits
    <3>8. CASE AnswerTaken
      <4>1. ready \in Seq(Nat) /\ ready # <<>> /\ Head(ready) = Reader /\ pc = "waiting"
        BY <3>8 DEF AnswerTaken, IInv, TypeOK
      <4>2. reply # NoFrame
        <5>1. ready[1] = Reader /\ 1 \in DOMAIN ready
          BY <4>1
        <5> QED
          BY <4>1, <5>1 DEF IInv, ReadyInv
      <4> QED
        BY <3>8, <4>2, AnswerClimbs DEF AnswerTaken, IInv
    <3>9. CASE DrainReports
      <4>1. /\ pc = "collecting" /\ UNCHANGED <<pc, stage, client, outcome>>
            /\ collected \subseteq collected'
        BY <3>9 DEF DrainReports
      <4>2. Level = 3 /\ Level' = 3
        BY <4>1, LevelFacts, LevelFactsPrimed
      <4>3. Contract!Gather
        BY <2>0, <4>1, <4>2 DEF Contract!Gather
      <4> QED
        BY <4>3 DEF Contract!Next
    <3>10. CASE ResponseTimesOut
      <4>1. pc = "waiting" /\ pc \in Running /\ client # NoLink
        BY <2>0, <3>10 DEF ResponseTimesOut, IInv, LinkInv, Running, Awaits
      <4>2. stage = "info" => "handshake_timeout" \in Contract!Allowed
        BY <4>1, LevelFacts DEF Contract!Allowed
      <4> QED
        BY <2>A, <2>E, <3>10, <4>1, <4>2 DEF ResponseTimesOut
    <3>11. CASE ReportGoesQuiet
      <4>1. pc = "collecting" /\ "ok" \in Contract!Allowed
        BY <3>11, LevelFacts DEF ReportGoesQuiet, Contract!Allowed
      <4> QED
        BY <2>E, <3>11, <4>1 DEF ReportGoesQuiet, Running, Awaits
    <3>12. CASE SessionExpires
      BY <2>A, <2>E, <3>12 DEF SessionExpires
    <3>13. CASE CallerCancels
      BY <2>A, <2>E, <3>13 DEF CallerCancels
    <3>14. CASE Disconnected \/ DisconnectFails(outcome) \/ DisconnectFails("cancelled")
      <4>1. /\ pc = "disconnecting" /\ pc' = "idle" /\ client = NoLink /\ client' = NoLink
            /\ outcome' \in {outcome, "cancelled"}
            /\ collected' = IF outcome' = "ok" THEN collected ELSE {}
        BY <3>14 DEF Disconnected, DisconnectFails, sessionVars, IInv, NothingLeftBehind,
                     SInv, StageInv
      <4>2. Level = 0 /\ Level' = 0
        BY <4>1, LevelFacts, LevelFactsPrimed DEF Running
      <4>3. Contract!Release
        BY <4>1, <4>2 DEF Contract!Release
      <4> QED
        BY <4>3 DEF Contract!Next
    <3> QED
      BY <2>1, <3>1, <3>2, <3>3, <3>4, <3>5, <3>6, <3>7, <3>8, <3>9, <3>10, <3>11,
         <3>12, <3>13, <3>14
      DEF Read, DisconnectTimesOut, DisconnectIsCancelled
  <2>2. CASE ReplyTask \/ Radio \/ \E l \in Links : FrameArrives(l)
    <3>1. UNCHANGED <<client, collected, outcome>> /\ pc' = pc /\ stage' = stage
      BY <2>2 DEF ReplyTask, ReplyStarts, ReplyFinishes, Radio, DeviceAnswers,
                  DevicePushes, FrameLost, LinkDrops, FrameArrives, clientVars, sessionVars
    <3> QED
      BY <3>1, Stutters
  <2>3. CASE UNCHANGED vars
    BY <2>3, Stutters DEF vars, sessionVars
  <2> QED
    BY <2>1, <2>2, <2>3 DEF Next
<1> QED
  BY <1>1, <1>2, SpecIInv, SpecSInv, PTL DEF Spec, ImplementsContract, Contract!Spec
=============================================================================

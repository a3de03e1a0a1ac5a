------------------------- MODULE SharedClientProofs -------------------------
(***************************************************************************)
(* Theorems about SharedClient, for every set of tasks and every number of *)
(* reads they start.                                                       *)
(***************************************************************************)
EXTENDS SharedClient, TLAPS

-----------------------------------------------------------------------------
\* The inductive invariant: what the theorems say, and what their proofs need.

Places   == {"idle", "connecting", "subscribing", "refused", "waiting",
             "collecting", "disconnecting"}
Futures  == {"none", "open", "answered", "cancelled"}
Answers  == [code : {"none"} \cup Stages, salt : Nat]
Outcomes == {"none", "ok", "sdk_error", "cancelled"}
Records  == [at : Places, stage : Stages, link : Nat, number : Nat, future : Futures,
             answer : Answers, closing : Nat, outcome : Outcomes]
Requests == [link : Nat, number : Nat, code : Stages, task : Tasks, key : Int]

\* A read that runs has a link of its own, and only one that waits has a future
\* that is open; how it ends is not known while it runs.
TypeInv ==
  /\ client \in Nat /\ sessionKey \in Int /\ seqNo \in Nat
  /\ pending \subseteq [number : Nat, task : Tasks]
  /\ read \in [Tasks -> Records] /\ reads \in Nat
  /\ links \subseteq Nat \ {0} /\ air \subseteq Requests
  /\ \A t \in Tasks : Busy(t) => read[t].link # NoLink
  /\ \A t \in Tasks : read[t].future = "open" => read[t].at = "waiting"
  /\ \A t \in Tasks : Running(t) => read[t].outcome = "none"

\* The object is used only while a read runs.
NewWhenNoneRuns ==
  (\A t \in Tasks : ~Running(t)) =>
    client = NoLink /\ sessionKey = NoKey /\ seqNo = 1 /\ pending = {}

\* Two reads that are in progress overlap.
BusyReadsOverlap ==
  \A t, u \in Tasks : t # u /\ Busy(t) /\ Busy(u) => <<read[t].link, read[u].link>> \in overlaps

\* The handle was put there by a read that still runs.
HandleIsOfARunningRead ==
  client # NoLink =>
    \E t \in Tasks : Running(t) /\ read[t].at # "connecting" /\ read[t].link = client

\* A link that is up is held, handed over, or was lost to an overlap.
LinksAccounted ==
  \A l \in links : l = client \/ l \in released \/ \E p \in overlaps : p[1] = l

\* Futures are cancelled by the teardown of another read only.
CancelledAccounted ==
  \A t \in Tasks : read[t].future = "cancelled" \/ read[t].outcome = "cancelled"
                     => \E p \in overlaps : p[1] = read[t].link

IInv == /\ TypeInv /\ NewWhenNoneRuns /\ BusyReadsOverlap
        /\ HandleIsOfARunningRead /\ LinksAccounted /\ CancelledAccounted

-----------------------------------------------------------------------------
\* The initial state: no read, and an object as it was constructed.
LEMMA InitIInv == Init => IInv
<1> SUFFICES ASSUME Init PROVE IInv
  OBVIOUS
<1>1. Idle \in Records
  BY DEF Idle, Records, Places, Stages, Futures, Answers, NoAnswer, Outcomes, NoLink
<1>2. TypeInv
  BY <1>1 DEF Init, TypeInv, Busy, Running, Idle, NoLink, NoKey
<1>3. BusyReadsOverlap /\ CancelledAccounted
  BY DEF Init, BusyReadsOverlap, CancelledAccounted, Busy, Idle
<1>4. NewWhenNoneRuns /\ HandleIsOfARunningRead /\ LinksAccounted
  BY DEF Init, NewWhenNoneRuns, HandleIsOfARunningRead, LinksAccounted
<1> QED
  BY <1>2, <1>3, <1>4 DEF IInv

\* What teardown does to each read: its own ends, and a future another one
\* waits for may be cancelled.
LEMMA TearDownFacts ==
  ASSUME TypeInv, NEW t \in Tasks, NEW o \in Outcomes, TearDown(t, o)
  PROVE  /\ read' \in [Tasks -> Records]
         /\ read'[t].link = read[t].link /\ read'[t].future = "none"
         /\ read'[t].outcome = o /\ read'[t].at \in {"idle", "disconnecting"}
         /\ \A u \in Tasks \ {t} :
              \/ read'[u] = read[u]
              \/ /\ read'[u] = [read[u] EXCEPT !.future = "cancelled"]
                 /\ read[u].future = "open"
<1> DEFINE r == Ended(t, o, client)
<1>1. /\ r \in Records /\ r.link = read[t].link /\ r.future = "none"
      /\ r.outcome = o /\ r.at \in {"idle", "disconnecting"}
  BY DEF TypeInv, Ended, Idle, Records, Places, Stages, Futures, Answers, NoAnswer, NoLink
<1>2. Cancelling(t) \in [Tasks -> Records]
  <2>1. \A u \in Tasks : [read[u] EXCEPT !.future = "cancelled"] \in Records
    BY DEF TypeInv, Records, Futures
  <2> QED
    BY <2>1 DEF Cancelling, TypeInv
<1>3. read' = [Cancelling(t) EXCEPT ![t] = r]
  BY DEF TearDown
<1>4. read' \in [Tasks -> Records] /\ read'[t] = r
  BY <1>1, <1>2, <1>3
<1>5. \A u \in Tasks \ {t} : read'[u] = Cancelling(t)[u]
  BY <1>2, <1>3
<1>6. \A u \in Tasks \ {t} :
        \/ read'[u] = read[u]
        \/ /\ read'[u] = [read[u] EXCEPT !.future = "cancelled"]
           /\ read[u].future = "open"
  BY <1>5 DEF Cancelling
<1> QED
  BY <1>1, <1>4, <1>6

\* Teardown keeps the invariant, whatever ended the read: one that was cancelled
\* had its future cancelled first.
LEMMA TearDownIInv ==
  ASSUME IInv, NEW t \in Tasks, NEW o \in Outcomes, Running(t), TearDown(t, o),
         o = "cancelled" => read[t].future = "cancelled"
  PROVE  IInv'
<1>1. /\ read' \in [Tasks -> Records]
      /\ read'[t].link = read[t].link /\ read'[t].future = "none"
      /\ read'[t].outcome = o /\ read'[t].at \in {"idle", "disconnecting"}
      /\ \A u \in Tasks \ {t} :
           \/ read'[u] = read[u]
           \/ /\ read'[u] = [read[u] EXCEPT !.future = "cancelled"]
              /\ read[u].future = "open"
  BY TearDownFacts DEF IInv
<1>2. /\ client' = NoLink /\ sessionKey' = NoKey /\ seqNo' = 1 /\ pending' = {}
      /\ released' = released \cup ({client} \ {NoLink})
      /\ UNCHANGED <<reads, overlaps, links, air>>
  BY DEF TearDown, radio
<1>3. \A u \in Tasks \ {t} : read'[u].at = read[u].at /\ read'[u].link = read[u].link
                              /\ read'[u].outcome = read[u].outcome
  BY <1>1 DEF IInv, TypeInv, Records
<1>4. \A u \in Tasks : (Busy(u))' => Busy(u)
  BY <1>3 DEF Busy, Running
<1>5. \A u \in Tasks : read'[u].link = read[u].link
  BY <1>1, <1>3
<1>6. TypeInv'
  <2>1. \A u \in Tasks : (Busy(u) => read[u].link # NoLink)'
    BY <1>4, <1>5 DEF IInv, TypeInv
  <2>2. \A u \in Tasks : (read[u].future = "open" => read[u].at = "waiting")'
    <3> SUFFICES ASSUME NEW u \in Tasks, read'[u].future = "open" PROVE read'[u].at = "waiting"
      OBVIOUS
    <3>1. u # t /\ read'[u] = read[u]
      BY <1>1 DEF IInv, TypeInv, Records
    <3> QED
      BY <3>1 DEF IInv, TypeInv
  <2>3. \A u \in Tasks : (Running(u) => read[u].outcome = "none")'
    BY <1>1, <1>3 DEF IInv, TypeInv, Running
  <2> QED
    BY <1>1, <1>2, <2>1, <2>2, <2>3 DEF IInv, TypeInv, NoLink, NoKey
<1>7. NewWhenNoneRuns' /\ HandleIsOfARunningRead'
  BY <1>2 DEF NewWhenNoneRuns, HandleIsOfARunningRead
<1>8. BusyReadsOverlap'
  BY <1>2, <1>4, <1>5 DEF IInv, BusyReadsOverlap
<1>9. LinksAccounted'
  <2> SUFFICES ASSUME NEW l \in links
               PROVE  l \in released' \/ \E p \in overlaps : p[1] = l
    BY <1>2 DEF LinksAccounted
  <2>1. l # NoLink
    BY DEF IInv, TypeInv, NoLink
  <2> QED
    BY <1>2, <2>1 DEF IInv, LinksAccounted
<1>10. CancelledAccounted'
  <2> SUFFICES ASSUME NEW u \in Tasks,
                      read'[u].future = "cancelled" \/ read'[u].outcome = "cancelled"
               PROVE  \E p \in overlaps : p[1] = read[u].link
    BY <1>2, <1>5 DEF CancelledAccounted
  <2>1. CASE u = t
    BY <1>1, <2>1 DEF IInv, CancelledAccounted
  <2>2. CASE u # t /\ (read[u].future = "cancelled" \/ read[u].outcome = "cancelled")
    BY <2>2 DEF IInv, CancelledAccounted
  <2>3. CASE u # t /\ read[u].future = "open"
    <3>1. Busy(u) /\ Busy(t)
      BY <2>3 DEF IInv, TypeInv, Busy, Running
    <3>2. <<read[u].link, read[t].link>> \in overlaps
      BY <2>3, <3>1 DEF IInv, BusyReadsOverlap
    <3> QED
      BY <3>2
  <2> QED
    BY <1>1, <1>3, <2>1, <2>2, <2>3
<1> QED
  BY <1>6, <1>7, <1>8, <1>9, <1>10 DEF IInv

-----------------------------------------------------------------------------
\* A step of one running read that leaves every other read, the handle and the
\* radio's links alone, and keeps its own link, keeps what relates reads to
\* links.
LEMMA RunningReadMoves ==
  ASSUME IInv, NEW t \in Tasks, Running(t), read[t].at # "connecting", NEW r \in Records,
         read' = [read EXCEPT ![t] = r],
         r.at \in Places \ {"idle", "connecting", "disconnecting"},
         r.link = read[t].link, r.outcome = "none", r.future # "cancelled",
         UNCHANGED <<client, links, released, overlaps>>
  PROVE  /\ NewWhenNoneRuns' /\ BusyReadsOverlap' /\ HandleIsOfARunningRead'
         /\ LinksAccounted' /\ CancelledAccounted'
<1>1. read'[t] = r /\ \A u \in Tasks \ {t} : read'[u] = read[u]
  BY DEF IInv, TypeInv
<1>2. (Running(t))' /\ Busy(t) /\ read'[t].at # "connecting"
  BY <1>1 DEF Running, Busy
<1>3. \A u \in Tasks : /\ read'[u].link = read[u].link
                       /\ (Busy(u))' => Busy(u)
                       /\ Running(u) => (Running(u))'
                       /\ read'[u].at = "connecting" => read[u].at = "connecting"
  BY <1>1, <1>2 DEF Running, Busy
<1>4. NewWhenNoneRuns' /\ BusyReadsOverlap'
  BY <1>2, <1>3 DEF IInv, NewWhenNoneRuns, BusyReadsOverlap
<1>5. HandleIsOfARunningRead' /\ LinksAccounted'
  BY <1>3 DEF IInv, HandleIsOfARunningRead, LinksAccounted
<1>6. CancelledAccounted'
  BY <1>1, <1>3 DEF IInv, CancelledAccounted
<1> QED
  BY <1>4, <1>5, <1>6

\* Issuing a request keeps the invariant.
LEMMA IssueRequestIInv ==
  ASSUME IInv, NEW t \in Tasks, read[t].at \in {"subscribing", "waiting"},
         NEW s \in Stages, NEW salt \in Int, IssueRequest(t, s, salt)
  PROVE  IInv'
<1>0. Running(t) /\ read[t].at # "connecting" /\ read[t].outcome = "none"
  BY DEF Running, IInv, TypeInv
<1>1. /\ UNCHANGED <<client, reads, links, released, overlaps>>
      /\ seqNo' = seqNo + 1 /\ sessionKey' = salt
  BY DEF IssueRequest
<1> DEFINE refused == [Idle EXCEPT !.at = "refused", !.link = read[t].link]
           waiting == [read[t] EXCEPT !.at = "waiting", !.stage = s, !.number = seqNo,
                                      !.future = "open", !.answer = NoAnswer]
<1>2. read[t] \in Records /\ seqNo \in Nat /\ client \in Nat
  BY DEF IInv, TypeInv
<1>3. refused \in Records /\ waiting \in Records
  BY <1>2 DEF Records, Places, Stages, Futures, Answers, NoAnswer, NoLink, Outcomes, Idle
<1>4. \E r \in {refused, waiting} :
        /\ read' = [read EXCEPT ![t] = r] /\ r.link = read[t].link /\ r.outcome = "none"
        /\ r \in Records
        /\ \/ r.at = "refused" /\ r.future = "none"
           \/ r.at = "waiting" /\ r.future = "open"
  <2>1. /\ refused.link = read[t].link /\ refused.outcome = "none"
        /\ refused.at = "refused" /\ refused.future = "none"
    BY DEF Idle
  <2>2. /\ waiting.link = read[t].link /\ waiting.outcome = "none"
        /\ waiting.at = "waiting" /\ waiting.future = "open"
    BY <1>0, <1>2 DEF Records
  <2>3. read' = [read EXCEPT ![t] = refused] \/ read' = [read EXCEPT ![t] = waiting]
    BY DEF IssueRequest, IInv, TypeInv
  <2> HIDE DEF refused, waiting
  <2>4. CASE read' = [read EXCEPT ![t] = refused]
    <3>1. refused \in {refused, waiting} /\ refused \in Records
      BY <1>3
    <3> QED
      BY <2>1, <2>4, <3>1
  <2>5. CASE read' = [read EXCEPT ![t] = waiting]
    BY <1>3, <2>2, <2>5
  <2> QED
    BY <2>3, <2>4, <2>5
<1>5. NewWhenNoneRuns' /\ BusyReadsOverlap' /\ HandleIsOfARunningRead'
      /\ LinksAccounted' /\ CancelledAccounted'
  BY <1>0, <1>1, <1>4, RunningReadMoves DEF Places
<1>6. TypeInv'
  <2>1. read' \in [Tasks -> Records]
    BY <1>4 DEF IInv, TypeInv
  <2>2. pending' \subseteq [number : Nat, task : Tasks]
    BY <1>2 DEF IssueRequest, Unlisted, IInv, TypeInv
  <2>3. air' \subseteq Requests
    BY <1>2 DEF IssueRequest, IInv, TypeInv, Requests, LoginKey
  <2>4. \A u \in Tasks : (Busy(u) => read[u].link # NoLink)'
    BY <1>0, <1>4 DEF IInv, TypeInv, Busy, Running
  <2>5. \A u \in Tasks : (read[u].future = "open" => read[u].at = "waiting")'
    BY <1>4 DEF IInv, TypeInv
  <2>6. \A u \in Tasks : (Running(u) => read[u].outcome = "none")'
    BY <1>4 DEF IInv, TypeInv, Running
  <2> QED
    BY <1>1, <1>2, <2>1, <2>2, <2>3, <2>4, <2>5, <2>6 DEF IInv, TypeInv
<1> QED
  BY <1>5, <1>6 DEF IInv

\* A read that starts overlaps every read in progress, in both directions.
LEMMA StartReadIInv ==
  ASSUME IInv, NEW t \in Tasks, StartRead(t)
  PROVE  IInv'
<1> DEFINE r == [Idle EXCEPT !.at = "connecting", !.link = reads + 1]
<1>1. /\ r \in Records /\ r.at = "connecting" /\ r.link = reads + 1 /\ r.link # NoLink
      /\ r.future = "none" /\ r.outcome = "none"
  <2>1. reads + 1 \in Nat /\ reads + 1 # NoLink
    BY DEF IInv, TypeInv, NoLink
  <2>2. Idle \in Records
    BY DEF Idle, Records, Places, Stages, Futures, Answers, NoAnswer, Outcomes, NoLink
  <2>3. /\ r.at = "connecting" /\ r.link = reads + 1
        /\ r.future = "none" /\ r.outcome = "none"
    BY DEF Idle
  <2>4. r \in Records
    BY <2>1, <2>2 DEF Records, Places
  <2> QED
    BY <2>1, <2>3, <2>4
<1>2. read[t].at = "idle" /\ read' = [read EXCEPT ![t] = r] /\ reads' = reads + 1
  BY DEF StartRead
<1>3. UNCHANGED <<client, sessionKey, seqNo, pending, released, links, air>>
  BY DEF StartRead, fields, radio
<1>4. read'[t] = r /\ read' \in [Tasks -> Records] /\ \A u \in Tasks \ {t} : read'[u] = read[u]
  BY <1>1, <1>2 DEF IInv, TypeInv
<1>5. (Running(t))'
  BY <1>1, <1>4 DEF Running
<1>6. \A u \in Tasks \ {t} : (Busy(u))' => /\ Busy(u)
                                           /\ <<read[u].link, r.link>> \in overlaps'
                                           /\ <<r.link, read[u].link>> \in overlaps'
  BY <1>1, <1>4 DEF StartRead, Busy
<1>7. overlaps \subseteq overlaps'
  BY DEF StartRead
<1>8. TypeInv'
  BY <1>1, <1>2, <1>3, <1>4 DEF IInv, TypeInv, Busy, Running
<1>9. NewWhenNoneRuns'
  BY <1>5 DEF NewWhenNoneRuns
<1>10. BusyReadsOverlap'
  <2> SUFFICES ASSUME NEW u \in Tasks, NEW v \in Tasks, u # v, (Busy(u))', (Busy(v))'
               PROVE  <<read'[u].link, read'[v].link>> \in overlaps'
    BY DEF BusyReadsOverlap
  <2>1. CASE u = t \/ v = t
    BY <1>4, <1>6, <2>1
  <2>2. CASE u # t /\ v # t
    BY <1>4, <1>6, <1>7, <2>2 DEF IInv, BusyReadsOverlap
  <2> QED
    BY <2>1, <2>2
<1>11. HandleIsOfARunningRead'
  <2> SUFFICES ASSUME client # NoLink
               PROVE  \E u \in Tasks : (Running(u))' /\ read'[u].at # "connecting"
                                        /\ read'[u].link = client
    BY <1>3 DEF HandleIsOfARunningRead
  <2>1. PICK u \in Tasks : Running(u) /\ read[u].at # "connecting" /\ read[u].link = client
    BY DEF IInv, HandleIsOfARunningRead
  <2>2. u # t
    BY <1>2, <2>1 DEF Running
  <2> QED
    BY <1>4, <2>1, <2>2 DEF Running
<1>12. LinksAccounted'
  BY <1>3, <1>7 DEF IInv, LinksAccounted
<1>13. CancelledAccounted'
  <2> SUFFICES ASSUME NEW u \in Tasks,
                      read'[u].future = "cancelled" \/ read'[u].outcome = "cancelled"
               PROVE  \E p \in overlaps' : p[1] = read'[u].link
    BY DEF CancelledAccounted
  <2> HIDE DEF r
  <2>1. u # t /\ read'[u] = read[u]
    BY <1>1, <1>4
  <2> QED
    BY <1>7, <2>1 DEF IInv, CancelledAccounted
<1> QED
  BY <1>8, <1>9, <1>10, <1>11, <1>12, <1>13 DEF IInv

\* The handle a connected read replaces was that of a read it overlapped.
LEMMA ConnectedIInv ==
  ASSUME IInv, NEW t \in Tasks, Connected(t)
  PROVE  IInv'
<1> DEFINE r == [read[t] EXCEPT !.at = "subscribing"]
<1>1. read[t] \in Records /\ read[t].at = "connecting" /\ read[t].outcome = "none"
      /\ read[t].link # NoLink
  BY DEF Connected, IInv, TypeInv, Running, Busy
<1>2. /\ r \in Records /\ r.at = "subscribing" /\ r.link = read[t].link
      /\ r.future = read[t].future /\ r.outcome = read[t].outcome
  BY <1>1 DEF Records, Places
<1>3. read' = [read EXCEPT ![t] = r]
  BY DEF Connected
<1>4. /\ client' = read[t].link /\ links' = links \cup {read[t].link}
      /\ UNCHANGED <<sessionKey, seqNo, pending, reads, released, overlaps, air>>
  BY DEF Connected
<1>5. read'[t] = r /\ read' \in [Tasks -> Records] /\ \A u \in Tasks \ {t} : read'[u] = read[u]
  BY <1>2, <1>3 DEF IInv, TypeInv
<1>6. \A u \in Tasks : read'[u].link = read[u].link /\ ((Busy(u))' => Busy(u))
  BY <1>1, <1>2, <1>5 DEF Busy
<1>7. TypeInv'
  <2>1. read[t].link \in Nat \ {0}
    BY <1>1 DEF Records, NoLink
  <2>2. read[t].future # "open"
    BY <1>1 DEF IInv, TypeInv
  <2> HIDE DEF r
  <2>3. \A u \in Tasks : (Busy(u) => read[u].link # NoLink)'
    BY <1>6 DEF IInv, TypeInv
  <2>4. \A u \in Tasks : (read[u].future = "open" => read[u].at = "waiting")'
    BY <1>2, <1>5, <2>2 DEF IInv, TypeInv
  <2>5. \A u \in Tasks : (Running(u) => read[u].outcome = "none")'
    BY <1>1, <1>2, <1>5 DEF IInv, TypeInv, Running
  <2> QED
    BY <1>4, <1>5, <2>1, <2>3, <2>4, <2>5 DEF IInv, TypeInv
<1>8. NewWhenNoneRuns' /\ HandleIsOfARunningRead'
  BY <1>2, <1>4, <1>5 DEF NewWhenNoneRuns, HandleIsOfARunningRead, Running
<1>9. BusyReadsOverlap'
  BY <1>4, <1>6 DEF IInv, BusyReadsOverlap
<1>10. LinksAccounted'
  <2> SUFFICES ASSUME NEW l \in links, l = client, l # read[t].link
               PROVE  \E p \in overlaps : p[1] = l
    BY <1>4 DEF IInv, LinksAccounted
  <2>1. client # NoLink
    BY DEF IInv, TypeInv, NoLink
  <2>2. PICK u \in Tasks : Running(u) /\ read[u].at # "connecting" /\ read[u].link = client
    BY <2>1 DEF IInv, HandleIsOfARunningRead
  <2>3. u # t /\ Busy(u) /\ Busy(t)
    BY <1>1, <2>2 DEF Running, Busy
  <2>4. <<read[u].link, read[t].link>> \in overlaps
    BY <2>3 DEF IInv, BusyReadsOverlap
  <2> QED
    BY <2>2, <2>4
<1>11. CancelledAccounted'
  <2> HIDE DEF r
  <2>1. \A u \in Tasks : /\ read'[u].future = read[u].future
                         /\ read'[u].outcome = read[u].outcome
    BY <1>2, <1>5
  <2> QED
    BY <1>4, <1>6, <2>1 DEF IInv, CancelledAccounted
<1> QED
  BY <1>7, <1>8, <1>9, <1>10, <1>11 DEF IInv

\* The end of a disconnect and an answer of the device move no read to another
\* link and disturb no link that is up.
LEMMA DisconnectedIInv ==
  ASSUME IInv, NEW t \in Tasks, Disconnected(t)
  PROVE  IInv'
<1> DEFINE r == [read[t] EXCEPT !.at = "idle", !.closing = NoLink]
<1>1. read[t] \in Records /\ read[t].at = "disconnecting"
  BY DEF Disconnected, IInv, TypeInv
<1>2. /\ r \in Records /\ r.at = "idle" /\ r.link = read[t].link
      /\ r.future = read[t].future /\ r.outcome = read[t].outcome
  BY <1>1 DEF Records, Places, NoLink
<1>3. read' = [read EXCEPT ![t] = r]
  BY <1>1 DEF Disconnected, IInv, TypeInv
<1>4. /\ UNCHANGED <<client, sessionKey, seqNo, pending, reads, released, overlaps>>
      /\ links' \subseteq links /\ air' \subseteq air
  BY DEF Disconnected, fields
<1> HIDE DEF r
<1>5. read'[t] = r /\ read' \in [Tasks -> Records] /\ \A u \in Tasks \ {t} : read'[u] = read[u]
  BY <1>2, <1>3 DEF IInv, TypeInv
<1>6. \A u \in Tasks : /\ read'[u].link = read[u].link
                       /\ read'[u].future = read[u].future
                       /\ read'[u].outcome = read[u].outcome
                       /\ (Busy(u))' => Busy(u)
                       /\ (Running(u))' <=> Running(u)
                       /\ Running(u) => read'[u].at = read[u].at
  BY <1>1, <1>2, <1>5 DEF Busy, Running
<1>7. TypeInv'
  <2>1. \A u \in Tasks : (read[u].future = "open" => read[u].at = "waiting")'
    BY <1>1, <1>5, <1>6 DEF IInv, TypeInv
  <2> QED
    BY <1>4, <1>5, <1>6, <2>1 DEF IInv, TypeInv
<1>8. NewWhenNoneRuns' /\ BusyReadsOverlap'
  BY <1>4, <1>6 DEF IInv, NewWhenNoneRuns, BusyReadsOverlap
<1>9. HandleIsOfARunningRead'
  BY <1>4, <1>6 DEF IInv, HandleIsOfARunningRead
<1>10. LinksAccounted' /\ CancelledAccounted'
  BY <1>4, <1>6 DEF IInv, LinksAccounted, CancelledAccounted
<1> QED
  BY <1>7, <1>8, <1>9, <1>10 DEF IInv

LEMMA DeviceAnswersIInv ==
  ASSUME IInv, NEW f \in air, DeviceAnswers(f)
  PROVE  IInv'
<1>1. f \in Requests
  BY DEF IInv, TypeInv
<1>2. /\ UNCHANGED <<client, sessionKey, seqNo, reads, links, released, overlaps>>
      /\ pending' \subseteq pending /\ air' \subseteq air
  BY DEF DeviceAnswers
<1> DEFINE answer == [code |-> f.code, salt |-> f.link]
           Given(u) == [read[u] EXCEPT !.future = "answered", !.answer = answer]
<1>3. /\ read' \in [Tasks -> Records]
      /\ \A u \in Tasks : read'[u] = read[u] \/ read'[u] = Given(u)
  <2>1. answer \in Answers
    BY <1>1 DEF Requests, Answers
  <2>2. \A u \in Tasks : Given(u) \in Records
    BY <2>1 DEF IInv, TypeInv, Records, Futures
  <2> HIDE DEF Given, answer
  <2>3. \/ read' = read
        \/ \E S \in SUBSET Tasks :
             read' = [u \in Tasks |-> IF u \in S THEN Given(u) ELSE read[u]]
    <3> DEFINE takers == {p \in pending : p.number = f.number}
               S      == {u \in Tasks : \E p \in takers : p.task = u}
    <3>1. \/ read' = read
          \/ read' = [u \in Tasks |-> IF \E p \in takers : p.task = u
                                      THEN Given(u) ELSE read[u]]
      BY DEF DeviceAnswers, Given, answer
    <3>2. \A u \in Tasks : u \in S <=> \E p \in takers : p.task = u
      OBVIOUS
    <3>3. S \in SUBSET Tasks
      OBVIOUS
    <3> HIDE DEF S, takers
    <3>4. [u \in Tasks |-> IF \E p \in takers : p.task = u THEN Given(u) ELSE read[u]]
            = [u \in Tasks |-> IF u \in S THEN Given(u) ELSE read[u]]
      BY <3>2
    <3> QED
      BY <3>1, <3>3, <3>4
  <2> QED
    BY <2>2, <2>3 DEF IInv, TypeInv
<1>4. \A u \in Tasks : /\ read'[u].at = read[u].at /\ read'[u].link = read[u].link
                       /\ read'[u].outcome = read[u].outcome
                       /\ read'[u].future \in {read[u].future, "answered"}
  <2> SUFFICES ASSUME NEW u \in Tasks
               PROVE  /\ read'[u].at = read[u].at /\ read'[u].link = read[u].link
                      /\ read'[u].outcome = read[u].outcome
                      /\ read'[u].future \in {read[u].future, "answered"}
    OBVIOUS
  <2>1. read[u] \in Records
    BY DEF IInv, TypeInv
  <2>2. /\ Given(u).at = read[u].at /\ Given(u).link = read[u].link
        /\ Given(u).outcome = read[u].outcome /\ Given(u).future = "answered"
    BY <2>1 DEF Records
  <2> HIDE DEF Given
  <2> QED
    BY <1>3, <2>2
<1>5. TypeInv'
  <2>1. \A u \in Tasks : (Busy(u) => read[u].link # NoLink)'
    BY <1>4 DEF IInv, TypeInv, Busy
  <2>2. \A u \in Tasks : (read[u].future = "open" => read[u].at = "waiting")'
    BY <1>4 DEF IInv, TypeInv
  <2>3. \A u \in Tasks : (Running(u) => read[u].outcome = "none")'
    BY <1>4 DEF IInv, TypeInv, Running
  <2> QED
    BY <1>2, <1>3, <2>1, <2>2, <2>3 DEF IInv, TypeInv
<1>6. NewWhenNoneRuns' /\ BusyReadsOverlap'
  BY <1>2, <1>4 DEF IInv, NewWhenNoneRuns, BusyReadsOverlap, Busy, Running
<1>7. HandleIsOfARunningRead'
  BY <1>2, <1>4 DEF IInv, HandleIsOfARunningRead, Running
<1>8. LinksAccounted' /\ CancelledAccounted'
  BY <1>2, <1>4 DEF IInv, LinksAccounted, CancelledAccounted
<1> QED
  BY <1>5, <1>6, <1>7, <1>8 DEF IInv

\* Taking an answer issues the next request, or begins to collect.
LEMMA AnswerTakenIInv ==
  ASSUME IInv, NEW t \in Tasks, AnswerTaken(t)
  PROVE  IInv'
<1>1. read[t] \in Records /\ read[t].at = "waiting" /\ sessionKey \in Int
  BY DEF AnswerTaken, IInv, TypeInv
<1>2. CASE read[t].stage = "info"
  <2>1. read[t].answer.salt \in Int /\ IssueRequest(t, "pair", read[t].answer.salt)
    BY <1>1, <1>2 DEF AnswerTaken, Records, Answers
  <2> QED
    BY <1>1, <2>1, IssueRequestIInv DEF Stages
<1>3. CASE read[t].stage = "pair"
  BY <1>1, <1>3, IssueRequestIInv DEF AnswerTaken, Stages
<1>4. CASE read[t].stage = "status"
  <2> DEFINE r == [Idle EXCEPT !.at = "collecting", !.link = read[t].link]
  <2>1. /\ read' = [read EXCEPT ![t] = r] /\ pending' \subseteq pending
        /\ UNCHANGED <<client, sessionKey, seqNo, reads, released, overlaps, radio>>
    BY <1>4 DEF AnswerTaken, Unlisted
  <2>2. /\ r \in Records /\ r.at = "collecting" /\ r.link = read[t].link
        /\ r.outcome = "none" /\ r.future = "none"
    BY <1>1 DEF Idle, Records, Places, Stages, Futures, Answers, NoAnswer, Outcomes, NoLink
  <2> HIDE DEF r
  <2>3. Running(t) /\ read[t].at # "connecting"
    BY <1>1 DEF Running
  <2>4. /\ NewWhenNoneRuns' /\ BusyReadsOverlap' /\ HandleIsOfARunningRead'
        /\ LinksAccounted' /\ CancelledAccounted'
    BY <2>1, <2>2, <2>3, RunningReadMoves DEF Places, fields, radio
  <2>5. TypeInv'
    BY <1>1, <2>1, <2>2 DEF IInv, TypeInv, Busy, Running, fields, radio
  <2> QED
    BY <2>4, <2>5 DEF IInv
<1> QED
  BY <1>1, <1>2, <1>3, <1>4 DEF Records, Stages

-----------------------------------------------------------------------------
\* Every step of every task and of the device keeps the invariant.
LEMMA NextIInv == IInv /\ [Next]_vars => IInv'
<1> SUFFICES ASSUME IInv, [Next]_vars PROVE IInv'
  OBVIOUS
<1>1. ASSUME NEW t \in Tasks, StartRead(t) PROVE IInv'
  BY <1>1, StartReadIInv
<1>2. ASSUME NEW t \in Tasks, Connected(t) PROVE IInv'
  BY <1>2, ConnectedIInv
<1>3. ASSUME NEW t \in Tasks, Subscribed(t) PROVE IInv'
  <2>1. sessionKey \in Int
    BY DEF IInv, TypeInv
  <2> QED
    BY <1>3, <2>1, IssueRequestIInv DEF Subscribed, Stages
<1>4. ASSUME NEW t \in Tasks, AnswerTaken(t) PROVE IInv'
  BY <1>4, AnswerTakenIInv
<1>5. ASSUME NEW t \in Tasks, FutureCancelled(t) PROVE IInv'
  BY <1>5, TearDownIInv DEF FutureCancelled, Running, Outcomes
<1>6. ASSUME NEW t \in Tasks, Expires(t) PROVE IInv'
  BY <1>6, TearDownIInv DEF Expires, Outcomes
<1>7. ASSUME NEW t \in Tasks, GoesQuiet(t) PROVE IInv'
  BY <1>7, TearDownIInv DEF GoesQuiet, Running, Outcomes
<1>8. ASSUME NEW t \in Tasks, Disconnected(t) PROVE IInv'
  BY <1>8, DisconnectedIInv
<1>9. ASSUME NEW f \in air, DeviceAnswers(f) PROVE IInv'
  BY <1>9, DeviceAnswersIInv
<1>10. CASE UNCHANGED vars
  BY <1>10 DEF vars, fields, radio, IInv, TypeInv, NewWhenNoneRuns, BusyReadsOverlap,
              HandleIsOfARunningRead, LinksAccounted, CancelledAccounted, Busy, Running
<1> QED
  BY <1>1, <1>2, <1>3, <1>4, <1>5, <1>6, <1>7, <1>8, <1>9, <1>10 DEF Next

LEMMA SpecIInv == Spec => []IInv
<1> QED
  BY InitIInv, NextIInv, PTL DEF Spec

\* However many reads overlapped, and however each ended, the object is as new
\* once none is left (client.py:150-163).
THEOREM IdleIsNew == Spec => []IdleObjectIsNew
<1>1. IInv => IdleObjectIsNew
  BY DEF IInv, NewWhenNoneRuns, IdleObjectIsNew, AllIdle, Busy, Running
<1> QED
  BY <1>1, SpecIInv, PTL

\* A link that is left up when no read is in progress was opened by a read that
\* another one overlapped (client.py:132).
THEOREM NoLinkLostAlone == Spec => []LinksAreLostToOverlapOnly
<1>1. IInv => LinksAreLostToOverlapOnly
  <2> SUFFICES ASSUME IInv, AllIdle, NEW l \in links \ released
               PROVE  \E p \in overlaps : p[1] = l
    BY DEF LinksAreLostToOverlapOnly
  <2>1. client = NoLink
    BY DEF IInv, NewWhenNoneRuns, AllIdle, Busy, Running
  <2> QED
    BY <2>1 DEF IInv, TypeInv, LinksAccounted, NoLink
<1> QED
  BY <1>1, SpecIInv, PTL

\* A read that ends as cancelled, with nobody cancelling it, was overlapped by
\* another (client.py:153-155).
THEOREM NotCancelledAlone == Spec => []CancelledByOverlapOnly
<1>1. IInv => CancelledByOverlapOnly
  BY DEF IInv, CancelledAccounted, CancelledByOverlapOnly
<1> QED
  BY <1>1, SpecIInv, PTL
=============================================================================

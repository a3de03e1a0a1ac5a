------------------------- MODULE CommandLineProofs -------------------------
(***************************************************************************)
(* Theorems about CommandLine, for every set of devices and whatever they  *)
(* advertise, every number of advertisements, every uuid the user passes   *)
(* and every account.                                                      *)
(*                                                                         *)
(* The invariant has four parts: the account's HTTP sessions, the radio    *)
(* and the link, the sightings, and what the command made of them.         *)
(***************************************************************************)
EXTENDS CommandLine, WellFoundedInduction, TLAPS

-----------------------------------------------------------------------------
\* The account, in the hands of its one caller.

IsCall(r) ==
  r \in [at : {r.at}, list : {r.list}, account : {r.account}, left : {r.left},
         found : {r.found}, used : {r.used}, said : {r.said}, outcome : Cloud!Outcomes]

\* The HTTP sessions are numbered as they are opened, none was given to the
\* client, and all but the one it holds were closed.
AccountInv ==
  /\ call = [c \in {Self} |-> call[c]] /\ IsCall(call[Self])
  /\ owns = TRUE /\ opened \in Nat /\ closed \subseteq 1 .. opened
  /\ session \in {Cloud!NoSession} \cup 1 .. opened
  /\ (1 .. opened) \ closed \subseteq {session}
  /\ call[Self].at = "closing" => session \in closed

\* Nothing is left to close but during a listing.
ReleasedInv ==
  /\ at # "listing" => 1 .. opened \subseteq closed
  /\ at = "releasing" => call[Self].at \in {"idle", "closing"}

-----------------------------------------------------------------------------
\* The radio and the link.

Points == {"idle", "sweeping", "starting", "listening", "stopping", "reading",
           "listing", "releasing", "ended"}

RadioInv ==
  /\ command.name \in {"scan", "read", "credentials"} /\ at \in Points
  /\ command.name = "scan" => at \in {"idle", "sweeping", "ended"}
  /\ at \in {"listing", "releasing"} => command.name = "credentials"
  /\ exit # "none" => at = "ended"
  /\ at \in {"idle", "reading", "listing", "releasing"} => scanner = "off"
  /\ at = "ended" => scanner = "off" \/ exit \in {"bleak_error", "aborted"}
  /\ phase = "idle" => ~holding
  /\ phase # "idle" => at = "reading"
  /\ "malformed" \notin {verdict, outcome}

-----------------------------------------------------------------------------
\* The sightings.

Sightings == UNION {{Sighting(d, a) : a \in Broadcasts[d]} : d \in Devices}

\* A read that still waits has not heard of its device, and one that has stopped
\* waiting knows why.
SightingInv ==
  /\ heard \in Seq(Sightings)
  /\ FirstSightingIsUsed
  /\ found = Pending /\ command.name = "read" /\ verdict = "none" =>
       \A i \in DOMAIN heard : heard[i].device # command.device
  /\ at = "stopping" /\ verdict = "none" => found # Pending

CInv == AccountInv /\ ReleasedInv /\ RadioInv /\ SightingInv /\ IdentitiesAreTrue /\ ScanIsComplete

-----------------------------------------------------------------------------
\* The account keeps its part: a call that ends keeps the HTTP session, and a
\* post opens one only if there is none.

LEMMA EndKeepsAccount ==
  ASSUME AccountInv, NEW r, IsCall(r), NEW o \in Cloud!Outcomes, Cloud!End(Self, r, o),
         UNCHANGED <<owns, closed>>
  PROVE  AccountInv' /\ call'[Self].at = "idle" /\ UNCHANGED opened
<1> DEFINE e == [r EXCEPT !.at = "idle", !.outcome = o]
<1>1. IsCall(e) /\ e.at = "idle"
  BY DEF IsCall
<1>2. call' = [call EXCEPT ![Self] = e] /\ UNCHANGED <<session, opened>>
  BY DEF Cloud!End
<1>3. call' = [c \in {Self} |-> e]
  BY <1>2 DEF AccountInv
<1> HIDE DEF e
<1>4. call'[Self] = e /\ call' = [c \in {Self} |-> call'[c]]
  BY <1>3
<1> QED
  BY <1>1, <1>2, <1>4 DEF AccountInv

LEMMA PostKeepsAccount ==
  ASSUME AccountInv, NEW r, IsCall(r), r.at \in Cloud!Posts, Cloud!Post(Self, r),
         UNCHANGED <<owns, closed>>
  PROVE  AccountInv'
<1>1. CASE session \in closed
  <2>1. Cloud!End(Self, r, "runtime_error") /\ "runtime_error" \in Cloud!Outcomes
    BY <1>1 DEF Cloud!Post, Cloud!Outcomes
  <2> QED
    BY <2>1, EndKeepsAccount
<1>2. CASE session \notin closed
  <2> DEFINE e == [r EXCEPT !.used = @ \cup ({r.account} \ {Cloud!NoAccount})]
  <2>1. IsCall(e) /\ e.at \in Cloud!Posts
    BY DEF IsCall
  <2>2. /\ call' = [call EXCEPT ![Self] = e]
        /\ \/ session = Cloud!NoSession /\ session' = opened + 1 /\ opened' = opened + 1
           \/ UNCHANGED <<session, opened>>
    BY <1>2 DEF Cloud!Post
  <2>3. call' = [c \in {Self} |-> e]
    BY <2>2 DEF AccountInv
  <2> HIDE DEF e
  <2>4. call'[Self] = e /\ call' = [c \in {Self} |-> call'[c]] /\ e.at # "closing"
    BY <2>1, <2>3 DEF Cloud!Posts
  <2> QED
    BY <2>1, <2>2, <2>4 DEF AccountInv, Cloud!NoSession
<1> QED
  BY <1>1, <1>2

\* The next home of a listing, or its end.
LEMMA ListHomesKeepsAccount ==
  ASSUME AccountInv, NEW r, IsCall(r), Cloud!ListHomes(Self, r), UNCHANGED <<owns, closed>>
  PROVE  AccountInv'
<1>1. CASE r.left = <<>>
  <2>1. Cloud!End(Self, r, "ok") /\ "ok" \in Cloud!Outcomes
    BY <1>1 DEF Cloud!ListHomes, Cloud!Outcomes
  <2> QED
    BY <2>1, EndKeepsAccount
<1>2. CASE r.left # <<>>
  <2> DEFINE e == [r EXCEPT !.at = "devices"]
  <2>1. IsCall(e) /\ e.at \in Cloud!Posts
    BY DEF IsCall, Cloud!Posts
  <2>2. Cloud!Post(Self, e)
    BY <1>2 DEF Cloud!ListHomes
  <2> HIDE DEF e
  <2> QED
    BY <2>1, <2>2, PostKeepsAccount
<1> QED
  BY <1>1, <1>2

\* What a call was told changes nothing else of it.
LEMMA ToldIsCall ==
  ASSUME AccountInv, NEW verdicts, NEW r \in Cloud!Told(Self, verdicts)
  PROVE  IsCall(r) /\ r.at = call[Self].at
<1>1. PICK s : r = [call[Self] EXCEPT !.said = s]
  <2>1. PICK a \in {b \in Cloud!RepliesTo(call[Self].at) : b.verdict \in verdicts} :
          r = [call[Self] EXCEPT !.said = IF a.said = "nothing" THEN @ ELSE a.said]
    BY DEF Cloud!Told
  <2> QED
    BY <2>1
<1> QED
  BY <1>1 DEF AccountInv, IsCall

LEMMA BeginKeepsAccount ==
  ASSUME AccountInv, Cloud!ListDevices(Self)
  PROVE  AccountInv'
<1>1. /\ IsCall([Cloud!Idle EXCEPT !.at = "token", !.list = TRUE])
      /\ IsCall([Cloud!Idle EXCEPT !.at = "homes", !.list = TRUE, !.account = account])
      /\ [Cloud!Idle EXCEPT !.at = "token", !.list = TRUE].at \in Cloud!Posts
      /\ [Cloud!Idle EXCEPT !.at = "homes", !.list = TRUE, !.account = account].at \in Cloud!Posts
  BY DEF IsCall, Cloud!Idle, Cloud!Outcomes, Cloud!Posts
<1>2. \/ Cloud!Post(Self, [Cloud!Idle EXCEPT !.at = "token", !.list = TRUE])
      \/ Cloud!Post(Self, [Cloud!Idle EXCEPT !.at = "homes", !.list = TRUE, !.account = account])
  BY DEF Cloud!ListDevices
<1>3. UNCHANGED <<owns, closed>>
  BY DEF Cloud!ListDevices
<1> QED
  BY <1>1, <1>2, <1>3, PostKeepsAccount

\* An answer moves the call of a listing on; it comes to a post only.
LEMMA AnswerKeepsAccount ==
  ASSUME AccountInv,
         \/ Cloud!TokenAnswered(Self) \/ Cloud!LoginAnswered(Self)
         \/ Cloud!HomesAnswered(Self) \/ Cloud!DevicesAnswered(Self)
  PROVE  AccountInv' /\ call[Self].at \in Cloud!Posts
<1>1. UNCHANGED <<owns, closed>>
  BY DEF Cloud!TokenAnswered, Cloud!LoginAnswered, Cloud!HomesAnswered, Cloud!DevicesAnswered
<1>2. CASE Cloud!TokenAnswered(Self)
  <2>1. PICK r \in Cloud!Told(Self, {"object"}) :
          Cloud!Post(Self, [r EXCEPT !.at = "login"]) \/ Cloud!End(Self, r, "value_error")
    BY <1>2 DEF Cloud!TokenAnswered
  <2>2. IsCall(r)
    BY ToldIsCall
  <2>3. IsCall([r EXCEPT !.at = "login"]) /\ [r EXCEPT !.at = "login"].at \in Cloud!Posts
    BY <2>2 DEF IsCall, Cloud!Posts
  <2>4. "value_error" \in Cloud!Outcomes /\ call[Self].at \in Cloud!Posts
    BY <1>2 DEF Cloud!Outcomes, Cloud!Posts, Cloud!TokenAnswered
  <2> QED
    BY <1>1, <2>1, <2>2, <2>3, <2>4, PostKeepsAccount, EndKeepsAccount
<1>3. CASE Cloud!LoginAnswered(Self)
  <2>1. PICK r \in Cloud!Told(Self, {"object"}) :
          \/ Cloud!Post(Self, [r EXCEPT !.at = "homes", !.account = logins + 1])
          \/ Cloud!End(Self, r, "ok")
    BY <1>3 DEF Cloud!LoginAnswered
  <2>2. IsCall(r)
    BY ToldIsCall
  <2>3. /\ IsCall([r EXCEPT !.at = "homes", !.account = logins + 1])
        /\ [r EXCEPT !.at = "homes", !.account = logins + 1].at \in Cloud!Posts
    BY <2>2 DEF IsCall, Cloud!Posts
  <2>4. "ok" \in Cloud!Outcomes /\ call[Self].at \in Cloud!Posts
    BY <1>3 DEF Cloud!Outcomes, Cloud!Posts, Cloud!LoginAnswered
  <2> QED
    BY <1>1, <2>1, <2>2, <2>3, <2>4, PostKeepsAccount, EndKeepsAccount
<1>4. CASE Cloud!HomesAnswered(Self)
  <2>1. PICK r \in Cloud!Told(Self, {"list"}) :
          Cloud!ListHomes(Self, [r EXCEPT !.left = Cloud!Identified(homes)])
    BY <1>4 DEF Cloud!HomesAnswered
  <2>2. IsCall([r EXCEPT !.left = Cloud!Identified(homes)])
    BY ToldIsCall DEF IsCall
  <2>3. call[Self].at \in Cloud!Posts
    BY <1>4 DEF Cloud!Posts, Cloud!HomesAnswered
  <2> QED
    BY <1>1, <2>1, <2>2, <2>3, ListHomesKeepsAccount
<1>5. CASE Cloud!DevicesAnswered(Self)
  <2>1. PICK r \in Cloud!Told(Self, {"list"}) : Cloud!ListHomes(Self, Cloud!WithDevices(r))
    BY <1>5 DEF Cloud!DevicesAnswered
  <2>2. IsCall(Cloud!WithDevices(r))
    BY ToldIsCall DEF IsCall, Cloud!WithDevices
  <2>3. call[Self].at \in Cloud!Posts
    BY <1>5 DEF Cloud!Posts, Cloud!DevicesAnswered
  <2> QED
    BY <1>1, <2>1, <2>2, <2>3, ListHomesKeepsAccount
<1> QED
  BY <1>2, <1>3, <1>4, <1>5

\* A post that fails ends the call.
LEMMA FailureKeepsAccount ==
  ASSUME AccountInv,
         Cloud!Rejected(Self) \/ Cloud!Malformed(Self) \/ Cloud!Unreachable(Self)
           \/ Cloud!NotText(Self) \/ Cloud!Cancelled(Self)
  PROVE  AccountInv' /\ call'[Self].at = "idle" /\ UNCHANGED <<opened, closed>>
<1>1. UNCHANGED <<owns, closed>>
  BY DEF Cloud!Rejected, Cloud!Malformed, Cloud!Unreachable, Cloud!NotText, Cloud!Cancelled
<1>2. \E r : IsCall(r) /\ \E o \in Cloud!Outcomes : Cloud!End(Self, r, o)
  <2>1. CASE Cloud!Rejected(Self)
    <3>1. PICK r, v, o : /\ r \in Cloud!Told(Self, v) /\ Cloud!End(Self, r, o)
                         /\ o \in {"authentication", "cloud"}
      <4>1. CASE \E r \in Cloud!Told(Self, {"rejected"}) :
                   Cloud!End(Self, r, IF r.at \in {"token", "login"} THEN "authentication"
                                      ELSE "cloud")
        BY <4>1
      <4>2. CASE \E r \in Cloud!Told(Self, {"rate_limited"}) : Cloud!End(Self, r, "cloud")
        BY <4>2
      <4> QED
        BY <2>1, <4>1, <4>2 DEF Cloud!Rejected
    <3>2. IsCall(r) /\ o \in Cloud!Outcomes
      BY <3>1, ToldIsCall DEF Cloud!Outcomes
    <3> QED
      BY <3>1, <3>2
  <2>2. CASE Cloud!Malformed(Self)
    <3>1. PICK r, v : r \in Cloud!Told(Self, v) /\ Cloud!End(Self, r, "protocol")
      BY <2>2 DEF Cloud!Malformed
    <3>2. IsCall(r) /\ "protocol" \in Cloud!Outcomes
      BY <3>1, ToldIsCall DEF Cloud!Outcomes
    <3> QED
      BY <3>1, <3>2
  <2>3. CASE Cloud!Unreachable(Self)
    <3>1. /\ IsCall(call[Self]) /\ "connection" \in Cloud!Outcomes
          /\ Cloud!End(Self, call[Self], "connection")
      BY <2>3 DEF AccountInv, Cloud!Outcomes, Cloud!Unreachable
    <3> QED
      BY <3>1
  <2>4. CASE Cloud!Cancelled(Self)
    <3>1. /\ IsCall(call[Self]) /\ "cancelled" \in Cloud!Outcomes
          /\ Cloud!End(Self, call[Self], "cancelled")
      BY <2>4 DEF AccountInv, Cloud!Outcomes, Cloud!Cancelled
    <3> QED
      BY <3>1
  <2>5. CASE Cloud!NotText(Self)
    <3>1. /\ IsCall(call[Self]) /\ "value_error" \in Cloud!Outcomes
          /\ Cloud!End(Self, call[Self], "value_error")
      BY <2>5 DEF AccountInv, Cloud!Outcomes, Cloud!NotText
    <3> QED
      BY <3>1
  <2> QED
    BY <2>1, <2>2, <2>3, <2>4, <2>5
<1>3. PICK r : IsCall(r) /\ \E o \in Cloud!Outcomes : Cloud!End(Self, r, o)
  BY <1>2
<1> QED
  BY <1>1, <1>3, EndKeepsAccount

\* async_close leaves no HTTP session open.
LEMMA CloseKeepsAccount ==
  ASSUME AccountInv, Cloud!Close(Self)
  PROVE  /\ AccountInv' /\ 1 .. opened' \subseteq closed'
         /\ call'[Self].at \in {"idle", "closing"}
<1>1. CASE session # Cloud!NoSession
  <2> DEFINE e == [Cloud!Idle EXCEPT !.at = "closing"]
  <2>1. IsCall(e) /\ e.at = "closing"
    BY DEF IsCall, Cloud!Idle, Cloud!Outcomes
  <2>2. /\ call' = [call EXCEPT ![Self] = e] /\ closed' = closed \cup {session}
        /\ UNCHANGED <<session, opened, owns>>
    BY <1>1 DEF Cloud!Close, AccountInv
  <2>3. call' = [c \in {Self} |-> e]
    BY <2>2 DEF AccountInv
  <2> HIDE DEF e
  <2>4. call'[Self] = e /\ call' = [c \in {Self} |-> call'[c]]
    BY <2>3
  <2> QED
    BY <1>1, <2>1, <2>2, <2>4 DEF AccountInv
<1>2. CASE session = Cloud!NoSession
  <2>1. IsCall(Cloud!Idle) /\ "ok" \in Cloud!Outcomes
    BY DEF IsCall, Cloud!Idle, Cloud!Outcomes
  <2>2. Cloud!End(Self, Cloud!Idle, "ok") /\ UNCHANGED <<owns, closed, session, opened>>
    BY <1>2 DEF Cloud!Close, Cloud!End
  <2>3. 1 .. opened \subseteq closed
    BY <1>2 DEF AccountInv, Cloud!NoSession
  <2> QED
    BY <2>1, <2>2, <2>3, EndKeepsAccount
<1> QED
  BY <1>1, <1>2

LEMMA ClosedKeepsAccount ==
  ASSUME AccountInv, Cloud!Closed(Self)
  PROVE  AccountInv' /\ 1 .. opened' \subseteq closed' /\ call'[Self].at = "idle"
<1> DEFINE e == [[call[Self] EXCEPT !.at = "idle"] EXCEPT !.outcome = "ok"]
<1>1. IsCall(e) /\ e.at = "idle"
  BY DEF IsCall, AccountInv, Cloud!Outcomes
<1>2. call' = [c \in {Self} |-> e]
  BY DEF AccountInv, IsCall, Cloud!Closed
<1> HIDE DEF e
<1>3. call'[Self] = e /\ call' = [c \in {Self} |-> call'[c]]
  BY <1>2
<1>4. 1 .. opened \subseteq closed
  BY DEF Cloud!Closed, AccountInv
<1>5. session' = Cloud!NoSession /\ UNCHANGED <<owns, opened, closed>>
  BY DEF Cloud!Closed
<1> QED
  BY <1>1, <1>3, <1>4, <1>5 DEF AccountInv

-----------------------------------------------------------------------------
\* The HTTP sessions of the command.

LEMMA NextAccountInv ==
  ASSUME AccountInv, ReleasedInv, RadioInv, [Next]_vars
  PROVE  AccountInv' /\ ReleasedInv'
<1> USE DEF ReleasedInv
<1>1. ASSUME UNCHANGED cloudVars, at # "listing", at' # "listing",
             at' = "releasing" => at = "releasing"
      PROVE  AccountInv' /\ ReleasedInv'
  BY <1>1 DEF cloudVars, AccountInv
<1>2. CASE Begin
  <2>1. CASE command.name = "credentials"
    <3>1. Cloud!ListDevices(Self) /\ at' = "listing"
      BY <1>2, <2>1 DEF Begin
    <3> QED
      BY <3>1, BeginKeepsAccount
  <2>2. CASE command.name # "credentials"
    <3>1. UNCHANGED cloudVars /\ at = "idle" /\ at' \notin {"listing", "releasing"}
      BY <1>2, <2>2 DEF Begin, RadioInv
    <3> QED
      BY <1>1, <3>1
  <2> QED
    BY <2>1, <2>2
<1>3. CASE ListingEnds
  BY <1>3, CloseKeepsAccount DEF ListingEnds
<1>4. CASE PostAnswered \/ PostFails \/ PostTimesOut \/ CloudClosed
  <2>1. at \in {"listing", "releasing"} /\ at' = at
    BY <1>4 DEF PostAnswered, PostFails, PostTimesOut, CloudClosed, Listing, commandVars
  <2>2. CASE PostAnswered
    <3>1. AccountInv' /\ call[Self].at \in Cloud!Posts
      BY <2>2, AnswerKeepsAccount DEF PostAnswered
    <3>2. at = "listing"
      BY <2>1, <3>1 DEF Cloud!Posts
    <3> QED
      BY <2>1, <3>1, <3>2
  <2>3. CASE PostFails \/ PostTimesOut
    BY <2>1, <2>3, FailureKeepsAccount DEF PostFails, PostTimesOut
  <2>4. CASE CloudClosed
    BY <2>1, <2>4, ClosedKeepsAccount DEF CloudClosed
  <2> QED
    BY <1>4, <2>2, <2>3, <2>4
<1>5. CASE Released
  BY <1>1, <1>5 DEF Released, Ends
<1>6. CASE UNCHANGED vars
  BY <1>6 DEF vars, commandVars, cloudVars, AccountInv
<1>7. CASE ReadProceeds \/ ReadLetsGo \/ ReadReturned
  BY <1>1, <1>7 DEF ReadProceeds, ReadLetsGo, ReadReturned, Ends, commandVars
<1>8. CASE SweepEnds \/ ScannerStarted \/ SightingTaken \/ NotSeen
  BY <1>1, <1>8 DEF SweepEnds, ScannerStarted, SightingTaken, NotSeen, GivesUp, Ends
<1>9. CASE Stopped
  <2>1. UNCHANGED cloudVars /\ at = "stopping" /\ at' \in {"reading", "ended"}
    BY <1>9 DEF Stopped, Resolve, Ends
  <2> QED
    BY <1>1, <2>1
<1>10. CASE ScannerFails \/ Interrupted
  BY <1>1, <1>10 DEF ScannerFails, Interrupted, GivesUp, Breaks, Ends
<1>11. CASE \E d \in Devices : \E a \in Broadcasts[d] : Hear(d, a)
  BY <1>11 DEF Hear, cloudVars, AccountInv
<1> QED
  BY <1>2, <1>3, <1>4, <1>5, <1>6, <1>7, <1>8, <1>9, <1>10, <1>11 DEF Next

-----------------------------------------------------------------------------
\* The radio and the link.

\* Where a resolved sighting leaves the command.
LEMMA Resolved ==
  ASSUME RadioInv, NEW a, at = "stopping", Resolve(a)
  PROVE  \/ /\ at' = "reading" /\ UNCHANGED exit
            /\ phase' = "reading" /\ outcome' = "none" /\ UNCHANGED holding
         \/ at' = "ended" /\ UNCHANGED readVars
  BY DEF Resolve, Ends, Reading!Start

LEMMA NextRadioInv ==
  ASSUME AccountInv, RadioInv, [Next]_vars
  PROVE  RadioInv'
<1> USE DEF RadioInv, Points
<1>1. CASE Begin
  BY <1>1 DEF Begin, readVars
<1>2. CASE SweepEnds
  BY <1>2 DEF SweepEnds, Ends, readVars
<1>3. CASE ScannerStarted \/ SightingTaken \/ NotSeen
  BY <1>3 DEF ScannerStarted, SightingTaken, NotSeen, GivesUp, readVars
<1>4. CASE Stopped
  <2>1. /\ at = "stopping" /\ scanner' = "off" /\ UNCHANGED <<command, verdict>>
        /\ \/ Resolve(found.advertisement)
           \/ Ends(verdict) /\ UNCHANGED readVars
    BY <1>4 DEF Stopped
  <2>2. CASE Resolve(found.advertisement)
    BY <2>1, <2>2, Resolved DEF readVars
  <2>3. CASE Ends(verdict) /\ UNCHANGED readVars
    BY <2>1, <2>3 DEF Ends, readVars
  <2> QED
    BY <2>1, <2>2, <2>3
<1>5. CASE ScannerFails \/ Interrupted
  BY <1>5 DEF ScannerFails, Interrupted, GivesUp, Breaks, Ends, readVars
<1>6. CASE ReadProceeds
  BY <1>6 DEF ReadProceeds, Reading!Acquire, Reading!Climb, Reading!Gather, commandVars
<1>7. CASE ReadLetsGo
  <2>1. UNCHANGED commandVars /\ at = "reading"
    BY <1>7 DEF ReadLetsGo
  <2>2. CASE Reading!Finish
    BY <2>1, <2>2 DEF Reading!Finish, Reading!Allowed, commandVars
  <2>3. CASE Reading!Release
    BY <2>1, <2>3 DEF Reading!Release, commandVars
  <2> QED
    BY <1>7, <2>2, <2>3 DEF ReadLetsGo
<1>8. CASE ReadReturned
  BY <1>8 DEF ReadReturned, Ends, readVars
<1>9. CASE PostAnswered \/ PostFails \/ PostTimesOut \/ CloudClosed
  BY <1>9 DEF PostAnswered, PostFails, PostTimesOut, CloudClosed, Listing, commandVars, readVars
<1>10. CASE ListingEnds
  <2>1. ListingVerdict # "malformed"
    BY DEF ListingVerdict, AccountInv, IsCall, Cloud!Outcomes
  <2> QED
    BY <1>10, <2>1 DEF ListingEnds, readVars
<1>11. CASE Released
  BY <1>11 DEF Released, Ends, readVars
<1>12. CASE \E d \in Devices : \E a \in Broadcasts[d] : Hear(d, a)
  BY <1>12 DEF Hear, readVars
<1>13. CASE UNCHANGED vars
  BY <1>13 DEF vars, commandVars, readVars
<1> QED
  BY <1>1, <1>2, <1>3, <1>4, <1>5, <1>6, <1>7, <1>8, <1>9, <1>10, <1>11, <1>12, <1>13
  DEF Next

-----------------------------------------------------------------------------
\* The sightings.

\* What is heard of a device is not what it has not sent yet.
LEMMA SightingFacts ==
  ASSUME NEW s \in Sightings
  PROVE  /\ s # Pending /\ s.device \in Devices
         /\ s.advertisement \in Broadcasts[s.device]
         /\ s = Sighting(s.device, s.advertisement)
<1>0. PICK d \in Devices : s \in {Sighting(d, a) : a \in Broadcasts[d]}
  BY DEF Sightings
<1>1. PICK a \in Broadcasts[d] : s = Sighting(d, a)
  BY <1>0
<1>2. DOMAIN Sighting(d, a) = {"device", "advertisement"} /\ DOMAIN Pending = {"device"}
  BY DEF Sighting, Pending
<1> QED
  BY <1>1, <1>2 DEF Sighting

LEMMA HearKeepsSightings ==
  ASSUME RadioInv, SightingInv, NEW d \in Devices, NEW a \in Broadcasts[d], Hear(d, a)
  PROVE  SightingInv'
<1> DEFINE s == Sighting(d, a)
<1>1. s \in Sightings /\ s.device = d
  BY DEF Sightings, Sighting
<1>2. s # Pending
  BY <1>1, SightingFacts
<1> HIDE DEF s
<1>3. /\ heard' = Append(heard, s) /\ UNCHANGED <<command, at, verdict>>
      /\ found' = IF command.name = "read" /\ d = command.device
                     /\ found = Pending /\ verdict = "none"
                  THEN s ELSE found
  BY DEF Hear, s
<1>4. /\ heard' \in Seq(Sightings) /\ DOMAIN heard' = 1 .. Len(heard) + 1
      /\ DOMAIN heard = 1 .. Len(heard) /\ Len(heard) \in Nat
      /\ heard'[Len(heard) + 1] = s /\ \A i \in 1 .. Len(heard) : heard'[i] = heard[i]
  BY <1>1, <1>3 DEF SightingInv
<1>5. CASE command.name = "read" /\ d = command.device /\ found = Pending /\ verdict = "none"
  <2>1. found' = s
    BY <1>3, <1>5
  <2>2. \A j \in 1 .. Len(heard) : heard'[j].device # command.device
    BY <1>4, <1>5 DEF SightingInv
  <2>3. Len(heard) + 1 \in DOMAIN heard' /\ Len(heard) + 1 - 1 = Len(heard)
    BY <1>4
  <2>4. FirstSightingIsUsed'
    BY <1>1, <1>3, <1>4, <1>5, <2>1, <2>2, <2>3 DEF FirstSightingIsUsed
  <2> QED
    BY <1>2, <1>3, <1>4, <2>1, <2>4 DEF SightingInv, Pending
<1>6. CASE ~(command.name = "read" /\ d = command.device /\ found = Pending /\ verdict = "none")
  <2>1. found' = found
    BY <1>3, <1>6
  <2>2. FirstSightingIsUsed'
    <3> SUFFICES ASSUME found # Pending PROVE FirstSightingIsUsed'
      BY <2>1 DEF FirstSightingIsUsed, Pending
    <3>1. PICK i \in DOMAIN heard :
            /\ heard[i] = found /\ found.device = command.device
            /\ \A j \in 1 .. (i - 1) : heard[j].device # command.device
      BY DEF SightingInv, FirstSightingIsUsed
    <3>2. \A j \in 1 .. (i - 1) : j \in 1 .. Len(heard)
      BY <1>4
    <3>3. \A j \in 1 .. (i - 1) : heard'[j].device # command.device
      BY <1>4, <3>1, <3>2
    <3>4. i \in DOMAIN heard' /\ heard'[i] = found
      BY <1>4, <3>1
    <3> QED
      BY <1>3, <2>1, <3>1, <3>3, <3>4 DEF FirstSightingIsUsed
  <2>3. found = Pending /\ command.name = "read" /\ verdict = "none" =>
          \A i \in DOMAIN heard' : heard'[i].device # command.device
    <3> SUFFICES ASSUME found = Pending, command.name = "read", verdict = "none",
                        NEW i \in 1 .. Len(heard) + 1
                 PROVE  heard'[i].device # command.device
      BY <1>4
    <3>1. CASE i = Len(heard) + 1
      BY <1>1, <1>4, <1>6, <3>1
    <3>2. CASE i \in 1 .. Len(heard)
      BY <1>4, <3>2 DEF SightingInv
    <3> QED
      BY <1>4, <3>1, <3>2
  <2> QED
    BY <1>3, <1>4, <2>1, <2>2, <2>3 DEF SightingInv, Pending
<1> QED
  BY <1>5, <1>6

LEMMA NextSightingInv ==
  ASSUME RadioInv, SightingInv, [Next]_vars
  PROVE  SightingInv'
<1>1. CASE \E d \in Devices : \E a \in Broadcasts[d] : Hear(d, a)
  BY <1>1, HearKeepsSightings
<1>2. ASSUME UNCHANGED <<command, heard, found>>,
             command.name = "read" /\ verdict # "none" => verdict' # "none",
             at' = "stopping" =>
               verdict' # "none" \/ found # Pending \/ UNCHANGED <<at, verdict>>
      PROVE  SightingInv'
  BY <1>2 DEF SightingInv, FirstSightingIsUsed, Pending
<1>3. CASE Begin \/ SweepEnds
  BY <1>2, <1>3 DEF Begin, SweepEnds, Ends, RadioInv
<1>4. CASE ScannerStarted \/ SightingTaken
  BY <1>2, <1>4 DEF ScannerStarted, SightingTaken
<1>5. CASE NotSeen \/ ScannerFails \/ Interrupted
  BY <1>2, <1>5 DEF NotSeen, ScannerFails, Interrupted, GivesUp, Breaks, Ends
<1>6. CASE Stopped
  <2>1. UNCHANGED <<command, heard, found, verdict>> /\ at' \in {"reading", "ended"}
    BY <1>6 DEF Stopped, Resolve, Ends
  <2> QED
    BY <1>2, <2>1
<1>7. CASE ReadProceeds \/ ReadLetsGo \/ ReadReturned
  BY <1>2, <1>7 DEF ReadProceeds, ReadLetsGo, ReadReturned, Ends, commandVars
<1>8. CASE PostAnswered \/ PostFails \/ PostTimesOut \/ CloudClosed
  BY <1>2, <1>8 DEF PostAnswered, PostFails, PostTimesOut, CloudClosed, Listing, commandVars
<1>9. CASE ListingEnds \/ Released
  BY <1>2, <1>9 DEF ListingEnds, Released, Ends, RadioInv
<1>10. CASE UNCHANGED vars
  BY <1>2, <1>10 DEF vars, commandVars
<1> QED
  BY <1>1, <1>3, <1>4, <1>5, <1>6, <1>7, <1>8, <1>9, <1>10 DEF Next

-----------------------------------------------------------------------------
\* What the command makes of the sightings.

\* A record that parses is its sender's, and one that does not was damaged.
LEMMA ParsedIsTrue ==
  ASSUME NEW d \in Devices, NEW a \in Broadcasts[d]
  PROVE  LET info == ParseAdvertisement(a)
         IN  /\ info # Malformed =>
                  /\ info.uuid \in {NoUuid, d.uuid} /\ info.product \in {Absent, d.product}
                  /\ info.version # -1 => info.bound = d.bound
             /\ info = Malformed => ~a.payload.whole \/ a.payload.text = Undecodable
<1> DEFINE info    == ParseAdvertisement(a)
           product == ParseProductId(a.service)
<1>1. /\ product \in {Absent, d.product}
      /\ a.payload.length = "beyond_header" =>
           /\ a.payload.under = d.product /\ a.payload.text \in {d.uuid, Undecodable}
           /\ d.bound = (a.payload.flags \div 128 = 1)
  <2>1. /\ Len(a.service) >= 2 /\ a.service[1] = PRODUCT_ID_RECORD => Tail(a.service) = d.product
        /\ a.payload.length = "beyond_header" =>
             /\ a.payload.under = d.product /\ a.payload.text \in {d.uuid, Undecodable}
             /\ d.bound = (a.payload.flags \div 128 = 1)
    BY BroadcastsAssumption
  <2>2. product \in {Absent, Tail(a.service)}
    BY Zenon DEF ParseProductId
  <2>3. ~(Len(a.service) < 2 \/ a.service[1] # PRODUCT_ID_RECORD) => Tail(a.service) = d.product
    <3> DEFINE n == Len(a.service)
    <3>1. n \in Int
      OBVIOUS
    <3> QED
      BY <2>1
  <2>4. product # Absent => ~(Len(a.service) < 2 \/ a.service[1] # PRODUCT_ID_RECORD)
    BY Zenon DEF ParseProductId
  <2> QED
    BY <2>1, <2>2, <2>3, <2>4, Zenon
<1>2. Readable(product) \in {Absent, d.product}
  BY <1>1 DEF Readable
<1>3. \A p, u, v, b : [product |-> p, uuid |-> u, version |-> v, bound |-> b] # Malformed
  <2>1. /\ \A p, u, v, b : DOMAIN [product |-> p, uuid |-> u, version |-> v, bound |-> b]
                             = {"product", "uuid", "version", "bound"}
        /\ DOMAIN Malformed = {"malformed"}
    BY DEF Malformed
  <2> QED
    BY <2>1
<1> HIDE DEF product
<1>4. CASE a.payload.length # "beyond_header"
  <2>1. info = [product |-> Readable(product), uuid |-> NoUuid, version |-> -1, bound |-> FALSE]
    BY <1>4 DEF ParseAdvertisement, UuidIsMalformed, product
  <2>2. info # Malformed
    BY <1>3, <2>1
  <2> QED
    BY <1>2, <2>1, <2>2
<1>5. CASE a.payload.length = "beyond_header" /\ UuidIsMalformed(product, a.payload)
  <2>1. info = Malformed
    BY <1>5 DEF ParseAdvertisement, product
  <2>2. product = d.product
    BY <1>1, <1>5 DEF UuidIsMalformed
  <2>3. ~a.payload.whole \/ a.payload.text = Undecodable
    BY <1>1, <1>5, <2>2 DEF UuidIsMalformed, Decrypted
  <2> QED
    BY <2>1, <2>3
<1>6. CASE a.payload.length = "beyond_header" /\ ~UuidIsMalformed(product, a.payload)
  <2>1. info = [product |-> Readable(product),
                uuid    |-> IF product = Absent THEN NoUuid ELSE a.payload.text,
                version |-> a.payload.version,
                bound   |-> a.payload.flags \div 128 = 1]
    BY <1>6 DEF ParseAdvertisement, product
  <2>2. info # Malformed
    BY <1>3, <2>1
  <2>3. product # Absent => a.payload.text = d.uuid
    BY <1>1, <1>6 DEF UuidIsMalformed, Decrypted
  <2> QED
    BY <1>1, <1>2, <1>6, <2>1, <2>2, <2>3
<1> QED
  BY <1>4, <1>5, <1>6

\* Of the advertisements of a device that were heard, discover() hands over one.
LEMMA DiscoveredFacts ==
  ASSUME heard \in Seq(Sightings)
  PROVE  /\ \A s \in Discovered : s \in Sightings /\ \E i \in DOMAIN heard : heard[i] = s
         /\ \A i \in DOMAIN heard : \E s \in Discovered : s.device = heard[i].device
<1>1. DOMAIN heard = 1 .. Len(heard) /\ Len(heard) \in Nat
      /\ \A i \in DOMAIN heard : heard[i] \in Sightings
  OBVIOUS
<1>2. \A s \in Discovered : s \in Sightings /\ \E i \in DOMAIN heard : heard[i] = s
  BY <1>1 DEF Discovered
<1>3. ASSUME NEW i \in DOMAIN heard PROVE \E s \in Discovered : s.device = heard[i].device
  <2> DEFINE T == {j \in DOMAIN heard : heard[j].device = heard[i].device}
  <2>1. T \in SUBSET (1 .. Len(heard)) /\ T # {}
    BY <1>1
  <2> HIDE DEF T
  <2>2. PICK m \in T : \A k \in T : k <= m
    <3> DEFINE After == {Len(heard) - k : k \in T}
    <3>1. After \subseteq Nat /\ After # {}
      <4>1. \A k \in T : k \in 1 .. Len(heard)
        BY <2>1
      <4>2. \A k \in T : Len(heard) - k \in Nat
        BY <1>1, <4>1
      <4> QED
        BY <2>1, <4>2
    <3>2. PICK least \in After : \A l \in After : ~(<<l, least>> \in OpToRel(<, Nat))
      <4> HIDE DEF After
      <4> QED
        BY <3>1, NatLessThanWellFounded, WFMin
    <3>3. PICK m \in T : least = Len(heard) - m
      BY <3>2
    <3>4. ASSUME NEW k \in T PROVE k <= m
      <4>1. ~(<<Len(heard) - k, least>> \in OpToRel(<, Nat)) /\ Len(heard) - k \in Nat
        BY <3>1, <3>2
      <4> QED
        BY <1>1, <2>1, <3>1, <3>2, <3>3, <4>1 DEF OpToRel
    <3> QED
      BY <3>4
  <2>3. m \in DOMAIN heard /\ heard[m].device = heard[i].device
    BY DEF T
  <2>4. \A k \in (m + 1) .. Len(heard) : heard[k].device # heard[m].device
    <3> SUFFICES ASSUME NEW k \in (m + 1) .. Len(heard), heard[k].device = heard[m].device
                 PROVE  FALSE
      OBVIOUS
    <3>1. k \in DOMAIN heard
      BY <1>1, <2>3
    <3>2. k \in T
      BY <2>3, <3>1 DEF T
    <3> QED
      BY <1>1, <2>2, <2>3, <3>2
  <2>5. heard[m] \in Discovered
    BY <2>3, <2>4 DEF Discovered
  <2> QED
    BY <2>3, <2>5
<1> QED
  BY <1>2, <1>3

\* The end of a sweep lists what the two properties say.
LEMMA SweepIsTrue ==
  ASSUME RadioInv, SightingInv, IdentitiesAreTrue, SweepEnds
  PROVE  IdentitiesAreTrue' /\ ScanIsComplete'
<1> DEFINE tuya == {s \in Discovered : IsTuya(s.advertisement)}
<1>1. /\ \A s \in Discovered : s \in Sightings /\ \E i \in DOMAIN heard : heard[i] = s
      /\ \A i \in DOMAIN heard : \E s \in Discovered : s.device = heard[i].device
  BY DiscoveredFacts DEF SightingInv
<1>2. UNCHANGED <<command, heard, uuid>>
  BY DEF SweepEnds
<1>3. CASE \E s \in tuya : ParseAdvertisement(s.advertisement) = Malformed
  <2>1. exit' = "malformed" /\ UNCHANGED listed
    BY <1>3 DEF SweepEnds, Ends
  <2>2. PICK s \in tuya : ParseAdvertisement(s.advertisement) = Malformed
    BY <1>3
  <2>3. PICK i \in DOMAIN heard : heard[i] = s
    BY <1>1
  <2>4. s.device \in Devices /\ s.advertisement \in Broadcasts[s.device]
    BY <1>1, SightingFacts
  <2>5. ~s.advertisement.payload.whole \/ s.advertisement.payload.text = Undecodable
    BY <2>2, <2>4, ParsedIsTrue
  <2>6. \E j \in DOMAIN heard : LET p == heard[j].advertisement.payload
                                IN  ~p.whole \/ p.text = Undecodable
    BY <2>3, <2>5
  <2> QED
    BY <1>2, <2>1, <2>6 DEF IdentitiesAreTrue, ScanIsComplete
<1>4. CASE \A s \in tuya : ParseAdvertisement(s.advertisement) # Malformed
  <2>1. /\ listed' = {[device |-> s.device, info |-> ParseAdvertisement(s.advertisement)]
                        : s \in tuya}
        /\ exit' \in {"ok", "nothing"}
    BY <1>4 DEF SweepEnds, Ends
  <2>2. \A s \in tuya : /\ s.device \in Devices /\ s.advertisement \in Broadcasts[s.device]
                        /\ IsTuya(s.advertisement)
    BY <1>1, SightingFacts
  <2> HIDE DEF tuya
  <2>3. ASSUME NEW e \in listed'
        PROVE  /\ e.info.uuid \in {NoUuid, e.device.uuid}
               /\ e.info.product \in {Absent, e.device.product}
               /\ e.info.version # -1 => e.info.bound = e.device.bound
    <3>1. PICK s \in tuya :
            e = [device |-> s.device, info |-> ParseAdvertisement(s.advertisement)]
      BY <2>1
    <3>2. e.device = s.device /\ e.info = ParseAdvertisement(s.advertisement)
      BY <3>1
    <3> QED
      BY <1>4, <2>2, <3>2, ParsedIsTrue
  <2>4. IdentitiesAreTrue'
    BY <1>2, <2>1, <2>3 DEF IdentitiesAreTrue
  <2> DEFINE TuyaHeard == {d \in Devices : d.tuya /\ \E i \in DOMAIN heard : heard[i].device = d}
  <2>5. {e.device : e \in listed'} = {s.device : s \in tuya}
    <3>1. ASSUME NEW e \in listed' PROVE e.device \in {s.device : s \in tuya}
      BY <2>1
    <3>2. ASSUME NEW s \in tuya PROVE s.device \in {e.device : e \in listed'}
      <4>1. [device |-> s.device, info |-> ParseAdvertisement(s.advertisement)] \in listed'
        BY <2>1
      <4> QED
        BY <4>1
    <3> QED
      BY <3>1, <3>2
  <2>6. ASSUME NEW s \in tuya PROVE s.device \in TuyaHeard
    <3>1. s.device.tuya
      BY <2>2, BroadcastsAssumption
    <3>2. \E i \in DOMAIN heard : heard[i].device = s.device
      BY <1>1 DEF tuya
    <3> QED
      BY <2>2, <3>1, <3>2
  <2>7. ASSUME NEW d \in TuyaHeard PROVE d \in {s.device : s \in tuya}
    <3>1. PICK s \in Discovered : s.device = d
      BY <1>1
    <3>2. s.device \in Devices /\ s.advertisement \in Broadcasts[s.device]
      BY <1>1, SightingFacts
    <3>3. s \in tuya
      BY <3>1, <3>2, BroadcastsAssumption DEF tuya
    <3> QED
      BY <3>1, <3>3
  <2>8. {e.device : e \in listed'} = TuyaHeard
    BY <2>5, <2>6, <2>7
  <2>9. ScanIsComplete'
    BY <1>2, <2>8 DEF ScanIsComplete
  <2> QED
    BY <2>4, <2>9
<1> QED
  BY <1>3, <1>4

\* So does the uuid of a resolved sighting.
LEMMA ResolutionIsTrue ==
  ASSUME RadioInv, SightingInv, IdentitiesAreTrue, ScanIsComplete, Stopped
  PROVE  IdentitiesAreTrue' /\ ScanIsComplete'
<1>1. at = "stopping" /\ UNCHANGED <<command, heard, listed>>
  BY DEF Stopped
<1>2. exit = "none" /\ command.name # "scan"
  BY <1>1 DEF RadioInv
<1>3. ASSUME exit' # "malformed", UNCHANGED uuid PROVE IdentitiesAreTrue' /\ ScanIsComplete'
  BY <1>1, <1>2, <1>3 DEF IdentitiesAreTrue, ScanIsComplete
<1>4. CASE verdict # "none"
  <2>1. exit' = verdict /\ UNCHANGED uuid
    BY <1>4 DEF Stopped, Ends
  <2> QED
    BY <1>3, <2>1 DEF RadioInv
<1>5. CASE verdict = "none"
  <2> DEFINE a    == found.advertisement
             info == ParseAdvertisement(a)
  <2>1. Resolve(a) /\ found # Pending
    BY <1>1, <1>5 DEF Stopped, SightingInv
  <2>2. PICK i \in DOMAIN heard : heard[i] = found /\ found.device = command.device
    BY <2>1 DEF SightingInv, FirstSightingIsUsed
  <2>3. found \in Sightings
    BY <2>2 DEF SightingInv
  <2>4. command.device \in Devices /\ a \in Broadcasts[command.device]
    BY <2>2, <2>3, SightingFacts
  <2>5. /\ info # Malformed => info.uuid \in {NoUuid, command.device.uuid}
        /\ info = Malformed => ~a.payload.whole \/ a.payload.text = Undecodable
    BY <2>4, ParsedIsTrue
  <2>6. CASE command.uuid # NoUuid
    <3>1. uuid' = command.uuid /\ UNCHANGED exit
      BY <2>1, <2>6 DEF Resolve
    <3> QED
      BY <1>1, <1>2, <3>1 DEF IdentitiesAreTrue, ScanIsComplete
  <2>7. CASE command.uuid = NoUuid /\ info = Malformed
    <3>1. exit' = "malformed" /\ UNCHANGED uuid
      BY <2>1, <2>7 DEF Resolve, Ends
    <3>2. \E j \in DOMAIN heard : LET p == heard[j].advertisement.payload
                                  IN  ~p.whole \/ p.text = Undecodable
      BY <2>2, <2>5, <2>7
    <3> QED
      BY <1>1, <1>2, <3>1, <3>2 DEF IdentitiesAreTrue, ScanIsComplete
  <2>8. CASE command.uuid = NoUuid /\ info # Malformed /\ info.uuid = NoUuid
    <3>1. exit' = "no_uuid" /\ UNCHANGED uuid
      BY <2>1, <2>8 DEF Resolve, Ends
    <3> QED
      BY <1>3, <3>1
  <2>9. CASE command.uuid = NoUuid /\ info # Malformed /\ info.uuid # NoUuid
    <3>1. uuid' = info.uuid /\ UNCHANGED exit
      BY <2>1, <2>9 DEF Resolve
    <3>2. uuid' \in {d.uuid : d \in Devices \cap {command.device}}
      BY <2>4, <2>5, <2>9, <3>1
    <3> QED
      BY <1>1, <1>2, <3>1, <3>2 DEF IdentitiesAreTrue, ScanIsComplete
  <2> QED
    BY <2>6, <2>7, <2>8, <2>9
<1> QED
  BY <1>4, <1>5

\* After a scan has ended nothing more is heard, unless bleak failed.
LEMMA HearingIsTrue ==
  ASSUME RadioInv, SightingInv, IdentitiesAreTrue, ScanIsComplete,
         NEW d \in Devices, NEW a \in Broadcasts[d], Hear(d, a)
  PROVE  IdentitiesAreTrue' /\ ScanIsComplete'
<1>1. /\ heard' = Append(heard, Sighting(d, a)) /\ scanner = "on"
      /\ UNCHANGED <<command, uuid, listed, exit>>
  BY DEF Hear
<1>2. exit \notin {"ok", "nothing"}
  BY <1>1 DEF RadioInv
<1>3. \A i \in DOMAIN heard : i \in DOMAIN heard' /\ heard'[i] = heard[i]
  BY <1>1 DEF SightingInv
<1> QED
  BY <1>1, <1>2, <1>3 DEF IdentitiesAreTrue, ScanIsComplete

LEMMA NextTrue ==
  ASSUME AccountInv, RadioInv, SightingInv, IdentitiesAreTrue, ScanIsComplete, [Next]_vars
  PROVE  IdentitiesAreTrue' /\ ScanIsComplete'
<1>1. CASE SweepEnds
  BY <1>1, SweepIsTrue
<1>2. CASE Stopped
  BY <1>2, ResolutionIsTrue
<1>3. CASE \E d \in Devices : \E a \in Broadcasts[d] : Hear(d, a)
  BY <1>3, HearingIsTrue
<1>4. ASSUME UNCHANGED <<command, heard, uuid, listed>>,
             \/ UNCHANGED exit
             \/ exit' \in {"bleak_error", "aborted"}
             \/ exit' # "malformed" /\ command.name # "scan"
      PROVE  IdentitiesAreTrue' /\ ScanIsComplete'
  BY <1>4 DEF IdentitiesAreTrue, ScanIsComplete
<1>5. CASE Begin \/ ScannerStarted \/ SightingTaken \/ NotSeen
  BY <1>4, <1>5 DEF Begin, ScannerStarted, SightingTaken, NotSeen, GivesUp
<1>6. CASE ScannerFails \/ Interrupted
  BY <1>4, <1>6 DEF ScannerFails, Interrupted, GivesUp, Breaks, Ends
<1>7. CASE ReadProceeds \/ ReadLetsGo
  BY <1>4, <1>7 DEF ReadProceeds, ReadLetsGo, commandVars
<1>8. CASE ReadReturned
  BY <1>4, <1>8 DEF ReadReturned, Ends, RadioInv
<1>9. CASE PostAnswered \/ PostFails \/ PostTimesOut \/ CloudClosed
  BY <1>4, <1>9 DEF PostAnswered, PostFails, PostTimesOut, CloudClosed, Listing, commandVars
<1>10. CASE ListingEnds
  BY <1>4, <1>10 DEF ListingEnds
<1>11. CASE Released
  BY <1>4, <1>11 DEF Released, Ends, RadioInv
<1>12. CASE UNCHANGED vars
  BY <1>4, <1>12 DEF vars, commandVars
<1> QED
  BY <1>1, <1>2, <1>3, <1>5, <1>6, <1>7, <1>8, <1>9, <1>10, <1>11, <1>12 DEF Next

-----------------------------------------------------------------------------
\* The theorems.

LEMMA InitCInv == Init => CInv
<1> SUFFICES ASSUME Init PROVE CInv
  OBVIOUS
<1>1. AccountInv
  <2>1. call = [c \in {Self} |-> Cloud!Idle] /\ opened = 0 /\ closed = {} /\ owns = TRUE
        /\ session = Cloud!NoSession
    BY CallerAssumption DEF Init, Cloud!Init
  <2>2. IsCall(Cloud!Idle) /\ Cloud!Idle.at = "idle"
    BY DEF IsCall, Cloud!Idle, Cloud!Outcomes
  <2>3. call[Self] = Cloud!Idle /\ call = [c \in {Self} |-> call[c]]
    BY <2>1
  <2> QED
    BY <2>1, <2>2, <2>3 DEF AccountInv, Cloud!NoSession
<1>2. ReleasedInv
  BY DEF Init, Cloud!Init, ReleasedInv
<1>3. RadioInv
  BY DEF Init, Reading!Init, RadioInv, Points
<1>4. SightingInv
  BY DEF Init, SightingInv, FirstSightingIsUsed
<1>5. IdentitiesAreTrue /\ ScanIsComplete
  BY DEF Init, IdentitiesAreTrue, ScanIsComplete
<1> QED
  BY <1>1, <1>2, <1>3, <1>4, <1>5 DEF CInv

LEMMA NextCInv == CInv /\ [Next]_vars => CInv'
  BY NextAccountInv, NextRadioInv, NextSightingInv, NextTrue DEF CInv

LEMMA SpecCInv == Spec => []CInv
  BY InitCInv, NextCInv, PTL DEF Spec

\* A link is opened only after the scanner was stopped, whatever the device and
\* the read do (cli.py:128-134).
THEOREM RadioIsFree == Spec => []ScannerOffWhileReading
<1>1. CInv => ScannerOffWhileReading
  BY DEF CInv, RadioInv, ScannerOffWhileReading
<1> QED
  BY <1>1, SpecCInv, PTL

\* However many advertisements arrive before the task runs, the read uses the
\* first one of its device (cli.py:140-142).
THEOREM FirstSightingWins == Spec => []FirstSightingIsUsed
<1>1. CInv => FirstSightingIsUsed
  BY DEF CInv, SightingInv
<1> QED
  BY <1>1, SpecCInv, PTL

\* A scan lists exactly the Tuya devices it heard (cli.py:107-122, 188-193).
THEOREM ScansAreComplete == Spec => []ScanIsComplete
<1>1. CInv => ScanIsComplete
  BY DEF CInv
<1> QED
  BY <1>1, SpecCInv, PTL

\* What is read from the air of a device is its own, and only a damaged
\* advertisement is called malformed (advertisement.py:20-75).
THEOREM IdentitiesAreOwn == Spec => []IdentitiesAreTrue
<1>1. CInv => IdentitiesAreTrue
  BY DEF CInv
<1> QED
  BY <1>1, SpecCInv, PTL

\* A command that ended holds no link, no HTTP session and, unless bleak failed
\* or Ctrl-C hit one of its calls, no scan (cli.py:151-152, 184-185).
THEOREM EverythingIsReleased == Spec => []NothingHeldAtExit
<1>1. CInv => NothingHeldAtExit
  BY DEF CInv, RadioInv, ReleasedInv, NothingHeldAtExit
<1> QED
  BY <1>1, SpecCInv, PTL
=============================================================================

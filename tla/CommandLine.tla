---------------------------- MODULE CommandLine ----------------------------
(***************************************************************************)
(* The tuya-ble command of cli.py.  One behaviour is one process: `scan`   *)
(* sweeps for a while and lists what it heard, `read` waits for the first  *)
(* advertisement of one device and runs one read against it, `credentials` *)
(* lists the devices of an account.                                        *)
(*                                                                         *)
(* It composes the other parts: the read is what ReadContract promises     *)
(* (TuyaBleClient implements it), the listing is TuyaBleCloudClient with   *)
(* the command as its only caller, an advertisement is read as in          *)
(* Advertisement.  bleak's scanner is external: start() and stop() are     *)
(* awaits, and detections are callbacks between any two steps.             *)
(***************************************************************************)
EXTENDS Advertisement, FiniteSets, SequencesExt

CONSTANTS
  Devices,       \* what advertises nearby, and the identity each has
  Broadcasts,    \* Broadcasts[d]: the advertisements heard from device d
  MaxHeard,      \* bound: how many of them are heard
  PassedUuids,   \* uuids the user may pass with --uuid, NoUuid for none
  Reports,       \* what a device may report
  Callers, Loggers, Closers, MaxCalls, Accounts, Answers, Pairable   \* of the account

ASSUME MaxHeardAssumption == MaxHeard \in Nat

\* Only Tuya devices advertise the service, and a record that arrives is the
\* device's own: its product record, its uuid or bytes that hold no text, its flag.
ASSUME BroadcastsAssumption ==
  \A d \in Devices : \A a \in Broadcasts[d] :
    /\ IsTuya(a) <=> d.tuya
    /\ Len(a.service) >= 2 /\ a.service[1] = PRODUCT_ID_RECORD => Tail(a.service) = d.product
    /\ a.payload.length = "beyond_header" =>
         /\ a.payload.under = d.product /\ a.payload.text \in {d.uuid, Undecodable}
         /\ d.bound = (a.payload.flags \div 128 = 1)

VARIABLES
  command,      \* what the user asked for
  at,           \* the await the command is suspended on
  scanner,      \* whether the radio scans
  heard,        \* the advertisements heard while it did, in order
  found,        \* the future of _async_first_advertisement
  uuid,         \* the uuid the credentials of a read were made of
  listed,       \* what a scan lists
  verdict,      \* how the command will end, once it has cleaned up
  exit          \* how it ended

commandVars == <<command, at, scanner, heard, found, uuid, listed, verdict, exit>>

VARIABLES phase, holding, level, result, outcome
Reading == INSTANCE ReadContract
readVars == <<phase, holding, level, result, outcome>>

VARIABLES account, session, owns, opened, closed, logins, calls, call, homes, overlapped
Cloud == INSTANCE TuyaBleCloudClient
cloudVars == <<account, session, owns, opened, closed, logins, calls, call, homes, overlapped>>

vars == <<commandVars, readVars, cloudVars>>

-----------------------------------------------------------------------------
\* The command is the only caller of its client, and closes it.
Self     == CHOOSE c \in Callers : TRUE
ASSUME CallerAssumption == Callers = {Self} /\ Closers = {Self}

NoDevice == [name |-> "none"]
Pending  == [device |-> NoDevice]

Sighting(d, a) == [device |-> d, advertisement |-> a]

Init ==
  /\ command \in [name : {"scan", "credentials"}, device : {NoDevice}, uuid : {NoUuid}]
                 \cup [name : {"read"}, device : Devices, uuid : PassedUuids]
  /\ at = "idle" /\ scanner = "off" /\ heard = <<>> /\ found = Pending
  /\ uuid = NoUuid /\ listed = {} /\ verdict = "none" /\ exit = "none"
  /\ Reading!Init
  /\ Cloud!Init /\ owns

Ends(e) == at' = "ended" /\ exit' = e

\* bleak raises, or Ctrl-C cancels the await: whether the radio still scans is
\* up to bleak.
Breaks(e) == Ends(e) /\ scanner' \in {scanner, "off"}

Begin ==
  /\ at = "idle"
  /\ CASE command.name = "scan" -> at' = "sweeping" /\ scanner' = "on"
       [] command.name = "read" -> at' = "starting" /\ scanner' = "on"
       [] command.name = "credentials" -> at' = "listing" /\ UNCHANGED scanner
  /\ IF command.name = "credentials" THEN Cloud!ListDevices(Self) ELSE UNCHANGED cloudVars
  /\ UNCHANGED <<command, heard, found, uuid, listed, verdict, exit, readVars>>

-----------------------------------------------------------------------------
\* The radio.

\* Mutant: every sighting replaces the one before it.
HearTakingTheLast(d, a) ==
  /\ scanner = "on" /\ Len(heard) < MaxHeard
  /\ heard' = Append(heard, Sighting(d, a))
  /\ found' = IF command.name = "read" /\ d = command.device /\ verdict = "none"
              THEN Sighting(d, a) ELSE found
  /\ UNCHANGED <<command, at, scanner, uuid, listed, verdict, exit, readVars, cloudVars>>

\* An advertisement is heard; _detected() fulfils the future with the first one
\* of the device, unless the wait for it is over.
Hear(d, a) ==
  /\ scanner = "on" /\ Len(heard) < MaxHeard
  /\ heard' = Append(heard, Sighting(d, a))
  /\ found' = IF command.name = "read" /\ d = command.device
                 /\ found = Pending /\ verdict = "none"
              THEN Sighting(d, a) ELSE found
  /\ UNCHANGED <<command, at, scanner, uuid, listed, verdict, exit, readVars, cloudVars>>

-----------------------------------------------------------------------------
\* scan.

\* What discover() hands over: the last advertisement of each device heard.
Discovered ==
  {heard[i] : i \in {j \in DOMAIN heard :
                       \A k \in (j + 1) .. Len(heard) : heard[k].device # heard[j].device}}

\* Mutant: a device that only has service data is taken for another make.
SweepEndsByUuidAlone ==
  /\ at = "sweeping"
  /\ scanner' = "off"
  /\ LET tuya == {s \in Discovered : s.advertisement.uuids}
     IN  IF \E s \in tuya : ParseAdvertisement(s.advertisement) = Malformed
         THEN Ends("malformed") /\ UNCHANGED listed
         ELSE /\ listed' = {[device |-> s.device, info |-> ParseAdvertisement(s.advertisement)]
                              : s \in tuya}
              /\ Ends(IF tuya = {} THEN "nothing" ELSE "ok")
  /\ UNCHANGED <<command, heard, found, uuid, verdict, readVars, cloudVars>>

\* The sweep is over: every Tuya advertisement is parsed, and one that is
\* malformed raises out of the loop, before anything is listed.
SweepEnds ==
  /\ at = "sweeping"
  /\ scanner' = "off"
  /\ LET tuya == {s \in Discovered : IsTuya(s.advertisement)}
     IN  IF \E s \in tuya : ParseAdvertisement(s.advertisement) = Malformed
         THEN Ends("malformed") /\ UNCHANGED listed
         ELSE /\ listed' = {[device |-> s.device, info |-> ParseAdvertisement(s.advertisement)]
                              : s \in tuya}
              /\ Ends(IF tuya = {} THEN "nothing" ELSE "ok")
  /\ UNCHANGED <<command, heard, found, uuid, verdict, readVars, cloudVars>>

-----------------------------------------------------------------------------
\* read: the first advertisement.

\* Up to the first await of the read: the uuid is the user's or the one of the
\* very advertisement that ended the wait.
Resolve(a) ==
  LET given == command.uuid
      info  == ParseAdvertisement(a)
      Launch(u) == uuid' = u /\ at' = "reading" /\ Reading!Start /\ UNCHANGED exit
      Refuse(e) == Ends(e) /\ UNCHANGED <<uuid, readVars>>
  IN  CASE given # NoUuid    -> Launch(given)
        [] given = NoUuid /\ info = Malformed -> Refuse("malformed")
        [] given = NoUuid /\ info # Malformed ->
             IF info.uuid = NoUuid THEN Refuse("no_uuid") ELSE Launch(info.uuid)

ScannerStarted ==
  /\ at = "starting"
  /\ at' = "listening"
  /\ UNCHANGED <<command, scanner, heard, found, uuid, listed, verdict, exit,
                 readVars, cloudVars>>

\* Mutant: the scanner is stopped only when nothing was seen.
SightingTakenScanning ==
  /\ at = "listening" /\ found # Pending
  /\ Resolve(found.advertisement)
  /\ UNCHANGED <<command, scanner, heard, found, listed, verdict, cloudVars>>

\* wait_for() returns the sighting; the finally block awaits stop().
SightingTaken ==
  /\ at = "listening" /\ found # Pending
  /\ at' = "stopping"
  /\ UNCHANGED <<command, scanner, heard, found, uuid, listed, verdict, exit,
                 readVars, cloudVars>>

GivesUp(e) ==
  /\ at' = "stopping" /\ verdict' = e
  /\ UNCHANGED <<command, scanner, heard, found, uuid, listed, exit, readVars, cloudVars>>

\* Mutant: the timeout covers scanner.start() instead of the wait.
NotSeenWhileStarting == at = "starting" /\ GivesUp("not_seen")

\* The timer fires.  It wins over a sighting the command has not taken yet.
NotSeen == at = "listening" /\ GivesUp("not_seen")

\* stop() returns.  An error that was on its way goes on.
Stopped ==
  /\ at = "stopping"
  /\ scanner' = "off"
  /\ IF verdict = "none" THEN Resolve(found.advertisement)
     ELSE Ends(verdict) /\ UNCHANGED <<uuid, readVars>>
  /\ UNCHANGED <<command, heard, found, listed, verdict, cloudVars>>

ScannerFails ==
  /\ at \in {"sweeping", "starting", "stopping"}
  /\ Breaks("bleak_error")
  /\ UNCHANGED <<command, heard, found, uuid, listed, verdict, readVars, cloudVars>>

\* Ctrl-C, but in the read and in the listing, where it is the cancellation
\* their own modules have.
Interrupted ==
  \/ at = "listening" /\ GivesUp("aborted")
  \/ /\ at \in {"sweeping", "starting", "stopping"}
     /\ Breaks("aborted")
     /\ UNCHANGED <<command, heard, found, uuid, listed, verdict, readVars, cloudVars>>

-----------------------------------------------------------------------------
\* read: the read.

ReadProceeds ==
  /\ at = "reading"
  /\ Reading!Acquire \/ Reading!Climb \/ Reading!Gather
  /\ UNCHANGED <<commandVars, cloudVars>>

ReadLetsGo ==
  /\ at = "reading"
  /\ Reading!Finish \/ Reading!Release
  /\ UNCHANGED <<commandVars, cloudVars>>

\* The read returned, and what it returned is printed, or it raised.
ReadReturned ==
  /\ at = "reading" /\ phase = "idle"
  /\ Ends(outcome)
  /\ UNCHANGED <<command, scanner, heard, found, uuid, listed, verdict, readVars, cloudVars>>

-----------------------------------------------------------------------------
\* credentials: one listing, in an `async with` of the client.

Listing == at \in {"listing", "releasing"} /\ UNCHANGED <<commandVars, readVars>>

PostAnswered ==
  /\ Listing
  /\ \/ Cloud!TokenAnswered(Self) \/ Cloud!LoginAnswered(Self)
     \/ Cloud!HomesAnswered(Self) \/ Cloud!DevicesAnswered(Self)

PostFails ==
  /\ Listing
  /\ \/ Cloud!Rejected(Self) \/ Cloud!Malformed(Self) \/ Cloud!NotText(Self)
     \/ Cloud!Cancelled(Self)

PostTimesOut == Listing /\ Cloud!Unreachable(Self)
CloudClosed  == Listing /\ Cloud!Closed(Self)

\* What the listing came to; an account without devices ends with exit code 1.
ListingVerdict ==
  IF call[Self].outcome = "ok" /\ call[Self].found = <<>> THEN "nothing"
  ELSE call[Self].outcome

\* Mutant: the client is closed only if the listing succeeded.
ListingEndsClosingAfterSuccess ==
  /\ at = "listing" /\ call[Self].at = "idle"
  /\ at' = "releasing" /\ verdict' = ListingVerdict
  /\ IF verdict' = "ok" THEN Cloud!Close(Self) ELSE UNCHANGED cloudVars
  /\ UNCHANGED <<command, scanner, heard, found, uuid, listed, exit, readVars>>

\* The listing returned or raised: either way __aexit__ closes the client.
ListingEnds ==
  /\ at = "listing" /\ call[Self].at = "idle"
  /\ at' = "releasing" /\ verdict' = ListingVerdict
  /\ Cloud!Close(Self)
  /\ UNCHANGED <<command, scanner, heard, found, uuid, listed, exit, readVars>>

Released ==
  /\ at = "releasing" /\ call[Self].at = "idle"
  /\ Ends(IF call[Self].outcome = "cancelled" THEN "cancelled" ELSE verdict)
  /\ UNCHANGED <<command, scanner, heard, found, uuid, listed, verdict, readVars, cloudVars>>

-----------------------------------------------------------------------------
Next ==
  \/ Begin \/ SweepEnds \/ ScannerStarted \/ SightingTaken \/ NotSeen \/ Stopped
  \/ ScannerFails \/ Interrupted
  \/ ReadProceeds \/ ReadLetsGo \/ ReadReturned
  \/ PostAnswered \/ PostFails \/ PostTimesOut \/ ListingEnds \/ CloudClosed \/ Released
  \/ \E d \in Devices : \E a \in Broadcasts[d] : Hear(d, a)

\* The task runs when it can; asyncio fires the timers of the sweep, of the wait
\* and of a post; bleak's start() and stop() and aiohttp's close() return; a
\* read ends (TuyaBleClient!ReadEnds).
Fairness ==
  /\ WF_vars(Begin) /\ WF_vars(SweepEnds) /\ WF_vars(ScannerStarted)
  /\ WF_vars(NotSeen) /\ WF_vars(Stopped)
  /\ WF_vars(ReadLetsGo) /\ WF_vars(ReadReturned)
  /\ WF_vars(PostTimesOut) /\ WF_vars(ListingEnds) /\ WF_vars(CloudClosed)
  /\ WF_vars(Released)

Spec == Init /\ [][Next]_vars /\ Fairness

-----------------------------------------------------------------------------
\* The scan stops at the first sighting and the connection happens then: the read
\* begins only once the scanner was stopped (cli.py:128-131, 151-152).
ScannerOffWhileReading == phase # "idle" => scanner = "off"

\* The advertisement that ends the wait, and that the uuid is read from, is the
\* first the device sent, whatever is heard while the task has not run or the
\* scanner is being stopped (cli.py:140-142).
FirstSightingIsUsed ==
  found # Pending =>
    \E i \in DOMAIN heard :
      /\ heard[i] = found /\ found.device = command.device
      /\ \A j \in 1 .. (i - 1) : heard[j].device # command.device

\* A scan that ends lists exactly the Tuya devices that were heard, whichever of
\* their two records were heard last (cli.py:107-122, 188-193).
ScanIsComplete ==
  command.name = "scan" /\ exit \in {"ok", "nothing"} =>
    {e.device : e \in listed} = {d \in Devices : d.tuya /\ \E i \in DOMAIN heard : heard[i].device = d}

\* An identity that was read from the air is that of the device it is given for,
\* bound or not, and an advertisement is called malformed only if one was
\* damaged (advertisement.py:20-75).
IdentitiesAreTrue ==
  /\ \A e \in listed : /\ e.info.uuid \in {NoUuid, e.device.uuid}
                        /\ e.info.product \in {Absent, e.device.product}
                        /\ e.info.version # -1 => e.info.bound = e.device.bound
  /\ uuid \in {NoUuid, command.uuid} \cup {d.uuid : d \in Devices \cap {command.device}}
  /\ exit = "malformed" =>
       \E i \in DOMAIN heard : LET p == heard[i].advertisement.payload
                               IN  ~p.whole \/ p.text = Undecodable

\* A command that ended holds nothing: no link, no HTTP session that was not
\* closed, and no scan unless bleak itself failed or Ctrl-C hit one of its calls
\* (cli.py:151-152, 184-185).
NothingHeldAtExit ==
  exit # "none" =>
    /\ ~holding /\ 1 .. opened \subseteq closed
    /\ exit \notin {"bleak_error", "aborted"} => scanner = "off"

\* Every command ends, whatever is heard (cli.py:109, 147).
CommandEnds == <>(exit # "none")
=============================================================================

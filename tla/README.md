# A formal model of tuya-ble-sdk

TLA+ models of the Tuya BLE reader, the fragments it speaks in, the reports it
parses and the cloud client that finds its credentials; TLC configurations that
check them; and TLAPS proofs of what matters most. Paths such as `client.py:164`
are under `src/tuya_ble_sdk/` of the repository; `README.md:21` is the
repository's own README.

## The system

| component | state it keeps | operations | what makes it hard |
|---|---|---|---|
| **Reader** (`client.py`) | the link, the session key, the version, the sequence counter, the futures by number, the queue of reports, the reply tasks | `async_read_data_points`: connect, handshake (information, pairing), status request, collection, disconnect; the notification callback; reply tasks | a callback and tasks run between any two awaits of the read; six timers and cancellation; a link can outlive its session; one object runs many sessions |
| **Frame, fragments** (`protocol/frame.py`, `reassembler.py`, `varint.py`) | the reassembly buffer, the expected length, the next index | `build_packets`, `feed`, `decode` | lost fragments, halves of two frames, several writers |
| **Reports** (`commands/data_points.py`) | none | `parse_timestamp`, `parse_data_points` | lengths chosen by the device, boundaries |
| **Records** (`commands/device_info.py`, `pair.py`) | none | parse the information answer, judge the pairing | errors at each stage mean different things |
| **Cloud account** (`cloud/client.py`, `gateway.py`) | the account, the HTTP session and who owns it | `async_login`, `async_list_devices`, `async_close` | tasks share one client; state read before an await is used after it |
| **Cloud wire format** (`cloud/body.py`, `crypto.py`, `signing.py`, `json_values.py`) | none | sign, seal, open, narrow JSON | an error may stand in either of two nested objects |
| **Advertisement** (`advertisement.py`) | none | decode what a device broadcasts | two records, one the key of the other, either missing or damaged |
| **Clock replies** (`commands/time_reply.py`) | none | lay the time out | daylight saving, zones west of UTC |
| **Command line** (`cli.py`) | a future for the first sighting, the scanner | scan, read, credentials | detections, a timeout and Ctrl-C race; cleanup on every path |

How they interact. The event loop calls the reader's `_on_notification` with a
fragment; the reassembler joins them, the frame is decrypted with the key it
announces and dispatched: to the future of the request whose number it quotes,
or to the handler of device-initiated frames, which queues a parsed report and
schedules a reply task. The read awaits the future or the queue. Teardown
cancels the tasks and futures, resets every field and hands the link to bleak.
The cloud client and the reader share nothing; the caller carries credentials
from one to the other. The command line is such a caller of both, and the only
part that scans.

What makes each correct: the reader loses no slot, mixes no two sessions,
returns what it acknowledged and always ends; the fragment layer is a lossy
channel in order; a report is read exactly as it was written or refused as a
whole; a listing is complete and of one account, errors of the gateway are told
for what they are, and HTTP sessions are closed; a command connects to the device
it saw first, never while it scans, and ends with nothing held.

## The modules

| module | models | lines of the code |
|---|---|---|
| `TuyaBleClient` | the reader, the device, the radio and the event loop | `client.py`, `pair.py` |
| `ReadContract` | what a read promises its caller, without frames or tasks | abstract |
| `SessionBudget` | the durations of one read | `client.py:50-56` and the awaits they bound |
| `Reassembler` | fragmentation, reassembly and acceptance, as operators | `frame.py`, `reassembler.py`, `varint.py` |
| `FragmentChannel` | frames crossing a link fragment by fragment; composes `Reassembler` | `client.py:261-277, 302-318` |
| `FrameChannel` | a lossy channel in order | abstract |
| `SharedClient` | several reads at once on one object | `client.py:90-214` |
| `DataPoints` | the report parser, record by record, and the merge | `data_points.py`, `client.py:215-227` |
| `Envelope` | what an answer of the gateway comes to, as operators | `gateway.py:69-123, 186-201`, `json_values.py` |
| `TuyaBleCloudClient` | account and HTTP session shared by tasks; uses `Envelope` | `cloud/client.py`, `gateway.py` |
| `Advertisement` | what is read out of an advertisement, as operators | `advertisement.py`, `crypto.py:67-87` |
| `CommandLine` | the commands and the scanner; composes `ReadContract`, `TuyaBleCloudClient`, `Advertisement` | `cli.py` |
| `ClockReply` | the answers to a clock request | `time_reply.py` |
| `TuyaBleClientProofs`, `SessionBudgetProofs`, `SharedClientProofs`, `FragmentChannelProofs`, `DataPointsProofs`, `TuyaBleCloudClientProofs`, `CommandLineProofs` | theorems | |
| `Induction` | lemmas: induction over the naturals, along a fold, for a recursive function | |
| `MC...` | values for TLC | |

### TuyaBleClient

State. `client`, `sessionKey`, `protocolVersion`, `seqNo`, `pending`, `reports`
and `background` are the fields of `__init__`; `reply` is what the outstanding
future holds; `pc` is the await the read is suspended on and `stage` the request
it is at; `ready` is the loop's queue of woken tasks. `links`, `inbox`, `air`,
`answered`, `pushed` and `device` are the other side. `released` records the
links that were handed to `disconnect()`.

Grain. A step runs one task from one await to the next, as asyncio does, so a
callback can fall between any two steps and never inside one. Two tasks that
are ready run in the order they became ready: `ready` is a queue because
asyncio's is, with the default task factory (an eager one would run a reply at
once). The read's resumption after its own I/O or its own timer is one step with
the event. If an answer arrives before the write of the request has returned,
the future is done when it is awaited, and the answer is taken in the step of
the write. A frame counts as in the air when its first write starts.

Abstractions. A frame is a record of link, key, code, numbers and a verdict on
its body; it is readable exactly under its own key. The n-th read opens link n
and the device discloses a salt of its own on each, so links name keys.
`DataPoints` shows which reports fall under the kinds `report`, `empty_report`
and `bad_report`. `_authentication_key` is left out: no frame the client asks
for uses it. The device pushes only under the salt it disclosed, which is what
`client.py:174` says of the login key; the proofs show where the code depends on
that (`InboxInv`): a push under the login key that arrived during teardown would
be queued for the next read.

Credentials too long for a pairing request (`pair.py:25`) end the read after the
information answer was adopted and before anything is sent: `device.fits`.

Each device either drops its link when a disconnect fails or times out, or keeps
it up and goes on delivering: `device.lingers`. With one that lingers, the
properties that tie every frame to its session do not hold (finding
`stale_salt`), so `ReportsAreOfThisRead` and `KeysMatchLinks` speak of devices
that do not; everything else in `Reader.cfg` is asked of both.

### SharedClient

The same code with the fields in the object and the rest of a read per task. What
the device pushes is left out, and a frame and its answer are one unit, so that
what two reads do to each other fits: the later connection replaces `_client`,
numbers start over under a read that goes on, a teardown cancels every future and
hands over whatever link it finds, and a request that ends takes out the future
registered under its number, whosever it is by then. The model shows what that
does: the first link can stay up with nobody left to disconnect it, and a read can
end in a CancelledError nobody sent. The properties say how far the damage goes:
only to reads that overlapped, and the object is as new when they are over.

### CommandLine

One behaviour is one command. A detection is a step between any two others and,
as in bleak, happens only while the scanner is on, which includes the await of
`stop()`. `ReadContract` stands for the read and `TuyaBleCloudClient` for the
listing, with the command as its only task; both are instantiated on variables of
their own. bleak may raise from each of its calls, and Ctrl-C cancels the await a
command is suspended on; whether the radio still scans after either hit one of
bleak's own calls is up to bleak. A timeout wins over a sighting that is there
but not yet taken: asyncio's timer cancels a task that has not resumed.

### The others

`SessionBudget` has time as a variable, and one action for each way an await
ends; timers fire before time passes them. The session's deadline wins over a timer
due at the same moment: with two cancellations pending, asyncio's inner timeout
leaves the exception to the outer one.

`FragmentChannel` cuts a payload as `build_packets` does and feeds it to `Feed`,
with the three points at which a truncated header raises. A payload decodes if
it is all pieces of one frame in order: the CRC is taken to be perfect. Of a frame
whose data fills its last block there is no CRC (`frame.py:145`), and then it is
enough that the first block, with the header, and the length are right
(`Unprotected`). Such a payload with a garbled tail is accepted: the channel
promises nothing undamaged is lost and nothing out of order is delivered, and the
reader's model, in which a frame is lost when a fragment of it is, stands for
frames with a CRC. `build_packets` never makes another. A stray chunk is no piece
of a frame that was sent (`NoiseAssumption`): a BLE link repeats and reorders
nothing of what it carries, so a fragment of a frame arrives once, in its place, or
not at all.

`ClockReply` has the seasons of a time zone as its only state.

`DataPoints` works on bytes; which sequences of them are text is a parameter,
`Utf8`. Its reference is `IsList`, the grammar of reports:
bytes that can be cut into records. The two timestamp lengths are parameters,
scaled down from 13 and 4 so that a timed report with records is short enough to
enumerate.

`TuyaBleCloudClient` has one record per task: the post it awaits, the account of
the listing, the homes left, what it found. `Post` is `_async_post` up to its
await and opens the HTTP session if there is none; `Close` and `Closed` are the
two sides of the await in `async_close`. An answer is an envelope of `Envelope`:
`Replies` is what `Call` makes of each, and `said` keeps what the gateway said in
it, which `ErrorsAreTold` compares with the outcome. Nothing is assumed of the
gateway: the answers are all the envelopes there are. `Said` reads one off its two
objects, field by field: where the sealed object has a word it is the last
(`{**envelope, **inner}`, `gateway.py:192`), so an error of the outer object can
be "withdrawn" by it; and an error beside a string that cannot be opened is
"unread", because that string is opened first (`gateway.py:191`). `ErrorsAreTold`
says what becomes of each. A device record stands for its id, by which
`client.py:136` knows a device again.

That `close()` can suspend, and that a closing session refuses posts with
RuntimeError, is aiohttp's behaviour. Both tasks may close. `overlapped` is a
history variable, read by no action: an `async_close` began while another awaited
its `close()`. Until that happens no HTTP session is lost, which is what
`SessionsAreReleased` says. After it one can be: the first close returns, a post
opens a session, and the second close sets `_session` to None over it
(`gateway.py:129`).

## The runs

| run | result | what it shows |
|---|---|---|
| `reader` | passes | nothing of a session is left from teardown on; every link is handed over; frames of a link are numbered apart; a result comes over the read's own link, after three answers; what is acknowledged is returned; nothing is written after hand-over; if disconnects close the link, queued reports are of this read and every frame is under its own link's key; `ReadContract` is implemented; every read ends |
| `shared_client` | passes | overlapping reads leave an object as new; links and answers are lost only to a read that overlapped; every read ends |
| `budget` | passes | 60 s to hand over, 5 s more to return, quiet means quiet |
| `fragments` | passes | the fragment layer implements `FrameChannel`; undamaged frames arrive |
| `reports` | passes | every short report is read as the grammar reads it, or refused as a whole, and merged record by record |
| `cloud_calls` | passes | listings are complete and of one account; no HTTP session is lost unless two closes overlapped; the gateway's last word on an error is told for what it is |
| `command_line` | passes | the first sighting is used, and never while the radio scans; a scan is complete and its identities true; a command ends with nothing held |
| `stale_salt` | violated | `client.py:193`: a late answer gives the next session its salt |
| `version_overflow` | violated | `tuya_ble_error.py:8`: struct.error from a version above 15 |
| `concurrent_writes` | violated | `client.py:264`: concurrent senders interleave fragments |
| `empty_string` | violated | `data_points.py:42`: a last record without value bytes is skipped |
| `clock_offset` | violated | `time_reply.py:15`: the offset ignores daylight saving |

Every passing property is broken by a mutant of the code it is about, named in
`PROJECT.json` and defined beside the definition it mutates.

Four more things the models contain and no run asks for. A disconnect that hangs
is given up after `DISCONNECT_TIMEOUT` and the read returns with the link up,
where `README.md:21` says the connection is given back "whatever the radio is
doing". Two first listings at once both log in, where `README.md:76` says "one
client is one login". Two overlapping `async_close` can lose the HTTP session a
post opened between their ends, which `cloud/client.py:142` says is released:
without `~overlapped`, `SessionsAreReleased` fails in seven steps. And a login
that the gateway rejects beside a string that cannot be opened ends as an
unreadable answer, where `cloud/client.py:75` says a rejection is reported as an
authentication error: `ErrorsAreTold` states what the code does.

Bounds. `Reader.cfg` has two reads, so every hazard between a session and the next
occurs, and two pushes, so a push can race another and its reply. The pushes are
those that take different paths: queued and answered, unreadable, answered alone
(a clock request, or an empty report). `SupportedVersions` is the version the code
supports; `AnyVersion` adds one that does not fit. `Fragments.cfg` has four frames
of two and three fragments, the sizes of one and two AES blocks, one of them
without a CRC, and a stray fragment of the length that completes it. `Reports.cfg`
has reports of seven bytes: two records, one of them with a value byte, or one of
up to three value bytes and what is left over. `CloudCalls.cfg` has two tasks and
five calls: either can log in and close within the other's listing or close, and
calls can follow; and every envelope is among the answers. `CommandLine.cfg` hears
three advertisements of three devices, bound, unbound and of another make, whole,
partial or damaged: one before, one at and one after the moment a command looks.
`SharedClient.cfg` has three reads by two tasks, so that a third can begin in the
middle of a second. `ClockOffset.cfg` has zones on both sides of UTC and a year of
seasons. `CHECK_DEADLOCK FALSE` everywhere: the caller stops when it has made its
reads or calls, a report ends when it is parsed, a read when it returned.

Fairness. `LiveSpec` assumes that the deadline of the session and the timer of
the disconnect fire (`client.py:108`, `165`): asyncio runs timers that are due,
and both are set around every await of a read. Nothing is assumed of the device,
the radio, bleak, the caller or the other timers. It does assume that bleak's
calls end when they are cancelled. `SharedClient` assumes the same two timers per
task. `CommandLine` assumes the timers of the sweep, of the wait (`cli.py:109`,
`147`) and of a post, that bleak's `start()` and `stop()` and aiohttp's `close()`
return, and that a read ends, which is `ReadEnds`.

## The proofs

`TuyaBleClientProofs`, for any number of reads and pushes, any versions, any
kinds of push and lingering links:

- `TypeCorrect`, `TeardownIsComplete`, `LinksAreReleased`, `NumbersAreUnique`,
  `NothingWrittenAfterRelease`.

The invariant `IInv` is inductive and adds what those need. `LinkInv`: a running
read holds its own link, and a link that is up and not held was released.
`KeyInv`: nothing is queued or scheduled before the first request, and past the
information request there is a session key. `PendingInv`: one future at most is
registered, and it is empty. `ReadyInv`: no task is queued twice, a queued reply
is numbered below the counter, and the reader is queued only with something to
take. `AirInv`: frames on the current link are numbered below the counter, and
none has the number of a reply that waits its turn. `InboxInv`: what travels
under the login key answers the information request. `NumbersAreUnique` needs
`ReadyInv` and `AirInv` together, since a reply takes its number when it is
scheduled and is written later, in any order with the requests;
`TeardownIsComplete` needs `InboxInv`, since a frame under the login key is
readable after teardown. Teardown has a lemma of its own, used by every action
that ends a read.

The second half of the module, for the same: `ResultsAreOwn`, `SuccessNeedsTheDevice`,
`AcknowledgedIsReturned`, `ReportsStayInTheirRead`, `KeysStayOnTheirLinks` and
`ClientImplementsContract`. They rest on `SInv`, inductive given `IInv`, which
says where every frame is from. The case that needs it is the lingering link, whose
late information answer a new read can adopt (finding `stale_salt`). `SaltInv`: a salt is
disclosed once, so while that answer was on its way nobody used its key.
`StaleInv`: hence no request was ever made under that key on that link, and none
will be; the device does not read the pairing request the new read makes, and the
read never leaves the pairing stage. `SettlingFrame`, the lemma behind it: a frame that
settles a request past the first came over the read's own link in answer to that
request. `OwnInv` then has that a read under its own salt climbs one answered
request at a time. `AckInv` is the order behind `AcknowledgedIsReturned`: while the
reader collects, a reply task that has not run yet is queued behind the reader if
its report is not taken. `ClosedInv` has what holds only if links end with
their disconnect. The refinement is stated for versions below 16: with others
`struct.error` leaves a read (finding `version_overflow`), which the contract does
not know.

`SessionBudgetProofs`, for all values of the six timeouts: `BudgetTypeCorrect`,
`SlotIsHeldBriefly`, `OnlyQuietReadsReturn`, `SilenceAnswers`, from `BudgetInv`,
which relates the clock to the timer of each await.

`SharedClientProofs`, for any number of tasks and reads: `IdleIsNew`,
`NoLinkLostAlone`, `NotCancelledAlone`. Its invariant says where everything one
read may take from another is. `NewWhenNoneRuns`: if no read is between its start
and its teardown, every field is reset. `BusyReadsOverlap`: two reads that run
now are in `overlaps`, both ways. `HandleIsOfARunningRead`: the handle is a link
some running read opened. `LinksAccounted`: a link that is up is the handle, was
handed over, or its read was overlapped. `CancelledAccounted`: a future that is
cancelled belongs to a read that was overlapped. The last two are only inductive
with the third, as a teardown takes a handle that need not be its own.

`TuyaBleCloudClientProofs`, for any tasks, whichever of them close, any accounts and
envelopes: `ErrorsReachTheCaller`, `ListingsSpeakForOneAccount`,
`SessionsAreClosedOrHeld` and `ListingsAreComplete`. `JudgedAsSaid` settles by cases of
the envelope that it is judged by the last word on each field. `CallInv` then has, of every
call, that one in progress was told of no error and names an account exactly if
its posts go out under one, and that it used no other; every step is one of a few
tails (`Post`, `End`, `ListHomes`), each with a lemma. `SessionInv` needs of the
steps outside `async_close` only what `Served` says: they touch no other call, and
open a session only when there is none; its part `InTurn`, which holds until two
closes overlap, has that one task at most is closing, and closes the session held. `ListingInv` says of a listing under way
what it still owes: the homes left to ask for are the last of those that carry an
id, each once, and what was found is, without repetition, the devices of the
others that can be paired. That each answer keeps it needs what the two loops of
`async_list_devices` compute, over homes and devices of any number: both are
folds, and `Identified` and `Added` are proved about by induction along them.

`FragmentChannelProofs`, for any number of frames of any length and any losses,
abandoned writes and stray chunks: `TypesAreKept`, and, if frames are written one
at a time, `FramesArriveInOrder`, the refinement of `FrameChannel`, what that comes
to, `NoneArrivesTwice`, and `WholeFramesArrive`. That frames are not written at once is a hypothesis because
the code does not ensure it (finding `concurrent_writes`). `StartFacts` and
`CountFacts` say of the cut what all else rests on: fragments begin one after the
other, those before `FragmentCount` within the payload and no other. `FeedFacts`
is what one chunk does to any receiver. The invariant `OrderInv` then says of the
buffer, which can hold pieces of several frames, only what is needed to judge
whatever it may be completed to: every piece of a frame in it was written; of
every broken frame a piece is missing and will be (`BrokenInv`); it begins with a
frame later than all that arrived (`Follows`); and an accepted frame that is still being
written has no checksum. `DecodedInTurn` draws the conclusion: a payload that
decodes as a whole holds the last piece of its frame, so the frame is not
broken and its writing has ended. `WholeInv`, that an undisturbed frame is all the
receiver holds, gives `WholeFramesArrive`.

`DataPointsProofs`, for reports of any length over any bytes, whatever is text, and
any earlier records: `RecordsAreTheReport`, `NumbersAreSigned`, `ReportsAreWhole`,
`LastRecordIsKept`, from `DInv`. `TiledInv`: what was read is a list of records, and
these are its. `NoOtherCutInv`, the reason a refusal is right: however the report is
cut into records, the position is one of the cuts, since no record can begin where
another does and end elsewhere; so a report refused at some position has no cut.
`Unsigned`, `Span`, `Encode` and `Merged` are folds with lemmas of their own;
`SignedFacts` bounds the number by the width of its bytes.

`CommandLineProofs`, for any devices and broadcasts and any account, composed with
`ReadContract` and `TuyaBleCloudClient`: `RadioIsFree`, `FirstSightingWins`,
`ScansAreComplete`, `IdentitiesAreOwn`, `EverythingIsReleased`, from `CInv`.
`RadioInv` ties the await the command is suspended on to the scanner and to the
phase of the read. `SightingInv`: a read that still waits has not heard of its device,
and one that has stopped waiting knows why; with it, the sighting a callback
finds is the first. `AccountInv` is the account's part with one caller: all
HTTP sessions but the one held are closed; `ReleasedInv` brings it to the exit.

Induction. The library's induction theorems take an operator, which no installed
prover instantiates. `Induction` restates them: of sets (`SetInduction`, from
the least element of a well-founded order), of what a `FoldLeft` passes on from
one prefix to the next (`FoldInvariant`, `FoldAppend`), and of a function defined
recursively (`RecursionExists`). Its constant `Step` is the body of the fold or
recursion; a module takes it once per definition with `INSTANCE Induction WITH Step
<- ...` and proves by expansion that the definition is that fold.

The assumptions are those the modules name: bounds are naturals, versions and
reports are made of bytes, timeouts are positive, an account's
homes are a sequence (`AccountsAssumption`), a device broadcasts what is its own or
damaged (`BroadcastsAssumption`), the command is the one caller of its client
(`CallerAssumption`), stray chunks are no pieces (`NoiseAssumption`); and the
versions below 16 and the frames written one at a time,
each stated in its theorem.

Model-checked only: `ReadEnds`, `ReadsEnd` and `CommandEnds`, which are liveness
and out of the prover's reach, as is ENABLED; and the five counterexamples. Every
invariant, action property and refinement a run checks is also a theorem.

## Not modelled

A connection that bleak completes while `establish_connection` is being
cancelled. Frames the device pushes under the authentication key, which teardown
does not reset (`client.py:158`, `295`): nothing in the repository says when a
device uses it. AES, MD5, CRC, RSA and the signature of a request: arithmetic
without state, and the models say of each only what it lets through. Writes that fail with anything but
BleakError, which `_async_send` does not translate (`client.py:275`). The signs,
blanks and underscores that `int()` accepts in a timestamp (`data_points.py:95-101`).
The byte layout of the information answer. Cloud sessions the gateway revokes.

## Plan

Done, in this order because the reader is the point of the SDK: `TuyaBleClient`
with `ReadContract`, its proofs, `FragmentChannel`, `SessionBudget`,
`DataPoints`, `TuyaBleCloudClient`; then `SharedClient` with its proofs,
`Advertisement` and `CommandLine`, the merge of reports, frames without a CRC,
`Envelope`, `ClockReply`, the proofs of `TuyaBleCloudClient`, and those of the
reader's sessions and of its refinement; then `Induction`, and with it the proofs
of listings, reports and fragments, and those of the command line. Left:

1. Proofs: frames written at once but in turns arrive as well; what the fragment
   channel promises carried over to the air of `TuyaBleClient`.
2. Pushes in `SharedClient`.
3. The information answer byte by byte.

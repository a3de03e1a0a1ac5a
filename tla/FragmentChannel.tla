-------------------------- MODULE FragmentChannel --------------------------
(***************************************************************************)
(* Frames crossing a link fragment by fragment, in either direction.       *)
(*                                                                         *)
(* Inbound, the device sends one frame after another and fragments may be  *)
(* lost.  Outbound, _async_send of client.py awaits every write, and the   *)
(* read and the reply tasks call it with nothing between them that would   *)
(* let one finish before the next begins: with `Concurrent`, the fragments *)
(* of several frames interleave.  The receiving end is PacketReassembler   *)
(* in both directions, as it is in the peripheral of the tests.            *)
(***************************************************************************)
EXTENDS Reassembler, FiniteSets

CONSTANTS
  Frames,       \* bound: frames 1 .. Frames are sent, in this order
  LengthOf,     \* the length of the payload of each
  Unprotected,  \* those whose data leaves no room for a CRC
  Concurrent,   \* whether a frame may begin before the previous one ended
  MaxLost,      \* bound: fragments the radio loses
  NoiseChunks,  \* malformed or stray chunks that may arrive
  MaxNoise      \* bound: how many of them

ASSUME FramesAssumption == Frames \in Nat
ASSUME LengthAssumption == LengthOf \in [1 .. Frames -> Nat \ {0}]
ASSUME UnprotectedAssumption == Unprotected \subseteq 1 .. Frames
ASSUME BoundsAssumption == Concurrent \in BOOLEAN /\ MaxLost \in Nat /\ MaxNoise \in Nat
\* No chunk but those the sender built holds a piece of a frame.
ASSUME NoiseAssumption ==
  NoiseChunks \subseteq [index : Nat, declared : Nat, size : Nat,
                         cut : {"none", "index", "length", "version"},
                         piece : [frame : Nat \ 1 .. Frames, from : Nat]]

VARIABLES
  sent,      \* frames begun so far
  active,    \* frames being written
  next,      \* per frame, the fragment to write next
  broken,    \* frames that lost a fragment or were abandoned
  disturbed, \* frames with a stray chunk among their fragments
  receiver,  \* the reassembler
  accepted,  \* frames that decoded, in order
  lost,      \* fragments lost so far
  noise      \* stray chunks so far

vars == <<sent, active, next, broken, disturbed, receiver, accepted, lost, noise>>

Init == /\ sent = 0 /\ active = {} /\ next = [f \in 1 .. Frames |-> 0]
        /\ broken = {} /\ disturbed = {} /\ receiver = Empty /\ accepted = <<>>
        /\ lost = 0 /\ noise = 0

\* _async_send starts on a frame; nothing in it waits for another to finish.
Begin == /\ sent < Frames /\ (Concurrent \/ active = {})
         /\ sent' = sent + 1 /\ active' = active \cup {sent + 1}
         /\ UNCHANGED <<next, broken, disturbed, receiver, accepted, lost, noise>>

\* Mutant: a payload is accepted without its CRC being checked.
ReceiveUnchecked(c) ==
  LET fed == Feed(receiver, c)
  IN  /\ receiver' = fed.state
      /\ accepted' = IF fed.payload = <<>> THEN accepted
                     ELSE Append(accepted, fed.payload[1].frame)

\* A chunk reaches the other end.
Receive(c) ==
  LET fed == Feed(receiver, c)
  IN  /\ receiver' = fed.state
      /\ accepted' = IF Decodes(fed.payload, LengthOf, Unprotected)
                     THEN Append(accepted, fed.payload[1].frame) ELSE accepted

\* One write of the loop over build_packets.
Advance(f) ==
  /\ next' = [next EXCEPT ![f] = @ + 1]
  /\ active' = IF next[f] + 1 = FragmentCount(LengthOf[f]) THEN active \ {f} ELSE active

Write(f) == /\ f \in active
            /\ Advance(f)
            /\ Receive(Fragment(f, LengthOf[f], next[f]))
            /\ UNCHANGED <<sent, broken, disturbed, lost, noise>>

\* The write is made and the fragment lost.
WriteLost(f) == /\ f \in active /\ lost < MaxLost
                /\ Advance(f)
                /\ broken' = broken \cup {f} /\ lost' = lost + 1
                /\ UNCHANGED <<sent, disturbed, receiver, accepted, noise>>

\* The write raises BleakError, or teardown cancels the task between two writes.
Abandon(f) == /\ f \in active
              /\ active' = active \ {f} /\ broken' = broken \cup {f}
              /\ UNCHANGED <<sent, disturbed, next, receiver, accepted, lost, noise>>

\* A chunk the sender did not build arrives.
Stray == /\ noise < MaxNoise
         /\ \E c \in NoiseChunks : Receive(c)
         /\ noise' = noise + 1
         /\ disturbed' = disturbed \cup active
         /\ UNCHANGED <<sent, active, next, broken, lost>>

Next == \/ Begin \/ Stray
        \/ \E f \in 1 .. Frames : Write(f) \/ WriteLost(f) \/ Abandon(f)

Spec == Init /\ [][Next]_vars

-----------------------------------------------------------------------------
\* The variables have their types, and the receiver never holds more than it
\* expects (reassembler.py:48-62).
TypeOK ==
  /\ sent \in 0 .. Frames /\ active \subseteq 1 .. sent /\ broken \subseteq 1 .. sent
  /\ disturbed \subseteq 1 .. sent
  /\ next \in [1 .. Frames -> Nat]
  /\ receiver.held <= receiver.expected /\ receiver.next \in Nat
  /\ Len(receiver.buffer) = receiver.next
  /\ lost \in 0 .. MaxLost /\ noise \in 0 .. MaxNoise

\* A frame written whole, of which nothing was lost, arrives, whatever was lost
\* or garbled before it (reassembler.py:33: "the next frame starts clean").
UndamagedArrives ==
  \A f \in 1 .. sent : f \notin active \cup broken \cup disturbed
                         => \E i \in DOMAIN accepted : accepted[i] = f

\* Frames arrive in order and none twice.  Pieces of two frames can fill a buffer
\* when the tail of one and the head of the other are lost; the CRC stops them,
\* so only a frame without one arrives with a part of another in it, and then
\* as itself: number and code are its own (frame.py:138-154).
Channel == INSTANCE FrameChannel WITH
  Unprotected <- Unprotected, sent <- sent, broken <- broken, accepted <- accepted
ImplementsFrameChannel == Channel!Spec

\* client.py:264: _async_send writes "every fragment of" one frame, so what it
\* wrote whole can be read at the other end, also while another task is sending.
WrittenFramesAreReadable == UndamagedArrives
=============================================================================

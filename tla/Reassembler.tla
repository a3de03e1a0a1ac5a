---------------------------- MODULE Reassembler ----------------------------
(***************************************************************************)
(* How one encrypted payload crosses a 20-byte MTU: build_packets of       *)
(* protocol/frame.py cuts it, PacketReassembler of protocol/reassembler.py *)
(* joins it again, and Frame.decode judges what came out.                  *)
(*                                                                         *)
(* A payload is abstracted to its frame and its length.  A chunk carries   *)
(* the header a varint would encode and the piece of the payload it holds; *)
(* a buffer is the sequence of the pieces in it.                           *)
(***************************************************************************)
EXTENDS Integers, Sequences

GATT_MTU == 20

\* Bytes of a varint: seven bits each.
VarintLength(n) ==
  CASE n < 128 -> 1 [] n < 16384 -> 2 [] n < 2097152 -> 3 [] OTHER -> 4

\* Payload bytes that fit in fragment i of a payload of `length` bytes.  The
\* first one also carries the length and the version byte.
Room(i, length) ==
  GATT_MTU - VarintLength(i) - (IF i = 0 THEN VarintLength(length) + 1 ELSE 0)

\* Where fragment i of a payload of `length` bytes begins.
Start(length) ==
  LET position[i \in Nat] ==
        IF i = 0 THEN 0 ELSE position[i - 1] + Room(i - 1, length)
  IN  position

\* Fragment i of frame f, which is `length` bytes long.  `cut` says where a
\* damaged header ends: never, in the fragments the sender builds.
Fragment(f, length, i) ==
  LET from == Start(length)[i]
      size == IF from + Room(i, length) < length THEN Room(i, length) ELSE length - from
  IN  [index |-> i, declared |-> length, cut |-> "none", size |-> size,
       piece |-> [frame |-> f, from |-> from]]

\* The number of fragments: the first index that would begin past the end.
FragmentCount(length) ==
  CHOOSE n \in 0 .. length :
    /\ Start(length)[n] >= length
    /\ \A i \in 0 .. (n - 1) : Start(length)[i] < length

-----------------------------------------------------------------------------
\* The receiver: what is buffered, how many bytes, how many are expected, and
\* the index that continues the frame.
Empty == [buffer |-> <<>>, held |-> 0, expected |-> 0, next |-> 0]

\* One chunk leaves the receiver in a state and may complete a payload, or not.
Incomplete(state)        == [state |-> state, payload |-> <<>>]
Complete(state, payload) == [state |-> state, payload |-> payload]

\* Mutant: a frame longer than it declared is not given up.
AcceptOverlong(r, c) ==
  LET buffer == Append(r.buffer, c.piece)
      held   == r.held + c.size
  IN  IF held # r.expected
      THEN Incomplete([r EXCEPT !.buffer = buffer, !.held = held, !.next = @ + 1])
      ELSE Complete(Empty, buffer)

\* Add the piece of chunk c to the buffer of r.
Accept(r, c) ==
  LET buffer == Append(r.buffer, c.piece)
      held   == r.held + c.size
  IN  IF held > r.expected THEN Incomplete(Empty)
      ELSE IF held < r.expected
           THEN Incomplete([r EXCEPT !.buffer = buffer, !.held = held, !.next = @ + 1])
           ELSE Complete(Empty, buffer)

\* Mutant: the first fragment of a frame does not drop the buffer.
FeedKeepsBuffer(r, c) ==
  IF c.index = 0
  THEN Accept([r EXCEPT !.next = 0, !.expected = c.declared], c)
  ELSE IF c.index # r.next THEN Incomplete(Empty) ELSE Accept(r, c)

\* feed(): index 0 begins a frame, dropping the buffer; another index must be
\* the next one, or the buffer is dropped.  A header that ends too early
\* raises, before anything changed ("index"), after the buffer was dropped but
\* not the expected length ("length"), or after a reset ("version").
Feed(r, c) ==
  CASE c.cut = "index"  -> Incomplete(r)
    [] c.cut = "length" -> Incomplete([Empty EXCEPT !.expected = r.expected])
    [] c.cut = "version" -> Incomplete(Empty)
    [] c.cut = "none" /\ c.index = 0 ->
         Accept([Empty EXCEPT !.expected = c.declared], c)
    [] c.cut = "none" /\ c.index > 0 /\ c.index # r.next -> Incomplete(Empty)
    [] c.cut = "none" /\ c.index > 0 /\ c.index = r.next -> Accept(r, c)

\* The pieces of a payload are the first n fragments of frame f.
Opens(payload, f, length, n) ==
  /\ Len(payload) >= n
  /\ \A i \in 1 .. n : payload[i] = Fragment(f, length, i - 1).piece

\* decode(): the pieces of one frame, all of them and in order, decrypt to a
\* plaintext whose CRC matches; the pieces of two do not.  A frame whose data
\* fills its last block has no CRC: the initialization vector and the block of
\* the header are in its first two fragments, and with those it decodes,
\* whatever the rest of the declared length is made of.
Decodes(payload, lengthOf, unprotected) ==
  /\ payload # <<>> /\ payload[1].frame \in DOMAIN lengthOf
  /\ LET f == payload[1].frame
         n == FragmentCount(lengthOf[f])
     IN  \/ Len(payload) = n /\ Opens(payload, f, lengthOf[f], n)
         \/ f \in unprotected /\ Opens(payload, f, lengthOf[f], 2)
=============================================================================

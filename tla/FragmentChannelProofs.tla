----------------------- MODULE FragmentChannelProofs -----------------------
(***************************************************************************)
(* Theorems about FragmentChannel, for any number of frames of any length, *)
(* any stray chunks and any losses.                                        *)
(***************************************************************************)
EXTENDS FragmentChannel, TLAPS

-----------------------------------------------------------------------------
\* Where the fragments of a payload begin, and how many there are.

\* A place in a payload of place[1] bytes, and the next one.
CutStep(place, i) == <<place[1], place[2] + Room(i, place[1])>>

Cutting == INSTANCE Induction WITH Step <- CutStep

LEMMA RoomIsPositive ==
  ASSUME NEW i \in Nat, NEW length \in Nat
  PROVE  Room(i, length) \in Nat \ {0}
<1>1. \A n \in Nat : VarintLength(n) \in 1 .. 4
  BY DEF VarintLength
<1> QED
  BY <1>1 DEF Room, GATT_MTU

LEMMA StartFacts ==
  ASSUME NEW length \in Nat
  PROVE  /\ Start(length) \in [Nat -> Nat] /\ Start(length)[0] = 0
         /\ \A i \in Nat : Start(length)[i + 1] = Start(length)[i] + Room(i, length)
<1> DEFINE Eq(p) == p = [i \in Nat |-> IF i = 0 THEN 0 ELSE p[i - 1] + Room(i - 1, length)]
           V == {length} \X Nat
<1>1. \A v \in V, i \in Nat : CutStep(v, i) \in V
  <2> SUFFICES ASSUME NEW v \in V, NEW i \in Nat PROVE CutStep(v, i) \in V
    OBVIOUS
  <2>1. v[1] = length /\ v[2] \in Nat /\ Room(i, length) \in Nat
    BY RoomIsPositive
  <2> QED
    BY <2>1 DEF CutStep
<1>2. <<length, 0>> \in V
  OBVIOUS
<1>3. PICK p \in [Nat -> V] : Cutting!IsRecursive(p, <<length, 0>>)
  <2> HIDE DEF V
  <2> QED
    BY <1>1, <1>2, Cutting!RecursionExists
<1>4. p[0] = <<length, 0>> /\ \A i \in Nat : p[i + 1] = CutStep(p[i], i)
  BY <1>3 DEF Cutting!IsRecursive
<1> DEFINE q == [i \in Nat |-> p[i][2]]
<1>5. \A i \in Nat : p[i] \in V /\ p[i][1] = length /\ q[i] = p[i][2] /\ q[i] \in Nat
  BY <1>3
<1>6. \A i \in Nat : i + 1 \in Nat /\ q[i + 1] = q[i] + Room(i, length)
  BY <1>4, <1>5 DEF CutStep
<1>7. q \in [Nat -> Nat] /\ q[0] = 0
  BY <1>4, <1>5
<1> HIDE DEF q, V
<1>8. Eq(q)
  <2>1. ASSUME NEW i \in Nat
        PROVE  q[i] = IF i = 0 THEN 0 ELSE q[i - 1] + Room(i - 1, length)
    <3>1. CASE i = 0
      BY <1>7, <3>1
    <3>2. CASE i # 0
      <4>1. i - 1 \in Nat /\ (i - 1) + 1 = i
        BY <3>2
      <4> QED
        BY <1>6, <3>2, <4>1
    <3> QED
      BY <3>1, <3>2
  <2> QED
    BY <1>7, <2>1
<1> DEFINE s == CHOOSE f : Eq(f)
<1>9. Eq(s)
  <2> HIDE DEF Eq
  <2> QED
    BY <1>8
<1>10. Start(length) = s
  BY Zenon DEF Start
<1> HIDE DEF s
\* There is one such function only.
<1>11. s = q
  <2> DEFINE T == {i \in Nat : s[i] = q[i]}
  <2>1. 0 \in T
    BY <1>7, <1>9
  <2>2. ASSUME NEW i \in T PROVE i + 1 \in T
    <3>1. i + 1 \in Nat /\ i + 1 # 0 /\ (i + 1) - 1 = i
      OBVIOUS
    <3>2. s[i + 1] = s[i] + Room(i, length)
      BY <1>9, <3>1
    <3> QED
      BY <1>6, <3>1, <3>2
  <2>3. T = Nat
    <3> HIDE DEF T
    <3>1. T \in SUBSET Nat
      BY DEF T
    <3> QED
      BY <2>1, <2>2, <3>1, Cutting!SetInduction
  <2>4. s \in [Nat -> {s[i] : i \in Nat}]
    BY <1>9
  <2> QED
    BY <1>7, <2>3, <2>4
<1> QED
  BY <1>6, <1>7, <1>10, <1>11

LEMMA StartGrows ==
  ASSUME NEW length \in Nat, NEW k \in Nat
  PROVE  Start(length)[k] \in Nat /\ Start(length)[k] < Start(length)[k + 1]
<1> DEFINE s == Start(length)
<1>1. s[k] \in Nat /\ s[k + 1] = s[k] + Room(k, length)
  BY StartFacts
<1>2. Room(k, length) \in Nat \ {0}
  BY RoomIsPositive
<1> HIDE DEF s
<1>3. s[k] < s[k + 1]
  BY <1>1, <1>2
<1> QED
  BY <1>1, <1>3 DEF s

\* Every fragment begins after the one before it.
LEMMA StartIncreases ==
  ASSUME NEW length \in Nat, NEW i \in Nat, NEW j \in Nat, i < j
  PROVE  Start(length)[i] < Start(length)[j]
<1> DEFINE s == Start(length)
           T == {d \in Nat : s[i] < s[i + d + 1]}
<1>1. s \in [Nat -> Nat] /\ \A k \in Nat : s[k] < s[k + 1]
  BY StartFacts, StartGrows
<1> HIDE DEF s
<1>2. 0 \in T
  BY <1>1
<1>3. ASSUME NEW d \in T PROVE d + 1 \in T
  <2>1. i + d + 1 \in Nat /\ i + (d + 1) + 1 = (i + d + 1) + 1 /\ (i + d + 1) + 1 \in Nat
    OBVIOUS
  <2>2. s[i + d + 1] < s[(i + d + 1) + 1]
    BY <1>1, <2>1
  <2>3. s[i] \in Nat /\ s[i + d + 1] \in Nat /\ s[(i + d + 1) + 1] \in Nat
    BY <1>1, <2>1
  <2>4. s[i] < s[(i + d + 1) + 1]
    BY <2>2, <2>3
  <2> QED
    BY <2>1, <2>4
<1>4. T = Nat
  <2> HIDE DEF T
  <2>1. T \in SUBSET Nat
    BY DEF T
  <2> QED
    BY <1>2, <1>3, <2>1, Cutting!SetInduction
<1>5. j - i - 1 \in Nat /\ i + (j - i - 1) + 1 = j
  OBVIOUS
<1>6. j - i - 1 \in T
  <2> HIDE DEF T
  <2> QED
    BY <1>4, <1>5
<1> QED
  BY <1>5, <1>6 DEF s

\* The fragments before the last begin within the payload, and the one after the
\* last would begin past it.
LEMMA CountFacts ==
  ASSUME NEW length \in Nat \ {0}
  PROVE  /\ FragmentCount(length) \in Nat \ {0}
         /\ Start(length)[FragmentCount(length)] >= length
         /\ \A i \in 0 .. (FragmentCount(length) - 1) : Start(length)[i] < length
<1> DEFINE s == Start(length)
           T == {i \in 0 .. length : \A k \in 0 .. i : s[k] < length}
           Is(n) == s[n] >= length /\ \A i \in 0 .. (n - 1) : s[i] < length
<1>1. s \in [Nat -> Nat] /\ s[0] = 0 /\ \A k \in Nat : s[k] < s[k + 1]
  BY StartFacts, StartGrows
<1>2. FragmentCount(length) = CHOOSE n \in 0 .. length : Is(n)
  BY DEF FragmentCount
<1> HIDE DEF s
<1>3. s[length] >= length
  <2> DEFINE U == {i \in Nat : s[i] >= i}
  <2>1. 0 \in U
    BY <1>1
  <2>2. \A i \in U : i + 1 \in U
    BY <1>1
  <2>3. U = Nat
    <3> HIDE DEF U
    <3>1. U \in SUBSET Nat
      BY DEF U
    <3> QED
      BY <2>1, <2>2, <3>1, Cutting!SetInduction
  <2> QED
    BY <2>3
<1>4. \E n \in 0 .. length : Is(n)
  <2>1. SUFFICES ASSUME \A n \in 0 .. length : ~Is(n) PROVE FALSE
    OBVIOUS
  <2>2. 0 \in T
    BY <1>1
  <2>3. ASSUME NEW k \in 0 .. length, k \in T, k < length PROVE k + 1 \in T
    <3>1. \A i \in 0 .. ((k + 1) - 1) : s[i] < length
      BY <2>3
    <3>2. k + 1 \in 0 .. length /\ s[k + 1] \in Nat
      BY <1>1, <2>3
    <3>3. s[k + 1] < length
      BY <2>1, <3>1, <3>2
    <3> QED
      BY <2>3, <3>2, <3>3
  <2>4. length \in T
    <3> HIDE DEF T
    <3> QED
      BY <2>2, <2>3, Cutting!BoundedInduction
  <2>5. s[length] < length /\ s[length] \in Nat
    BY <1>1, <2>4
  <2> QED
    BY <1>3, <2>5
<1> DEFINE n == CHOOSE n \in 0 .. length : Is(n)
<1>5. n \in 0 .. length /\ Is(n)
  <2> HIDE DEF Is
  <2> QED
    BY <1>4
<1> HIDE DEF n
<1>6. n # 0
  BY <1>1, <1>5
<1> QED
  BY <1>2, <1>5, <1>6 DEF s, n

-----------------------------------------------------------------------------
\* What one chunk does to the receiver.

Known  == 1 .. Frames
Pieces == [frame : Nat, from : Nat]
Chunks == [index : Nat, declared : Nat, size : Nat,
           cut : {"none", "index", "length", "version"}, piece : Pieces]

Receivers ==
  {r \in [buffer : Seq(Pieces), held : Nat, expected : Nat, next : Nat] :
     r.held <= r.expected /\ Len(r.buffer) = r.next}

LEMMA Updated ==
  ASSUME NEW B, NEW N, NEW r \in [buffer : B, held : N, expected : N, next : N],
         NEW buffer \in B, NEW held \in N, NEW index \in N
  PROVE  [r EXCEPT !.buffer = buffer, !.held = held, !.next = index]
           \in [buffer : B, held : N, expected : N, next : N]
  OBVIOUS

LEMMA AcceptFacts ==
  ASSUME NEW r \in Receivers, NEW c \in Chunks
  PROVE  LET fed == Accept(r, c)  longer == Append(r.buffer, c.piece)
         IN  /\ fed.state \in Receivers /\ longer \in Seq(Pieces)
             /\ \/ fed = Incomplete(Empty)
                \/ fed.state.buffer = longer /\ fed.payload = <<>>
                \/ fed.state = Empty /\ fed.payload = longer
<1> DEFINE longer == Append(r.buffer, c.piece)
           held   == r.held + c.size
           more   == [r EXCEPT !.buffer = longer, !.held = held, !.next = @ + 1]
<1>1. /\ r \in [buffer : Seq(Pieces), held : Nat, expected : Nat, next : Nat]
      /\ Len(r.buffer) = r.next /\ c.piece \in Pieces /\ c.size \in Nat
  BY DEF Receivers, Chunks
<1>2. longer \in Seq(Pieces) /\ Len(longer) = r.next + 1 /\ held \in Nat
  BY <1>1
<1>3. Empty \in Receivers
  BY DEF Empty, Receivers
<1> HIDE DEF longer, held
<1>4. /\ more.buffer = longer /\ more.held = held /\ more.next = r.next + 1
      /\ more.expected = r.expected
  BY <1>1
<1>5. more \in [buffer : Seq(Pieces), held : Nat, expected : Nat, next : Nat]
  <2>1. r.next + 1 \in Nat
    BY <1>1
  <2> QED
    BY <1>1, <1>2, <2>1, Updated
<1>6. held < r.expected => more \in Receivers
  <2> HIDE DEF more
  <2> QED
    BY <1>1, <1>2, <1>4, <1>5 DEF Receivers
<1>7. Accept(r, c) = IF held > r.expected THEN Incomplete(Empty)
                     ELSE IF held < r.expected THEN Incomplete(more)
                          ELSE Complete(Empty, longer)
  BY DEF Accept, longer, held
<1> HIDE DEF more
<1>8. /\ Incomplete(Empty).state = Empty /\ Incomplete(more).state = more
      /\ Incomplete(more).payload = <<>>
      /\ Complete(Empty, longer).state = Empty /\ Complete(Empty, longer).payload = longer
  BY DEF Incomplete, Complete
<1> QED
  BY <1>1, <1>2, <1>3, <1>4, <1>6, <1>7, <1>8 DEF longer

\* The receiver of a chunk drops what it held, keeps it, or has the chunk's piece
\* after it; after nothing only if the chunk begins a frame.
Joins(r, c, before) ==
  /\ c.cut = "none"
  /\ \/ before = <<>> /\ c.index = 0
     \/ before = r.buffer /\ r.buffer # <<>> /\ c.index = r.next

LEMMA FeedFacts ==
  ASSUME NEW r \in Receivers, NEW c \in Chunks
  PROVE  LET fed == Feed(r, c)
         IN  /\ fed.state \in Receivers
             /\ \/ fed.state.buffer \in {<<>>, r.buffer} /\ fed.payload = <<>>
                \/ \E before \in Seq(Pieces) :
                     /\ Joins(r, c, before)
                     /\ \/ fed.state.buffer = Append(before, c.piece) /\ fed.payload = <<>>
                        \/ fed.state = Empty /\ fed.payload = Append(before, c.piece)
<1> DEFINE fresh == [Empty EXCEPT !.expected = c.declared]
           short == [Empty EXCEPT !.expected = r.expected]
<1>1. /\ r \in [buffer : Seq(Pieces), held : Nat, expected : Nat, next : Nat]
      /\ Len(r.buffer) = r.next /\ c.index \in Nat /\ c.declared \in Nat
      /\ c.cut \in {"none", "index", "length", "version"}
  BY DEF Receivers, Chunks
<1>2. /\ fresh \in Receivers /\ short \in Receivers /\ Empty \in Receivers
      /\ fresh.buffer = <<>> /\ short.buffer = <<>> /\ Empty.buffer = <<>>
  <2>1. fresh = [buffer |-> <<>>, held |-> 0, expected |-> c.declared, next |-> 0]
    BY DEF Empty
  <2>2. short = [buffer |-> <<>>, held |-> 0, expected |-> r.expected, next |-> 0]
    BY DEF Empty
  <2> HIDE DEF fresh, short
  <2>3. <<>> \in Seq(Pieces) /\ Len(<<>>) = 0
    OBVIOUS
  <2> QED
    BY <1>1, <2>1, <2>2, <2>3 DEF Empty, Receivers
<1> HIDE DEF fresh, short
<1>3. \A s : Incomplete(s).state = s /\ Incomplete(s).payload = <<>>
  BY DEF Incomplete
<1>4. CASE c.cut # "none"
  <2>1. Feed(r, c) \in {Incomplete(r), Incomplete(short), Incomplete(Empty)}
    BY <1>1, <1>4 DEF Feed, short
  <2> QED
    BY <1>2, <1>3, <2>1
<1>5. CASE c.cut = "none" /\ c.index = 0
  <2>1. Feed(r, c) = Accept(fresh, c)
    BY <1>5 DEF Feed, fresh
  <2>2. PICK none \in Seq(Pieces) : none = <<>>
    <3>1. <<>> \in Seq(Pieces)
      OBVIOUS
    <3> QED
      BY <3>1
  <2>3. Joins(r, c, none)
    BY <1>5, <2>2 DEF Joins
  <2>4. LET fed == Accept(fresh, c)  longer == Append(none, c.piece)
        IN  /\ fed.state \in Receivers
            /\ \/ fed = Incomplete(Empty)
               \/ fed.state.buffer = longer /\ fed.payload = <<>>
               \/ fed.state = Empty /\ fed.payload = longer
    BY <1>2, <2>2, AcceptFacts
  <2> QED
    BY <1>2, <1>3, <2>1, <2>3, <2>4, Zenon
<1>6. CASE c.cut = "none" /\ c.index > 0 /\ c.index # r.next
  <2>1. Feed(r, c) = Incomplete(Empty)
    BY <1>1, <1>6 DEF Feed
  <2> QED
    BY <1>2, <1>3, <2>1
<1>7. CASE c.cut = "none" /\ c.index > 0 /\ c.index = r.next
  <2>1. Feed(r, c) = Accept(r, c)
    BY <1>1, <1>7 DEF Feed
  <2>2. r.buffer # <<>> /\ r.buffer \in Seq(Pieces)
    BY <1>1, <1>7
  <2>3. Joins(r, c, r.buffer)
    BY <1>7, <2>2 DEF Joins
  <2>4. LET fed == Accept(r, c)  longer == Append(r.buffer, c.piece)
        IN  /\ fed.state \in Receivers
            /\ \/ fed = Incomplete(Empty)
               \/ fed.state.buffer = longer /\ fed.payload = <<>>
               \/ fed.state = Empty /\ fed.payload = longer
    BY AcceptFacts
  <2> QED
    BY <1>2, <1>3, <2>1, <2>2, <2>3, <2>4, Zenon
<1> QED
  BY <1>1, <1>4, <1>5, <1>6, <1>7

-----------------------------------------------------------------------------
\* Types, and how far each frame is, whether frames are written one at a time or
\* not.

Piece(f, k) == [frame |-> f, from |-> Start(LengthOf[f])[k]]
Count(f)    == FragmentCount(LengthOf[f])

TypeInv ==
  /\ sent \in 0 .. Frames /\ active \subseteq 1 .. sent /\ broken \subseteq 1 .. sent
  /\ disturbed \subseteq 1 .. sent
  /\ next \in [Known -> Nat]
  /\ receiver \in Receivers /\ accepted \in Seq(Known)
  /\ lost \in 0 .. MaxLost /\ noise \in 0 .. MaxNoise

ProgressInv ==
  /\ \A f \in Known : f > sent => next[f] = 0
  /\ \A f \in active : next[f] < Count(f)

LEMMA SentFacts ==
  ASSUME TypeInv
  PROVE  sent \in Nat /\ sent <= Frames /\ active \subseteq 1 .. sent
<1>1. sent \in 0 .. Frames /\ Frames \in Nat /\ active \subseteq 1 .. sent
  BY FramesAssumption DEF TypeInv
<1> QED
  BY <1>1

\* A fragment that the sender built.
LEMMA FragmentFacts ==
  ASSUME NEW f \in Known, NEW k \in Nat, k < Count(f)
  PROVE  LET c == Fragment(f, LengthOf[f], k)
         IN  /\ c \in Chunks /\ c.index = k /\ c.declared = LengthOf[f]
             /\ c.cut = "none" /\ c.piece = Piece(f, k)
             /\ LET begin == Start(LengthOf[f])[k]  end == Start(LengthOf[f])[k + 1]
                IN  /\ k + 1 = Count(f) => begin + c.size = LengthOf[f]
                    /\ k + 1 < Count(f) => begin + c.size = end /\ end < LengthOf[f]
<1> DEFINE length == LengthOf[f]
           begin  == Start(length)[k]
           end    == Start(length)[k + 1]
           c      == Fragment(f, length, k)
<1>1. f \in Nat /\ length \in Nat \ {0}
  BY FramesAssumption, LengthAssumption DEF Known
<1>2. Count(f) \in Nat \ {0} /\ Start(length)[Count(f)] >= length
      /\ \A i \in 0 .. (Count(f) - 1) : Start(length)[i] < length
  BY <1>1, CountFacts DEF Count
<1>3. begin \in Nat /\ end = begin + Room(k, length) /\ Room(k, length) \in Nat /\ end \in Nat
  <2>1. end = begin + Room(k, length)
    BY <1>1, StartFacts
  <2>2. begin \in Nat
    BY <1>1, StartGrows
  <2>3. Room(k, length) \in Nat
    BY <1>1, RoomIsPositive
  <2> HIDE DEF begin, end, length
  <2> QED
    BY <2>1, <2>2, <2>3
<1>4. begin < length
  BY <1>2
<1>5. k + 1 = Count(f) => end >= length
  BY <1>2
<1>6. k + 1 < Count(f) => end < length
  BY <1>2
<1>7. c = [index |-> k, declared |-> length, cut |-> "none",
           size |-> IF end < length THEN Room(k, length) ELSE length - begin,
           piece |-> Piece(f, k)]
  BY <1>3 DEF Fragment, Piece
<1> HIDE DEF length, begin, end, c
<1>8. c.size \in Nat
  BY <1>1, <1>3, <1>4, <1>7
<1>9. Piece(f, k) \in Pieces
  BY <1>1, <1>3 DEF Piece, Pieces, begin, length
<1>10. c \in Chunks
  <2>1. PICK size \in Nat : size = c.size
    BY <1>8
  <2>2. c = [index |-> k, declared |-> length, cut |-> "none", size |-> size,
             piece |-> Piece(f, k)]
    BY <1>7, <2>1
  <2> QED
    BY <1>1, <1>9, <2>2 DEF Chunks
<1>11. k + 1 = Count(f) => begin + c.size = length
  BY <1>1, <1>3, <1>5, <1>7
<1>12. k + 1 < Count(f) => begin + c.size = end /\ end < length
  BY <1>1, <1>3, <1>6, <1>7
<1> QED
  BY <1>7, <1>10, <1>11, <1>12 DEF length, begin, end, c

LEMMA ReceiveTypes ==
  ASSUME TypeInv, NEW c \in Chunks, Receive(c)
  PROVE  receiver' \in Receivers /\ accepted' \in Seq(Known)
<1> DEFINE payload == Feed(receiver, c).payload
<1>1. receiver' \in Receivers
  BY FeedFacts DEF Receive, TypeInv
<1>2. Decodes(payload, LengthOf, Unprotected) => payload[1].frame \in Known
  BY LengthAssumption DEF Decodes, Known
<1>3. accepted' = IF Decodes(payload, LengthOf, Unprotected)
                  THEN Append(accepted, payload[1].frame) ELSE accepted
  BY DEF Receive
<1> HIDE DEF payload
<1>4. accepted' \in Seq(Known)
  BY <1>2, <1>3 DEF TypeInv
<1> QED
  BY <1>1, <1>4

\* What a write adds, and how far it brings its frame.
LEMMA AdvanceKeeps ==
  ASSUME TypeInv, ProgressInv, NEW f \in active, Advance(f), sent' = sent
  PROVE  /\ f \in Known /\ Fragment(f, LengthOf[f], next[f]) \in Chunks
         /\ active' \subseteq active /\ next' \in [Known -> Nat]
         /\ next[f] \in Nat /\ next'[f] = next[f] + 1
         /\ \A g \in Known \ {f} : next'[g] = next[g]
         /\ f \in active' <=> next[f] + 1 # Count(f)
         /\ ProgressInv'
<1>1. /\ f \in Known /\ sent \in Nat /\ sent <= Frames /\ f <= sent
      /\ active \subseteq Known /\ next \in [Known -> Nat]
  BY FramesAssumption DEF TypeInv, Known
<1>2. next[f] \in Nat /\ next[f] < Count(f) /\ Count(f) \in Nat
  <2>1. LengthOf[f] \in Nat \ {0}
    BY <1>1, LengthAssumption DEF Known
  <2> QED
    BY <1>1, <2>1, CountFacts DEF ProgressInv, Count
<1>3. Fragment(f, LengthOf[f], next[f]) \in Chunks
  BY <1>1, <1>2, FragmentFacts
<1>4. /\ next' = [next EXCEPT ![f] = next[f] + 1]
      /\ active' = IF next[f] + 1 = Count(f) THEN active \ {f} ELSE active
  BY DEF Advance, Count
<1>5. /\ next' \in [Known -> Nat] /\ next'[f] = next[f] + 1
      /\ \A g \in Known \ {f} : next'[g] = next[g]
  BY <1>1, <1>2, <1>4
<1>6. active' \subseteq active /\ (f \in active' <=> next[f] + 1 # Count(f))
  BY <1>4
<1>7. \A g \in Known : g > sent' => next'[g] = 0
  <2> SUFFICES ASSUME NEW g \in Known, g > sent PROVE next'[g] = 0
    OBVIOUS
  <2>1. f \in Nat /\ g \in Nat
    BY <1>1, FramesAssumption DEF Known
  <2>2. g # f
    BY <1>1, <2>1
  <2> QED
    BY <1>5, <2>2 DEF ProgressInv
<1>8. ASSUME NEW g \in active' PROVE next'[g] < Count(g)
  <2>1. CASE g = f
    BY <1>2, <1>5, <1>6, <1>8, <2>1
  <2>2. CASE g # f
    BY <1>1, <1>5, <1>6, <2>2 DEF ProgressInv
  <2> QED
    BY <2>1, <2>2
<1>9. ProgressInv'
  BY <1>7, <1>8 DEF ProgressInv, Count
<1> QED
  BY <1>1, <1>2, <1>3, <1>5, <1>6, <1>9

LEMMA InitTypes == Init => TypeInv /\ ProgressInv
<1> SUFFICES ASSUME Init PROVE TypeInv /\ ProgressInv
  OBVIOUS
<1>1. Empty \in Receivers
  BY DEF Empty, Receivers
<1>2. TypeInv
  BY <1>1, FramesAssumption, BoundsAssumption DEF Init, TypeInv, Known
<1>3. ProgressInv
  BY DEF Init, ProgressInv, Known
<1> QED
  BY <1>2, <1>3

LEMMA NextTypes == TypeInv /\ ProgressInv /\ [Next]_vars => TypeInv' /\ ProgressInv'
<1> SUFFICES ASSUME TypeInv, ProgressInv, [Next]_vars PROVE TypeInv' /\ ProgressInv'
  OBVIOUS
<1>0. /\ Frames \in Nat /\ MaxLost \in Nat /\ MaxNoise \in Nat /\ sent \in 0 .. Frames
      /\ sent \in Nat /\ active \subseteq 1 .. sent /\ 1 .. sent \subseteq Known
  BY FramesAssumption, BoundsAssumption DEF TypeInv, Known
<1>1. CASE Begin
  <2>1. /\ sent < Frames /\ sent' = sent + 1 /\ active' = active \cup {sent + 1}
        /\ UNCHANGED <<next, broken, disturbed, receiver, accepted, lost, noise>>
    BY <1>1 DEF Begin
  <2>2. TypeInv'
    BY <1>0, <2>1 DEF TypeInv
  <2>3. sent + 1 \in Known /\ next[sent + 1] = 0
    BY <1>0, <2>1 DEF ProgressInv, Known
  <2>4. 0 < Count(sent + 1)
    BY <2>3, LengthAssumption, CountFacts DEF Count, Known
  <2>5. ProgressInv'
    BY <1>0, <2>1, <2>3, <2>4 DEF ProgressInv, Count, Known
  <2> QED
    BY <2>2, <2>5
<1>2. CASE Stray
  <2>1. /\ noise < MaxNoise /\ noise' = noise + 1 /\ disturbed' = disturbed \cup active
        /\ UNCHANGED <<sent, active, next, broken, lost>>
    BY <1>2 DEF Stray
  <2>2. PICK c \in NoiseChunks : Receive(c)
    BY <1>2 DEF Stray
  <2>3. c \in Chunks
    BY NoiseAssumption DEF Chunks, Pieces
  <2>4. TypeInv'
    BY <1>0, <2>1, <2>2, <2>3, ReceiveTypes DEF TypeInv
  <2>5. ProgressInv'
    BY <2>1 DEF ProgressInv, Count
  <2> QED
    BY <2>4, <2>5
<1>3. ASSUME NEW f \in Known, Write(f) PROVE TypeInv' /\ ProgressInv'
  <2>1. /\ f \in active /\ Advance(f) /\ Receive(Fragment(f, LengthOf[f], next[f]))
        /\ UNCHANGED <<sent, broken, disturbed, lost, noise>>
    BY <1>3 DEF Write
  <2> QED
    BY <2>1, AdvanceKeeps, ReceiveTypes DEF TypeInv
<1>4. ASSUME NEW f \in Known, WriteLost(f) PROVE TypeInv' /\ ProgressInv'
  <2>1. /\ f \in active /\ lost < MaxLost /\ Advance(f)
        /\ broken' = broken \cup {f} /\ lost' = lost + 1
        /\ UNCHANGED <<sent, disturbed, receiver, accepted, noise>>
    BY <1>4 DEF WriteLost
  <2>2. active' \subseteq active /\ next' \in [Known -> Nat] /\ ProgressInv'
    BY <2>1, AdvanceKeeps
  <2> QED
    BY <1>0, <2>1, <2>2 DEF TypeInv
<1>5. ASSUME NEW f \in Known, Abandon(f) PROVE TypeInv' /\ ProgressInv'
  <2>1. /\ f \in active /\ active' = active \ {f} /\ broken' = broken \cup {f}
        /\ UNCHANGED <<sent, disturbed, next, receiver, accepted, lost, noise>>
    BY <1>5 DEF Abandon
  <2> QED
    BY <1>0, <2>1 DEF TypeInv, ProgressInv, Count
<1>6. CASE UNCHANGED vars
  BY <1>6 DEF vars, TypeInv, ProgressInv, Count
<1> QED
  BY <1>1, <1>2, <1>3, <1>4, <1>5, <1>6 DEF Next, Known

\* The variables have their types, however the frames are written.
THEOREM TypesAreKept == Spec => []TypeOK
<1>1. TypeInv => TypeOK
  BY DEF TypeInv, TypeOK, Receivers, Known
<1> QED
  BY <1>1, InitTypes, NextTypes, PTL DEF Spec

-----------------------------------------------------------------------------
\* Frames written one after another.  What the receiver holds and what it has
\* accepted, said of a buffer, of the fragment each frame has come to, of the
\* frames being written and of those that arrived.

Elements(buffer) == {buffer[i] : i \in DOMAIN buffer}

\* Every piece of a frame was written.
Written(pieces, progress) ==
  \A b \in pieces :
    b.frame \in Known => \E k \in 0 .. (progress[b.frame] - 1) : b = Piece(b.frame, k)

\* Of a broken frame a piece is missing, and will be.
Missing(pieces, progress, writing, frames) ==
  \A f \in frames : \E k \in 0 .. (Count(f) - 1) :
    (f \in writing => k < progress[f]) /\ Piece(f, k) \notin pieces

\* A buffer begins with a frame later than all that arrived.
Follows(buffer, arrived) ==
  buffer # <<>> /\ buffer[1].frame \in Known
    => \A i \in DOMAIN arrived : arrived[i] < buffer[1].frame

SequentialInv == active \subseteq {sent}
BufferInv == Written(Elements(receiver.buffer), next) /\ Follows(receiver.buffer, accepted)
BrokenInv == Missing(Elements(receiver.buffer), next, active, broken)
AcceptedInv ==
  \A i \in DOMAIN accepted :
    /\ accepted[i] \in 1 .. sent
    /\ accepted[i] \in active => next[accepted[i]] > 0 /\ accepted[i] \in Unprotected

OrderInv == SequentialInv /\ BufferInv /\ BrokenInv /\ AcceptedInv

LEMMA AppendFacts ==
  ASSUME NEW S, NEW s \in Seq(S), NEW e \in S
  PROVE  /\ Elements(Append(s, e)) = Elements(s) \cup {e}
         /\ Append(s, e)[1] = IF s = <<>> THEN e ELSE s[1]
         /\ Append(s, e) # <<>>
<1> DEFINE t == Append(s, e)
<1>1. /\ DOMAIN s = 1 .. Len(s) /\ Len(s) \in Nat /\ DOMAIN t = 1 .. Len(s) + 1
      /\ t[Len(s) + 1] = e /\ \A i \in 1 .. Len(s) : t[i] = s[i]
  OBVIOUS
<1>2. t # <<>> /\ (s # <<>> => Len(s) > 0) /\ (s = <<>> => Len(s) = 0)
  OBVIOUS
<1> HIDE DEF t
<1>3. t[1] = IF s = <<>> THEN e ELSE s[1]
  BY <1>1, <1>2
<1>4. ASSUME NEW x \in Elements(s) \cup {e} PROVE x \in Elements(t)
  <2>1. CASE x = e
    BY <1>1, <2>1 DEF Elements
  <2>2. CASE x \in Elements(s)
    <3>1. PICK i \in DOMAIN s : x = s[i]
      BY <2>2 DEF Elements
    <3>2. i \in DOMAIN t /\ t[i] = x
      BY <1>1, <3>1
    <3> QED
      BY <3>2 DEF Elements
  <2> QED
    BY <1>4, <2>1, <2>2
<1>5. ASSUME NEW x \in Elements(t) PROVE x \in Elements(s) \cup {e}
  <2>1. PICK i \in DOMAIN t : x = t[i]
    BY <1>5 DEF Elements
  <2>2. CASE i = Len(s) + 1
    BY <1>1, <2>1, <2>2
  <2>3. CASE i # Len(s) + 1
    <3>1. i \in DOMAIN s /\ x = s[i]
      BY <1>1, <2>1, <2>3
    <3> QED
      BY <3>1 DEF Elements
  <2> QED
    BY <2>2, <2>3
<1>6. Elements(t) = Elements(s) \cup {e}
  BY <1>4, <1>5
<1> QED
  BY <1>2, <1>3, <1>6 DEF t

LEMMA WrittenStays ==
  ASSUME NEW P, NEW Q, P \subseteq Q,
         NEW n \in [Known -> Nat], NEW m \in [Known -> Nat], \A g \in Known : n[g] <= m[g],
         Written(Q, n)
  PROVE  Written(P, m)
<1> SUFFICES ASSUME NEW b \in P, b.frame \in Known
             PROVE  \E k \in 0 .. (m[b.frame] - 1) : b = Piece(b.frame, k)
  BY DEF Written
<1>1. PICK k \in 0 .. (n[b.frame] - 1) : b = Piece(b.frame, k)
  BY DEF Written
<1>2. n[b.frame] \in Nat /\ m[b.frame] \in Nat /\ n[b.frame] <= m[b.frame]
  OBVIOUS
<1>3. k \in 0 .. (m[b.frame] - 1)
  BY <1>2
<1> QED
  BY <1>1, <1>3

LEMMA MissingStays ==
  ASSUME NEW P, NEW Q, P \subseteq Q, NEW frames, frames \subseteq Known,
         NEW n \in [Known -> Nat], NEW m \in [Known -> Nat], \A g \in Known : n[g] <= m[g],
         NEW A, NEW B, B \subseteq A,
         Missing(Q, n, A, frames)
  PROVE  Missing(P, m, B, frames)
<1> SUFFICES ASSUME NEW f \in frames
             PROVE  \E k \in 0 .. (Count(f) - 1) : (f \in B => k < m[f]) /\ Piece(f, k) \notin P
  BY DEF Missing
<1>1. PICK k \in 0 .. (Count(f) - 1) : (f \in A => k < n[f]) /\ Piece(f, k) \notin Q
  BY DEF Missing
<1>2. n[f] \in Nat /\ m[f] \in Nat /\ n[f] <= m[f] /\ k \in Int
  OBVIOUS
<1>3. (f \in B => k < m[f]) /\ Piece(f, k) \notin P
  BY <1>1, <1>2
<1> QED
  BY <1>3

\* The pieces of a frame are all different.
LEMMA PiecesDiffer ==
  ASSUME NEW f \in Known, NEW j \in Nat, NEW k \in Nat, Piece(f, j) = Piece(f, k)
  PROVE  j = k
<1>1. LengthOf[f] \in Nat
  BY LengthAssumption DEF Known
<1>2. Start(LengthOf[f])[j] = Start(LengthOf[f])[k]
  BY DEF Piece
<1>3. Start(LengthOf[f])[j] \in Nat /\ Start(LengthOf[f])[k] \in Nat
  BY <1>1, StartGrows
<1>4. j < k => Start(LengthOf[f])[j] < Start(LengthOf[f])[k]
  BY <1>1, StartIncreases
<1>5. k < j => Start(LengthOf[f])[k] < Start(LengthOf[f])[j]
  BY <1>1, StartIncreases
<1> QED
  BY <1>2, <1>3, <1>4, <1>5

LEMMA CountIsPositive ==
  ASSUME NEW f \in Known
  PROVE  Count(f) \in Nat \ {0}
<1>1. LengthOf[f] \in Nat \ {0}
  BY LengthAssumption DEF Known
<1> QED
  BY <1>1, CountFacts DEF Count

\* A payload that decodes is of a frame that arrives in its turn: it is not
\* broken, and not being written any more, unless it has no checksum.
LEMMA DecodedInTurn ==
  ASSUME TypeInv, NEW n \in [Known -> Nat], NEW a,
         \A f \in Known : f > sent => n[f] = 0, \A f \in a : n[f] < Count(f),
         NEW payload \in Seq(Pieces),
         Written(Elements(payload), n), Missing(Elements(payload), n, a, broken),
         Follows(payload, accepted),
         Decodes(payload, LengthOf, Unprotected)
  PROVE  LET f == payload[1].frame
         IN  /\ f \in 1 .. sent /\ n[f] > 0
             /\ \A i \in DOMAIN accepted : accepted[i] < f
             /\ f \in a \cup broken => f \in Unprotected
<1> DEFINE f == payload[1].frame
           count == Count(f)
<1>1. payload # <<>> /\ f \in Known
  BY LengthAssumption DEF Decodes, Known
<1>2. \A i \in DOMAIN accepted : accepted[i] < f
  BY <1>1 DEF Follows
<1>3. payload[1] \in Elements(payload)
  BY <1>1 DEF Elements
<1>4. n[f] \in Nat /\ n[f] > 0
  <2>1. PICK k \in 0 .. (n[f] - 1) : payload[1] = Piece(f, k)
    BY <1>1, <1>3 DEF Written
  <2> HIDE DEF f
  <2> QED
    BY <1>1, <2>1
<1>5. f \in 1 .. sent
  <2>1. f \in 1 .. Frames /\ Frames \in Nat /\ sent \in Nat
    BY <1>1, FramesAssumption DEF TypeInv, Known
  <2> HIDE DEF f
  <2> QED
    BY <1>1, <1>4, <2>1
<1>6. count \in Nat \ {0}
  BY <1>1, CountIsPositive
<1>7. ASSUME f \notin Unprotected PROVE f \notin a \cup broken
  <2>1. Len(payload) = count /\ Opens(payload, f, LengthOf[f], count)
    BY <1>1, <1>7 DEF Decodes, Count
  <2>2. ASSUME NEW k \in 0 .. (count - 1) PROVE Piece(f, k) \in Elements(payload)
    <3>1. k + 1 \in 1 .. count /\ k \in Nat /\ (k + 1) - 1 = k
      BY <1>6
    <3>2. payload[k + 1] = Fragment(f, LengthOf[f], k).piece
      BY <2>1, <3>1 DEF Opens
    <3>3. Fragment(f, LengthOf[f], k).piece = Piece(f, k)
      BY DEF Fragment, Piece
    <3>4. k + 1 \in DOMAIN payload
      BY <2>1, <3>1
    <3> QED
      BY <3>2, <3>3, <3>4 DEF Elements
  <2>3. f \notin broken
    BY <2>2 DEF Missing
  <2>4. count - 1 \in 0 .. (count - 1)
    BY <1>6
  <2>5. Piece(f, count - 1).frame = f
    BY DEF Piece
  <2>6. PICK k \in 0 .. (n[f] - 1) : Piece(f, count - 1) = Piece(f, k)
    BY <1>1, <2>2, <2>4, <2>5 DEF Written
  <2>7. k = count - 1
    BY <1>1, <1>4, <1>6, <2>6, PiecesDiffer
  <2> HIDE DEF f, count
  <2>8. ~(n[f] < count)
    BY <1>4, <1>6, <2>6, <2>7
  <2> QED
    BY <2>3, <2>8 DEF count
<1> QED
  BY <1>2, <1>4, <1>5, <1>7

\* The chunk of a step: the next fragment of a frame, or one that is no piece of any.
Comes(c) ==
  \/ c.piece.frame \notin Known /\ next' = next /\ active' = active
  \/ \E f \in active : c = Fragment(f, LengthOf[f], next[f]) /\ Advance(f)

LEMMA ComesFacts ==
  ASSUME TypeInv, ProgressInv, sent' = sent, NEW c \in Chunks, Comes(c)
  PROVE  /\ next' \in [Known -> Nat] /\ \A g \in Known : next[g] <= next'[g]
         /\ active' \subseteq active /\ ProgressInv'
         /\ c.piece \in Pieces
         /\ c.piece.frame \in Known =>
              LET f == c.piece.frame
              IN  /\ f \in active /\ c.piece = Piece(f, next[f])
                  /\ next[f] \in Nat /\ next'[f] = next[f] + 1
                  /\ c.index = next[f]
<1>0. next \in [Known -> Nat] /\ c.piece \in Pieces
  BY DEF TypeInv, Chunks
<1>1. CASE c.piece.frame \notin Known /\ next' = next /\ active' = active
  <2>1. ProgressInv'
    BY <1>1 DEF ProgressInv, Count
  <2>2. \A g \in Known : next[g] <= next'[g]
    BY <1>0, <1>1
  <2> QED
    BY <1>0, <1>1, <2>1, <2>2
<1>2. ASSUME NEW f \in active, c = Fragment(f, LengthOf[f], next[f]), Advance(f)
      PROVE  /\ next' \in [Known -> Nat] /\ \A g \in Known : next[g] <= next'[g]
             /\ active' \subseteq active /\ ProgressInv'
             /\ c.piece.frame = f /\ c.piece = Piece(f, next[f])
             /\ next[f] \in Nat /\ next'[f] = next[f] + 1 /\ c.index = next[f]
  <2>1. /\ f \in Known /\ active' \subseteq active /\ next' \in [Known -> Nat]
        /\ next[f] \in Nat /\ next'[f] = next[f] + 1
        /\ \A g \in Known \ {f} : next'[g] = next[g]
        /\ ProgressInv'
    BY <1>2, AdvanceKeeps
  <2>2. \A g \in Known : next[g] <= next'[g]
    <3> TAKE g \in Known
    <3>1. next[g] \in Nat /\ next'[g] \in Nat
      BY <1>0, <2>1
    <3> QED
      BY <2>1, <3>1
  <2>3. c.piece = Piece(f, next[f]) /\ c.index = next[f]
    BY <1>2 DEF Fragment, Piece
  <2>4. c.piece.frame = f
    BY <2>3 DEF Piece
  <2> QED
    BY <2>1, <2>2, <2>3, <2>4
<1> QED
  BY <1>0, <1>1, <1>2 DEF Comes

\* The buffer that a chunk joins.
LEMMA JoinKeeps ==
  ASSUME TypeInv, ProgressInv, OrderInv, sent' = sent,
         NEW c \in Chunks, Comes(c), NEW before \in Seq(Pieces), Joins(receiver, c, before)
  PROVE  LET joined == Append(before, c.piece)
         IN  /\ Written(Elements(joined), next')
             /\ Missing(Elements(joined), next', active', broken)
             /\ Follows(joined, accepted)
<1> DEFINE joined == Append(before, c.piece)
           held   == Elements(receiver.buffer)
           p      == c.piece
<1>1. /\ next' \in [Known -> Nat] /\ \A g \in Known : next[g] <= next'[g]
      /\ active' \subseteq active /\ p \in Pieces
      /\ p.frame \in Known =>
           /\ p.frame \in active /\ p = Piece(p.frame, next[p.frame])
           /\ next[p.frame] \in Nat /\ next'[p.frame] = next[p.frame] + 1
           /\ c.index = next[p.frame]
  BY ComesFacts, Zenon
<1>2. next \in [Known -> Nat] /\ broken \subseteq Known
  BY FramesAssumption DEF TypeInv, Known
<1>3. /\ Elements(joined) = Elements(before) \cup {p} /\ joined # <<>>
      /\ joined[1] = IF before = <<>> THEN p ELSE before[1]
  BY <1>1, AppendFacts
<1>4. Elements(before) \subseteq held
  <2>1. CASE before = receiver.buffer
    BY <2>1
  <2>2. CASE before = <<>>
    BY <2>2 DEF Elements
  <2> QED
    BY <2>1, <2>2 DEF Joins
<1>5. Written(Elements(before), next') /\ Missing(Elements(before), next', active', broken)
  <2>1. Written(held, next) /\ Missing(held, next, active, broken)
    BY DEF OrderInv, BufferInv, BrokenInv
  <2> HIDE DEF held
  <2>2. Written(Elements(before), next')
    BY <1>1, <1>2, <1>4, <2>1, WrittenStays
  <2>3. Missing(Elements(before), next', active', broken)
    BY <1>1, <1>2, <1>4, <2>1, MissingStays
  <2> QED
    BY <2>2, <2>3
<1> HIDE DEF joined, held, p
<1>6. Written(Elements(joined), next')
  <2> SUFFICES ASSUME NEW b \in Elements(joined), b.frame \in Known
               PROVE  \E k \in 0 .. (next'[b.frame] - 1) : b = Piece(b.frame, k)
    BY DEF Written
  <2>1. CASE b = p
    <3>1. next[b.frame] \in 0 .. (next'[b.frame] - 1)
      BY <1>1, <2>1
    <3> QED
      BY <1>1, <2>1, <3>1
  <2>2. CASE b \in Elements(before)
    BY <1>5, <2>2 DEF Written
  <2> QED
    BY <1>3, <2>1, <2>2
<1>7. Missing(Elements(joined), next', active', broken)
  <2> SUFFICES ASSUME NEW f \in broken
               PROVE  \E k \in 0 .. (Count(f) - 1) :
                        (f \in active' => k < next'[f]) /\ Piece(f, k) \notin Elements(joined)
    BY DEF Missing
  <2>0. f \in Known /\ next[f] \in Nat /\ next'[f] \in Nat /\ Count(f) \in Nat /\ next[f] <= next'[f]
    BY <1>1, <1>2, CountIsPositive
  <2>1. PICK k \in 0 .. (Count(f) - 1) :
          (f \in active => k < next[f]) /\ Piece(f, k) \notin held
    BY DEF OrderInv, BrokenInv, Missing, held
  <2>2. k \in Nat /\ (f \in active' => k < next'[f])
    BY <1>1, <2>0, <2>1
  <2>3. ASSUME Piece(f, k) = p PROVE FALSE
    <3>1. p.frame = f
      BY <2>3 DEF Piece
    <3>2. f \in active /\ p = Piece(f, next[f])
      BY <1>1, <2>0, <3>1
    <3>3. k = next[f]
      BY <2>0, <2>2, <2>3, <3>2, PiecesDiffer
    <3> QED
      BY <2>0, <2>1, <3>2, <3>3
  <2>4. Piece(f, k) \notin Elements(joined)
    BY <1>3, <1>4, <2>1, <2>3
  <2> QED
    BY <2>1, <2>2, <2>4
<1>8. Follows(joined, accepted)
  <2> SUFFICES ASSUME joined[1].frame \in Known, NEW i \in DOMAIN accepted
               PROVE  accepted[i] < joined[1].frame
    BY DEF Follows
  <2>1. CASE before # <<>>
    <3>1. before = receiver.buffer
      BY <2>1 DEF Joins
    <3> QED
      BY <1>3, <2>1, <3>1 DEF OrderInv, BufferInv, Follows
  <2>2. CASE before = <<>>
    <3>1. joined[1] = p /\ c.index = 0
      <4>1. c.index = 0
        BY <2>2 DEF Joins
      <4> QED
        BY <1>3, <2>2, <4>1
    <3>2. p.frame \in active /\ next[p.frame] = 0
      BY <1>1, <3>1
    <3>3. p.frame = sent /\ sent \in Nat
      <4>1. sent \in 0 .. Frames /\ active \subseteq {sent}
        BY DEF OrderInv, SequentialInv, TypeInv
      <4>2. sent \in Nat
        BY SentFacts
      <4> QED
        BY <3>2, <4>1, <4>2
    <3>4. accepted[i] \in 1 .. sent /\ (accepted[i] \in active => next[accepted[i]] > 0)
      BY DEF OrderInv, AcceptedInv
    <3>5. accepted[i] # sent
      BY <3>2, <3>3, <3>4
    <3> QED
      BY <3>1, <3>3, <3>4, <3>5
  <2> QED
    BY <2>1, <2>2
<1> QED
  BY <1>6, <1>7, <1>8 DEF joined

Arrival(f) ==
  /\ f \in 1 .. sent /\ next'[f] > 0
  /\ \A i \in DOMAIN accepted : accepted[i] < f
  /\ f \in active' \cup broken => f \in Unprotected
  /\ accepted' = Append(accepted, f)

\* A chunk that comes keeps the order of what arrives.
LEMMA ReceiveKeepsOrder ==
  ASSUME TypeInv, ProgressInv, OrderInv, sent' = sent, broken' = broken,
         NEW c \in Chunks, Comes(c), Receive(c)
  PROVE  /\ OrderInv'
         /\ accepted' = accepted \/ \E f \in Known : Arrival(f)
<1> DEFINE fed == Feed(receiver, c)
<1>1. /\ next' \in [Known -> Nat] /\ \A g \in Known : next[g] <= next'[g]
      /\ active' \subseteq active /\ ProgressInv' /\ c.piece \in Pieces
  BY ComesFacts, Zenon
<1>2. next \in [Known -> Nat] /\ broken \subseteq Known
  BY FramesAssumption DEF TypeInv, Known
<1>3. /\ receiver' = fed.state
      /\ accepted' = IF Decodes(fed.payload, LengthOf, Unprotected)
                     THEN Append(accepted, fed.payload[1].frame) ELSE accepted
  BY DEF Receive
<1>4. SequentialInv'
  BY <1>1 DEF OrderInv, SequentialInv
<1>5. ASSUME NEW n \in [Known -> Nat], NEW a, a \subseteq active, n = next', a = active',
             accepted' = accepted
      PROVE  AcceptedInv'
  <2> SUFFICES ASSUME NEW i \in DOMAIN accepted
               PROVE  /\ accepted[i] \in 1 .. sent
                      /\ accepted[i] \in a => n[accepted[i]] > 0 /\ accepted[i] \in Unprotected
    BY <1>5 DEF AcceptedInv
  <2>1. /\ accepted[i] \in 1 .. sent
        /\ accepted[i] \in active => next[accepted[i]] > 0 /\ accepted[i] \in Unprotected
    BY DEF OrderInv, AcceptedInv
  <2>2. accepted[i] \in Known
    BY <2>1, FramesAssumption DEF TypeInv, Known
  <2>3. next[accepted[i]] \in Nat /\ n[accepted[i]] \in Nat /\ next[accepted[i]] <= n[accepted[i]]
    BY <1>1, <1>2, <1>5, <2>2
  <2> QED
    BY <1>5, <2>1, <2>3
<1>6. ASSUME receiver'.buffer = <<>> PROVE BufferInv' /\ BrokenInv'
  <2>1. Elements(receiver'.buffer) = {} /\ {} \subseteq Elements(receiver.buffer)
    BY <1>6 DEF Elements
  <2>2. Written({}, next')
    BY DEF Written
  <2>3. Missing({}, next', active', broken)
    <3>1. Missing(Elements(receiver.buffer), next, active, broken)
      BY DEF OrderInv, BrokenInv
    <3> QED
      BY <1>1, <1>2, <2>1, <3>1, MissingStays
  <2> QED
    BY <1>6, <2>1, <2>2, <2>3 DEF BufferInv, BrokenInv, Written, Missing, Follows, Count, Piece
<1> DEFINE Joined(before) == Append(before, c.piece)
<1>7. CASE fed.state.buffer \in {<<>>, receiver.buffer} /\ fed.payload = <<>>
  <2>1. accepted' = accepted /\ receiver'.buffer \in {<<>>, receiver.buffer}
    BY <1>3, <1>7 DEF Decodes
  <2>2. AcceptedInv'
    BY <1>1, <1>5, <2>1
  <2>3. CASE receiver'.buffer = receiver.buffer
    <3>1. Written(Elements(receiver.buffer), next) /\ Missing(Elements(receiver.buffer), next, active, broken)
          /\ Follows(receiver.buffer, accepted)
      BY DEF OrderInv, BufferInv, BrokenInv
    <3>2. Written(Elements(receiver.buffer), next')
      BY <1>1, <1>2, <3>1, WrittenStays
    <3>3. Missing(Elements(receiver.buffer), next', active', broken)
      BY <1>1, <1>2, <3>1, MissingStays
    <3>4. BufferInv' /\ BrokenInv'
      BY <2>1, <2>3, <3>1, <3>2, <3>3 DEF BufferInv, BrokenInv
    <3> QED
      BY <1>4, <2>1, <2>2, <3>4 DEF OrderInv
  <2> QED
    BY <1>4, <1>6, <2>1, <2>2, <2>3 DEF OrderInv
<1>8. ASSUME NEW before \in Seq(Pieces), Joins(receiver, c, before),
             fed.state.buffer = Joined(before) /\ fed.payload = <<>>
      PROVE  OrderInv' /\ accepted' = accepted
  <2>1. accepted' = accepted /\ receiver'.buffer = Joined(before)
    BY <1>3, <1>8 DEF Decodes
  <2>2. /\ Written(Elements(Joined(before)), next') /\ Follows(Joined(before), accepted)
        /\ Missing(Elements(Joined(before)), next', active', broken)
    BY <1>8, JoinKeeps
  <2> HIDE DEF Joined
  <2>3. BufferInv' /\ BrokenInv'
    BY <2>1, <2>2 DEF BufferInv, BrokenInv
  <2> QED
    BY <1>1, <1>4, <1>5, <2>1, <2>3 DEF OrderInv
<1>9. ASSUME NEW before \in Seq(Pieces), Joins(receiver, c, before),
             fed.state = Empty /\ fed.payload = Joined(before)
      PROVE  OrderInv' /\ (accepted' = accepted \/ \E f \in Known : Arrival(f))
  <2>1. receiver'.buffer = <<>>
    BY <1>3, <1>9 DEF Empty
  <2>2. BufferInv' /\ BrokenInv'
    BY <1>6, <2>1
  <2>3. CASE ~Decodes(fed.payload, LengthOf, Unprotected)
    <3>1. accepted' = accepted
      BY <1>3, <2>3
    <3> QED
      BY <1>1, <1>4, <1>5, <2>2, <3>1 DEF OrderInv
  <2>4. CASE Decodes(fed.payload, LengthOf, Unprotected)
    <3> DEFINE payload == Joined(before)
               f == payload[1].frame
    <3>1. /\ Written(Elements(payload), next') /\ Follows(payload, accepted)
          /\ Missing(Elements(payload), next', active', broken)
      BY <1>9, JoinKeeps
    <3>2. payload \in Seq(Pieces) /\ Decodes(payload, LengthOf, Unprotected)
      BY <1>1, <1>9, <2>4
    <3>3. (\A g \in Known : g > sent => next'[g] = 0) /\ (\A g \in active' : next'[g] < Count(g))
      BY <1>1 DEF ProgressInv, Count
    <3>4. accepted' = Append(accepted, f)
      BY <1>3, <1>9, <2>4
    <3> HIDE DEF payload, fed
    <3>5. /\ f \in 1 .. sent /\ next'[f] > 0
          /\ \A i \in DOMAIN accepted : accepted[i] < f
          /\ f \in active' \cup broken => f \in Unprotected
      BY <1>1, <3>1, <3>2, <3>3, DecodedInTurn
    <3> HIDE DEF f
    <3>6. f \in Known /\ Arrival(f)
      BY <3>4, <3>5, FramesAssumption DEF Arrival, TypeInv, Known
    <3>7. AcceptedInv'
      <4> SUFFICES ASSUME NEW i \in DOMAIN accepted'
                   PROVE  /\ accepted'[i] \in 1 .. sent
                          /\ accepted'[i] \in active' => next'[accepted'[i]] > 0 /\ accepted'[i] \in Unprotected
        BY DEF AcceptedInv
      <4>1. accepted \in Seq(Known)
        BY DEF TypeInv
      <4>2. \/ i \in DOMAIN accepted /\ accepted'[i] = accepted[i]
            \/ accepted'[i] = f
        BY <3>4, <3>6, <4>1
      <4>3. CASE accepted'[i] = f
        BY <3>5, <4>3
      <4>4. CASE i \in DOMAIN accepted /\ accepted'[i] = accepted[i]
        <5>1. /\ accepted[i] \in 1 .. sent
              /\ accepted[i] \in active => next[accepted[i]] > 0 /\ accepted[i] \in Unprotected
          BY <4>4 DEF OrderInv, AcceptedInv
        <5>2. accepted[i] \in Known
          BY <4>1, <4>4
        <5>3. next[accepted[i]] \in Nat /\ next'[accepted[i]] \in Nat
              /\ next[accepted[i]] <= next'[accepted[i]]
          BY <1>1, <1>2, <5>2
        <5> QED
          BY <1>1, <4>4, <5>1, <5>3
      <4> QED
        BY <4>2, <4>3, <4>4
    <3> QED
      BY <1>4, <2>2, <3>6, <3>7 DEF OrderInv
  <2> QED
    BY <2>3, <2>4
<1>10. /\ fed.state \in Receivers
       /\ \/ fed.state.buffer \in {<<>>, receiver.buffer} /\ fed.payload = <<>>
          \/ \E before \in Seq(Pieces) :
               /\ Joins(receiver, c, before)
               /\ \/ fed.state.buffer = Append(before, c.piece) /\ fed.payload = <<>>
                  \/ fed.state = Empty /\ fed.payload = Append(before, c.piece)
  <2>1. receiver \in Receivers
    BY DEF TypeInv
  <2> QED
    BY <2>1, FeedFacts, Zenon
<1> HIDE DEF fed
<1> QED
  BY <1>7, <1>8, <1>9, <1>10

LEMMA InitOrder == Init => OrderInv
<1> SUFFICES ASSUME Init PROVE OrderInv
  OBVIOUS
<1>1. receiver.buffer = <<>> /\ accepted = <<>> /\ active = {} /\ broken = {}
  BY DEF Init, Empty
<1>2. Elements(receiver.buffer) = {}
  BY <1>1 DEF Elements
<1> QED
  BY <1>1, <1>2
     DEF OrderInv, SequentialInv, BufferInv, BrokenInv, AcceptedInv, Written, Missing, Follows

\* A frame begins after all the others have ended.
LEMMA BeginKeepsOrder ==
  ASSUME TypeInv, ProgressInv, OrderInv, Begin, Concurrent = FALSE
  PROVE  OrderInv'
<1>1. /\ sent' = sent + 1 /\ active' = {sent + 1} /\ active = {} /\ sent \in Nat
      /\ UNCHANGED <<next, broken, receiver, accepted>>
  <2>1. sent \in Nat
    BY SentFacts
  <2> QED
    BY <2>1 DEF Begin
<1>2. SequentialInv' /\ BufferInv'
  BY <1>1 DEF OrderInv, SequentialInv, BufferInv, Written, Follows, Piece
<1>3. BrokenInv'
  <2>1. broken \subseteq 1 .. sent
    BY DEF TypeInv
  <2>2. \A f \in broken : f \notin active'
    BY <1>1, <2>1
  <2>3. Missing(Elements(receiver.buffer), next, active, broken)
    BY DEF OrderInv, BrokenInv
  <2>4. Missing(Elements(receiver.buffer), next, active', broken)
    BY <2>2, <2>3 DEF Missing
  <2> QED
    BY <1>1, <2>4 DEF BrokenInv
<1>4. AcceptedInv'
  <2> SUFFICES ASSUME NEW i \in DOMAIN accepted
               PROVE  accepted[i] \in 1 .. sent + 1 /\ accepted[i] \notin {sent + 1}
    BY <1>1 DEF AcceptedInv
  <2>1. accepted[i] \in 1 .. sent
    BY DEF OrderInv, AcceptedInv
  <2> QED
    BY <1>1, <2>1
<1> QED
  BY <1>2, <1>3, <1>4 DEF OrderInv

\* A frame that loses its next fragment, or is given up, is the last one sent.
LEMMA LossKeepsOrder ==
  ASSUME TypeInv, ProgressInv, OrderInv, NEW f \in active, sent' = sent,
         UNCHANGED <<receiver, accepted>>, broken' = broken \cup {f},
         \/ Advance(f)
         \/ active' = active \ {f} /\ next' = next
  PROVE  OrderInv'
<1>1. /\ next \in [Known -> Nat] /\ broken \subseteq Known /\ f \in Known
      /\ next[f] \in Nat /\ next[f] < Count(f) /\ Count(f) \in Nat
  <2>1. f \in Known /\ broken \subseteq Known /\ next \in [Known -> Nat]
    BY FramesAssumption DEF TypeInv, Known
  <2> QED
    BY <2>1, CountIsPositive DEF ProgressInv
<1>2. /\ next' \in [Known -> Nat] /\ \A g \in Known : next[g] <= next'[g]
      /\ active' \subseteq active /\ (f \in active' => next[f] < next'[f])
  <2>1. CASE active' = active \ {f} /\ next' = next
    BY <1>1, <2>1
  <2>2. CASE Advance(f)
    <3>1. /\ active' \subseteq active /\ next' \in [Known -> Nat] /\ next'[f] = next[f] + 1
          /\ \A g \in Known \ {f} : next'[g] = next[g]
      BY <2>2, AdvanceKeeps
    <3>2. \A g \in Known : next[g] <= next'[g]
      <4> TAKE g \in Known
      <4>1. next[g] \in Nat /\ next'[g] \in Nat
        BY <1>1, <3>1
      <4> QED
        BY <3>1, <4>1
    <3> QED
      BY <1>1, <3>1, <3>2
  <2> QED
    BY <2>1, <2>2
<1> DEFINE held == Elements(receiver.buffer)
<1>3. Written(held, next) /\ Missing(held, next, active, broken) /\ Follows(receiver.buffer, accepted)
  BY DEF OrderInv, BufferInv, BrokenInv
<1> HIDE DEF held
<1>4. Written(held, next') /\ Missing(held, next', active', broken)
  <2>1. Written(held, next')
    BY <1>1, <1>2, <1>3, WrittenStays
  <2>2. Missing(held, next', active', broken)
    BY <1>1, <1>2, <1>3, MissingStays
  <2> QED
    BY <2>1, <2>2
<1>5. SequentialInv' /\ BufferInv'
  BY <1>2, <1>3, <1>4 DEF OrderInv, SequentialInv, BufferInv, held
<1>6. Piece(f, next[f]) \notin held
  <2> SUFFICES ASSUME Piece(f, next[f]) \in held PROVE FALSE
    OBVIOUS
  <2>1. Piece(f, next[f]).frame = f
    BY DEF Piece
  <2>2. PICK k \in 0 .. (next[f] - 1) : Piece(f, next[f]) = Piece(f, k)
    BY <1>1, <1>3, <2>1 DEF Written
  <2>3. k \in Nat /\ k # next[f]
    BY <1>1, <2>2
  <2> QED
    BY <1>1, <2>2, <2>3, PiecesDiffer
<1>7. Missing(held, next', active', broken \cup {f})
  <2> SUFFICES ASSUME NEW g \in broken \cup {f}
               PROVE  \E k \in 0 .. (Count(g) - 1) :
                        (g \in active' => k < next'[g]) /\ Piece(g, k) \notin held
    BY DEF Missing
  <2>1. CASE g \in broken
    BY <1>4, <2>1 DEF Missing
  <2>2. CASE g = f
    <3>1. next[f] \in 0 .. (Count(f) - 1)
      BY <1>1
    <3> QED
      BY <1>2, <1>6, <2>2, <3>1
  <2> QED
    BY <2>1, <2>2
<1>8. BrokenInv'
  BY <1>7 DEF BrokenInv, held
<1>9. AcceptedInv'
  <2> SUFFICES ASSUME NEW i \in DOMAIN accepted
               PROVE  /\ accepted[i] \in 1 .. sent
                      /\ accepted[i] \in active' => next'[accepted[i]] > 0 /\ accepted[i] \in Unprotected
    BY DEF AcceptedInv
  <2>1. /\ accepted[i] \in 1 .. sent
        /\ accepted[i] \in active => next[accepted[i]] > 0 /\ accepted[i] \in Unprotected
    BY DEF OrderInv, AcceptedInv
  <2>2. accepted[i] \in Known
    BY <2>1, FramesAssumption DEF TypeInv, Known
  <2>3. next[accepted[i]] \in Nat /\ next'[accepted[i]] \in Nat
        /\ next[accepted[i]] <= next'[accepted[i]]
    BY <1>1, <1>2, <2>2
  <2> QED
    BY <1>2, <2>1, <2>3
<1> QED
  BY <1>5, <1>8, <1>9 DEF OrderInv

\* What one step does, seen from outside.
LEMMA NextOrder ==
  ASSUME TypeInv, ProgressInv, OrderInv, [Next]_vars, Concurrent = FALSE
  PROVE  /\ OrderInv'
         /\ \/ sent' = sent + 1 /\ UNCHANGED <<broken, accepted>>
            \/ /\ \E f \in active : broken' = broken \cup {f}
               /\ UNCHANGED <<sent, accepted>>
            \/ /\ \E f \in 1 .. sent : /\ \A i \in DOMAIN accepted : accepted[i] < f
                                       /\ f \in broken => f \in Unprotected
                                       /\ accepted' = Append(accepted, f)
               /\ UNCHANGED <<sent, broken>>
            \/ UNCHANGED <<sent, broken, accepted>>
<1>1. CASE Begin
  BY <1>1, BeginKeepsOrder DEF Begin
<1>2. CASE Stray
  <2>1. sent' = sent /\ broken' = broken /\ next' = next /\ active' = active
    BY <1>2 DEF Stray
  <2>2. PICK c \in NoiseChunks : Receive(c)
    BY <1>2 DEF Stray
  <2>3. c \in Chunks /\ Comes(c)
    <3>1. c \in [index : Nat, declared : Nat, size : Nat,
                 cut : {"none", "index", "length", "version"},
                 piece : [frame : Nat \ 1 .. Frames, from : Nat]]
      BY NoiseAssumption
    <3>2. c \in Chunks
      BY <3>1 DEF Chunks, Pieces
    <3>3. c.piece.frame \notin Known
      BY <3>1 DEF Known
    <3> QED
      BY <2>1, <3>2, <3>3 DEF Comes
  <2> QED
    BY <2>1, <2>2, <2>3, ReceiveKeepsOrder DEF Arrival
<1>3. ASSUME NEW f \in Known, Write(f)
      PROVE  /\ OrderInv' /\ UNCHANGED <<sent, broken>>
             /\ accepted' = accepted \/ \E g \in Known : Arrival(g)
  <2> DEFINE c == Fragment(f, LengthOf[f], next[f])
  <2>1. f \in active /\ Advance(f) /\ Receive(c) /\ sent' = sent /\ broken' = broken
    BY <1>3 DEF Write
  <2>2. c \in Chunks /\ Comes(c)
    BY <2>1, AdvanceKeeps DEF Comes
  <2> HIDE DEF c
  <2> QED
    BY <2>1, <2>2, ReceiveKeepsOrder
<1>4. ASSUME NEW f \in Known, WriteLost(f)
      PROVE  /\ OrderInv' /\ f \in active
             /\ broken' = broken \cup {f} /\ UNCHANGED <<sent, accepted>>
  BY <1>4, LossKeepsOrder DEF WriteLost
<1>5. ASSUME NEW f \in Known, Abandon(f)
      PROVE  /\ OrderInv' /\ f \in active
             /\ broken' = broken \cup {f} /\ UNCHANGED <<sent, accepted>>
  BY <1>5, LossKeepsOrder DEF Abandon
<1>6. CASE UNCHANGED vars
  BY <1>6 DEF vars, OrderInv, SequentialInv, BufferInv, BrokenInv, AcceptedInv, Written, Missing,
              Follows, Piece, Count
<1> QED
  BY <1>1, <1>2, <1>3, <1>4, <1>5, <1>6 DEF Next, Known, Arrival

\* Frames that are written one after another arrive in order and none twice, and
\* one that lost a fragment only if it has no checksum (reassembler.py:33-62,
\* frame.py:138-154).
THEOREM FramesArriveInOrder == Concurrent = FALSE /\ Spec => ImplementsFrameChannel
<1> SUFFICES ASSUME Concurrent = FALSE PROVE Spec => ImplementsFrameChannel
  OBVIOUS
<1>1. Init => Channel!Init
  BY DEF Init, Channel!Init
<1>2. ASSUME TypeInv, ProgressInv, OrderInv, [Next]_vars
      PROVE  [Channel!Send \/ Channel!Break \/ Channel!Deliver]_<<sent, broken, accepted>>
  <2>0. accepted \in Seq(Known) /\ sent \in Nat /\ active \subseteq {sent} /\ active \subseteq 1 .. sent
    BY <1>2, SentFacts DEF TypeInv, OrderInv, SequentialInv
  <2> DEFINE last == Channel!Last
  <2>1. \/ accepted = <<>> /\ last = 0
        \/ Len(accepted) \in DOMAIN accepted /\ last = accepted[Len(accepted)]
    BY <2>0 DEF Channel!Last
  <2>2. last \in 0 .. sent /\ (last \in active => last \in Unprotected)
    <3>1. CASE accepted = <<>> /\ last = 0
      BY <2>0, <3>1
    <3>2. CASE Len(accepted) \in DOMAIN accepted /\ last = accepted[Len(accepted)]
      <4>1. last \in 1 .. sent /\ (last \in active => last \in Unprotected)
        <5>1. PICK i \in DOMAIN accepted : last = accepted[i]
          BY <3>2
        <5> HIDE DEF last
        <5> QED
          BY <1>2, <5>1 DEF OrderInv, AcceptedInv
      <4> QED
        BY <4>1
    <3> QED
      BY <2>1, <3>1, <3>2
  <2>3. CASE sent' = sent + 1 /\ UNCHANGED <<broken, accepted>>
    BY <2>3 DEF Channel!Send
  <2>4. ASSUME NEW f \in active, broken' = broken \cup {f}, UNCHANGED <<sent, accepted>>
        PROVE  Channel!Break
    <3>1. f = sent /\ f \in 1 .. sent
      BY <2>0
    <3>2. CASE f \in Unprotected
      BY <2>4, <3>1, <3>2 DEF Channel!Break
    <3>3. CASE f \notin Unprotected
      <4>1. f \in (last + 1) .. sent
        BY <2>0, <2>2, <3>1, <3>3
      <4> QED
        BY <2>4, <4>1 DEF Channel!Break
    <3> QED
      BY <3>2, <3>3
  <2>5. ASSUME NEW f \in 1 .. sent, \A i \in DOMAIN accepted : accepted[i] < f,
               f \in broken => f \in Unprotected, accepted' = Append(accepted, f),
               UNCHANGED <<sent, broken>>
        PROVE  Channel!Deliver
    <3>1. last < f
      BY <2>1, <2>5
    <3>2. f \in ((last + 1) .. sent) \ (broken \ Unprotected)
      BY <2>0, <2>2, <2>5, <3>1
    <3> QED
      BY <2>5, <3>2 DEF Channel!Deliver
  <2> QED
    BY <1>2, <2>3, <2>4, <2>5, NextOrder
<1>3. TypeInv /\ ProgressInv /\ OrderInv /\ [Next]_vars => OrderInv'
  BY NextOrder
<1> QED
  BY <1>1, <1>2, <1>3, InitTypes, NextTypes, InitOrder, PTL
     DEF Spec, Channel!Spec, ImplementsFrameChannel

InOrder == \A i, j \in DOMAIN accepted : i < j => accepted[i] < accepted[j]

\* That is to say: the frames that arrive are in the order they were sent in, and
\* none is among them twice (reassembler.py:33-62).
THEOREM NoneArrivesTwice == Concurrent = FALSE /\ Spec => []InOrder
<1> SUFFICES ASSUME Concurrent = FALSE PROVE Spec => []InOrder
  OBVIOUS
<1>1. Init => InOrder
  BY DEF Init, InOrder
<1>2. TypeInv /\ ProgressInv /\ OrderInv /\ [Next]_vars => OrderInv'
  BY NextOrder
<1>3. TypeInv /\ ProgressInv /\ OrderInv /\ InOrder /\ [Next]_vars => InOrder'
  <2> SUFFICES ASSUME TypeInv, ProgressInv, OrderInv, InOrder, [Next]_vars PROVE InOrder'
    OBVIOUS
  <2>1. CASE accepted' = accepted
    BY <2>1 DEF InOrder
  <2>2. ASSUME NEW f \in 1 .. sent, \A i \in DOMAIN accepted : accepted[i] < f,
               accepted' = Append(accepted, f)
        PROVE  InOrder'
    <3> SUFFICES ASSUME NEW i \in DOMAIN accepted', NEW j \in DOMAIN accepted', i < j
                 PROVE  accepted'[i] < accepted'[j]
      BY DEF InOrder
    <3>1. accepted \in Seq(Known)
      BY DEF TypeInv
    <3>2. /\ DOMAIN accepted = 1 .. Len(accepted) /\ Len(accepted) \in Nat
          /\ DOMAIN accepted' = 1 .. Len(accepted) + 1 /\ accepted'[Len(accepted) + 1] = f
          /\ \A k \in DOMAIN accepted : accepted'[k] = accepted[k]
      BY <2>2, <3>1
    <3>3. i \in DOMAIN accepted
      BY <3>2
    <3>4. CASE j = Len(accepted) + 1
      BY <2>2, <3>2, <3>3, <3>4
    <3>5. CASE j # Len(accepted) + 1
      <4>1. j \in DOMAIN accepted
        BY <3>2, <3>5
      <4> QED
        BY <3>2, <3>3, <4>1 DEF InOrder
    <3> QED
      BY <3>4, <3>5
  <2> QED
    BY <2>1, <2>2, NextOrder
<1> QED
  BY <1>1, <1>2, <1>3, InitTypes, NextTypes, InitOrder, PTL DEF Spec

-----------------------------------------------------------------------------
\* What arrives of a frame that nothing happened to.

\* The receiver holds the first k fragments of f and nothing else.
Holds(r, f, k) ==
  /\ Len(r.buffer) = k /\ \A i \in 1 .. k : r.buffer[i] = Piece(f, i - 1)
  /\ r.held = Start(LengthOf[f])[k] /\ r.expected = LengthOf[f] /\ r.next = k

WholeInv ==
  \A f \in active \ (broken \cup disturbed) : next[f] > 0 => Holds(receiver, f, next[f])

\* The next fragment of a frame joins those before it, and the last makes it whole.
LEMMA NextFragment ==
  ASSUME NEW f \in Known, NEW k \in Nat, k < Count(f),
         NEW r \in Receivers, k > 0 => Holds(r, f, k)
  PROVE  LET fed == Feed(r, Fragment(f, LengthOf[f], k))
         IN  /\ k + 1 < Count(f) => fed.payload = <<>> /\ Holds(fed.state, f, k + 1)
             /\ k + 1 = Count(f) => /\ Decodes(fed.payload, LengthOf, Unprotected)
                                    /\ fed.payload[1].frame = f
<1> DEFINE length == LengthOf[f]
           c      == Fragment(f, length, k)
           begin  == IF k = 0 THEN [Empty EXCEPT !.expected = c.declared] ELSE r
           longer == Append(begin.buffer, c.piece)
           held   == begin.held + c.size
           count  == Count(f)
           place  == Start(length)[k]
           end    == Start(length)[k + 1]
<1>1. /\ c \in Chunks /\ c.index = k /\ c.declared = length
      /\ c.cut = "none" /\ c.piece = Piece(f, k)
      /\ k + 1 = count => place + c.size = length
      /\ k + 1 < count => place + c.size = end /\ end < length
  BY FragmentFacts, Zenon
<1>2. length \in Nat \ {0} /\ count \in Nat \ {0} /\ Start(length)[0] = 0
  BY LengthAssumption, CountIsPositive, StartFacts DEF Known
<1>3. begin \in Receivers /\ Holds(begin, f, k)
  <2>1. CASE k # 0
    BY <2>1
  <2>2. CASE k = 0
    <3>1. begin = [buffer |-> <<>>, held |-> 0, expected |-> length, next |-> 0]
      BY <1>1, <2>2 DEF Empty
    <3>2. <<>> \in Seq(Pieces) /\ Len(<<>>) = 0
      OBVIOUS
    <3> HIDE DEF begin, length
    <3>3. begin \in Receivers
      BY <1>2, <3>1, <3>2 DEF Receivers
    <3>4. Holds(begin, f, k)
      BY <1>2, <2>2, <3>1, <3>2 DEF Holds, length
    <3> QED
      BY <3>3, <3>4
  <2> QED
    BY <2>1, <2>2
<1>4. Feed(r, c) = Accept(begin, c)
  <2>1. CASE k = 0
    BY <1>1, <2>1 DEF Feed
  <2>2. CASE k # 0
    <3>1. r.next = k /\ c.index > 0
      BY <1>1, <2>2 DEF Holds
    <3> QED
      BY <1>1, <2>2, <3>1 DEF Feed
  <2> QED
    BY <2>1, <2>2
<1> HIDE DEF begin
<1>5. /\ begin \in [buffer : Seq(Pieces), held : Nat, expected : Nat, next : Nat]
      /\ c.piece \in Pieces /\ Len(begin.buffer) = k /\ begin.next = k
      /\ begin.held = place /\ begin.expected = length
      /\ \A i \in 1 .. k : begin.buffer[i] = Piece(f, i - 1)
  BY <1>1, <1>3 DEF Receivers, Holds, Chunks
<1>6. /\ longer \in Seq(Pieces) /\ Len(longer) = k + 1
      /\ \A i \in 1 .. (k + 1) : longer[i] = Piece(f, i - 1)
  <2>1. /\ longer \in Seq(Pieces) /\ Len(longer) = k + 1 /\ longer[k + 1] = c.piece
        /\ \A i \in 1 .. k : longer[i] = begin.buffer[i]
    BY <1>5
  <2> HIDE DEF longer
  <2>2. ASSUME NEW i \in 1 .. (k + 1) PROVE longer[i] = Piece(f, i - 1)
    <3>1. CASE i = k + 1
      <4>1. i - 1 = k
        BY <3>1
      <4> QED
        BY <1>1, <2>1, <3>1, <4>1
    <3>2. CASE i # k + 1
      <4>1. i \in 1 .. k
        BY <3>2
      <4> QED
        BY <1>5, <2>1, <4>1
    <3> QED
      BY <3>1, <3>2
  <2> QED
    BY <2>1, <2>2
<1> DEFINE more == [begin EXCEPT !.buffer = longer, !.held = held, !.next = @ + 1]
<1>7. Accept(begin, c) = IF held > begin.expected THEN Incomplete(Empty)
                         ELSE IF held < begin.expected THEN Incomplete(more)
                              ELSE Complete(Empty, longer)
  BY DEF Accept
<1>8. /\ more.buffer = longer /\ more.held = held /\ more.next = k + 1
      /\ more.expected = length
  BY <1>5
<1>9. /\ Incomplete(more).state = more /\ Incomplete(more).payload = <<>>
      /\ Complete(Empty, longer).payload = longer
  BY DEF Incomplete, Complete
<1>10. place \in Nat /\ end \in Nat /\ held = place + c.size
  <2>1. Start(length) \in [Nat -> Nat]
    BY <1>2, StartFacts
  <2>2. place \in Nat /\ end \in Nat
    BY <2>1
  <2> HIDE DEF place, end
  <2> QED
    BY <1>5, <2>2
<1> HIDE DEF c, longer, held, more, count, length, place, end
<1>11. ASSUME k + 1 < count
       PROVE  LET fed == Feed(r, c) IN fed.payload = <<>> /\ Holds(fed.state, f, k + 1)
  <2>1. held = end /\ held < length
    BY <1>1, <1>10, <1>11
  <2>2. Feed(r, c) = Incomplete(more)
    BY <1>2, <1>4, <1>5, <1>7, <1>10, <2>1
  <2>3. Holds(more, f, k + 1)
    BY <1>6, <1>8, <2>1 DEF Holds, end, length
  <2> QED
    BY <1>9, <2>2, <2>3
<1>12. ASSUME k + 1 = count
       PROVE  LET fed == Feed(r, c)
              IN  Decodes(fed.payload, LengthOf, Unprotected) /\ fed.payload[1].frame = f
  <2>1. held = length
    BY <1>1, <1>10, <1>12
  <2>2. Feed(r, c) = Complete(Empty, longer)
    BY <1>2, <1>4, <1>5, <1>7, <1>10, <2>1
  <2>3. longer # <<>> /\ longer[1] = Piece(f, 0)
    <3>1. 1 \in 1 .. (k + 1) /\ 1 - 1 = 0
      OBVIOUS
    <3> QED
      BY <1>6, <3>1
  <2>4. longer[1].frame = f
    BY <2>3 DEF Piece
  <2>5. Opens(longer, f, LengthOf[f], k + 1)
    BY <1>6 DEF Opens, Fragment, Piece
  <2>6. FragmentCount(LengthOf[f]) = k + 1
    BY <1>12 DEF count, Count
  <2>7. f \in DOMAIN LengthOf
    BY LengthAssumption DEF Known
  <2>8. Decodes(longer, LengthOf, Unprotected)
    BY <1>6, <2>3, <2>4, <2>5, <2>6, <2>7 DEF Decodes
  <2> QED
    BY <1>9, <2>2, <2>4, <2>8
<1> QED
  BY <1>11, <1>12 DEF c, count, length

LEMMA ArrivedStays ==
  ASSUME TypeInv, NEW f \in Known, \E i \in DOMAIN accepted : accepted[i] = f,
         \/ accepted' = accepted
         \/ \E g \in Known : accepted' = Append(accepted, g)
  PROVE  \E i \in DOMAIN accepted' : accepted'[i] = f
<1>1. PICK i \in DOMAIN accepted : accepted[i] = f
  OBVIOUS
<1>2. accepted \in Seq(Known)
  BY DEF TypeInv
<1>3. i \in DOMAIN accepted' /\ accepted'[i] = f
  BY <1>1, <1>2
<1> QED
  BY <1>3

LEMMA ReceiveAppends ==
  ASSUME TypeInv, NEW c, Receive(c)
  PROVE  \/ accepted' = accepted
         \/ \E g \in Known : accepted' = Append(accepted, g)
<1> DEFINE payload == Feed(receiver, c).payload
<1>1. Decodes(payload, LengthOf, Unprotected) => payload[1].frame \in Known
  BY LengthAssumption DEF Decodes, Known
<1>2. accepted' = IF Decodes(payload, LengthOf, Unprotected)
                  THEN Append(accepted, payload[1].frame) ELSE accepted
  BY DEF Receive
<1> HIDE DEF payload
<1> QED
  BY <1>1, <1>2

LEMMA NextWhole ==
  ASSUME TypeInv, ProgressInv, SequentialInv, WholeInv, UndamagedArrives, [Next]_vars,
         Concurrent = FALSE
  PROVE  WholeInv' /\ UndamagedArrives'
<1>0. /\ sent \in Nat /\ active \subseteq 1 .. sent /\ active \subseteq {sent}
      /\ 1 .. sent \subseteq Known
  BY SentFacts, FramesAssumption DEF SequentialInv, Known
<1>1. CASE Begin
  <2>1. /\ sent' = sent + 1 /\ active' = {sent + 1} /\ active = {} /\ sent < Frames
        /\ UNCHANGED <<next, broken, disturbed, receiver, accepted>>
    BY <1>1 DEF Begin
  <2>2. next[sent + 1] = 0
    BY <1>0, <2>1, FramesAssumption DEF ProgressInv, Known
  <2>3. WholeInv'
    BY <2>1, <2>2 DEF WholeInv
  <2>4. UndamagedArrives'
    <3> SUFFICES ASSUME NEW f \in 1 .. sent + 1, f \notin {sent + 1} \cup broken \cup disturbed
                 PROVE  \E i \in DOMAIN accepted : accepted[i] = f
      BY <2>1 DEF UndamagedArrives
    <3>1. f \in 1 .. sent /\ f \notin active \cup broken \cup disturbed
      BY <1>0, <2>1
    <3> QED
      BY <3>1 DEF UndamagedArrives
  <2> QED
    BY <2>3, <2>4
<1>2. CASE Stray
  <2>1. /\ disturbed' = disturbed \cup active /\ UNCHANGED <<sent, active, next, broken>>
        /\ \E c \in NoiseChunks : Receive(c)
    BY <1>2 DEF Stray
  <2>2. WholeInv'
    BY <2>1 DEF WholeInv
  <2>3. UndamagedArrives'
    <3> SUFFICES ASSUME NEW f \in 1 .. sent, f \notin active \cup broken \cup disturbed
                 PROVE  \E i \in DOMAIN accepted' : accepted'[i] = f
      BY <2>1 DEF UndamagedArrives
    <3>1. \E i \in DOMAIN accepted : accepted[i] = f
      BY DEF UndamagedArrives
    <3> QED
      BY <1>0, <2>1, <3>1, ReceiveAppends, ArrivedStays
  <2> QED
    BY <2>2, <2>3
<1>3. ASSUME NEW f \in Known, Write(f) PROVE WholeInv' /\ UndamagedArrives'
  <2> DEFINE c == Fragment(f, LengthOf[f], next[f])
  <2>1. /\ f \in active /\ Advance(f) /\ Receive(c)
        /\ UNCHANGED <<sent, broken, disturbed>>
    BY <1>3 DEF Write
  <2>2. /\ c \in Chunks /\ active' \subseteq active /\ next[f] \in Nat
        /\ next'[f] = next[f] + 1 /\ (f \in active' <=> next[f] + 1 # Count(f))
    BY <2>1, AdvanceKeeps
  <2>3. next[f] < Count(f) /\ Count(f) \in Nat /\ f = sent /\ receiver \in Receivers
    BY <1>0, <2>1, CountIsPositive DEF ProgressInv, TypeInv
  <2> DEFINE fed == Feed(receiver, c)
  <2>4. /\ receiver' = fed.state
        /\ accepted' = IF Decodes(fed.payload, LengthOf, Unprotected)
                       THEN Append(accepted, fed.payload[1].frame) ELSE accepted
    BY <2>1 DEF Receive
  <2>5. ASSUME f \notin broken \cup disturbed
        PROVE  /\ next[f] + 1 < Count(f) => fed.payload = <<>> /\ Holds(fed.state, f, next[f] + 1)
               /\ next[f] + 1 = Count(f) => /\ Decodes(fed.payload, LengthOf, Unprotected)
                                            /\ fed.payload[1].frame = f
    <3>1. next[f] > 0 => Holds(receiver, f, next[f])
      BY <2>1, <2>5 DEF WholeInv
    <3>2. PICK k \in Nat : k = next[f]
      BY <2>2
    <3>3. k < Count(f) /\ (k > 0 => Holds(receiver, f, k))
      BY <2>3, <3>1, <3>2
    <3> HIDE DEF c, fed
    <3>4. LET heard == Feed(receiver, Fragment(f, LengthOf[f], k))
          IN  /\ k + 1 < Count(f) => heard.payload = <<>> /\ Holds(heard.state, f, k + 1)
              /\ k + 1 = Count(f) => /\ Decodes(heard.payload, LengthOf, Unprotected)
                                     /\ heard.payload[1].frame = f
      BY <2>3, <3>3, NextFragment
    <3> QED
      BY <3>2, <3>4, Zenon DEF c, fed
  <2> HIDE DEF c, fed
  <2>6. WholeInv'
    <3> SUFFICES ASSUME NEW g \in active', g \notin broken \cup disturbed, next'[g] > 0
                 PROVE  Holds(receiver', g, next'[g])
      BY <2>1 DEF WholeInv, Holds, Piece
    <3>1. g = f
      BY <1>0, <2>2, <2>3
    <3>2. next[f] + 1 < Count(f)
      BY <2>2, <2>3, <3>1
    <3> QED
      BY <2>2, <2>4, <2>5, <3>1, <3>2
  <2>7. UndamagedArrives'
    <3> SUFFICES ASSUME NEW g \in 1 .. sent, g \notin active' \cup broken \cup disturbed
                 PROVE  \E i \in DOMAIN accepted' : accepted'[i] = g
      BY <2>1 DEF UndamagedArrives
    <3>1. CASE g \notin active
      <4>1. \E i \in DOMAIN accepted : accepted[i] = g
        BY <3>1 DEF UndamagedArrives
      <4> QED
        BY <1>0, <2>1, <4>1, ReceiveAppends, ArrivedStays
    <3>2. CASE g \in active
      <4>1. g = f /\ next[f] + 1 = Count(f)
        BY <1>0, <2>2, <2>3, <3>2
      <4>2. accepted' = Append(accepted, f) /\ accepted \in Seq(Known)
        BY <2>4, <2>5, <4>1 DEF TypeInv
      <4>3. Len(accepted) + 1 \in DOMAIN accepted' /\ accepted'[Len(accepted) + 1] = f
        BY <4>2
      <4> QED
        BY <4>1, <4>3
    <3> QED
      BY <3>1, <3>2
  <2> QED
    BY <2>6, <2>7
<1>4. ASSUME NEW f \in active, broken' = broken \cup {f}, active' \subseteq active,
             UNCHANGED <<sent, disturbed, accepted>>
      PROVE  WholeInv' /\ UndamagedArrives'
  <2>1. active \subseteq {f}
    BY <1>0
  <2>2. WholeInv'
    BY <1>4, <2>1 DEF WholeInv
  <2>3. UndamagedArrives'
    BY <1>4, <2>1 DEF UndamagedArrives
  <2> QED
    BY <2>2, <2>3
<1>5. ASSUME NEW f \in Known, WriteLost(f) PROVE WholeInv' /\ UndamagedArrives'
  <2>1. /\ f \in active /\ Advance(f) /\ broken' = broken \cup {f}
        /\ UNCHANGED <<sent, disturbed, accepted>>
    BY <1>5 DEF WriteLost
  <2>2. active' \subseteq active
    BY <2>1 DEF Advance
  <2> QED
    BY <1>4, <2>1, <2>2
<1>6. ASSUME NEW f \in Known, Abandon(f) PROVE WholeInv' /\ UndamagedArrives'
  <2>1. /\ f \in active /\ active' \subseteq active /\ broken' = broken \cup {f}
        /\ UNCHANGED <<sent, disturbed, accepted>>
    BY <1>6 DEF Abandon
  <2> QED
    BY <1>4, <2>1
<1>7. CASE UNCHANGED vars
  BY <1>7 DEF vars, WholeInv, UndamagedArrives, Holds, Piece
<1> QED
  BY <1>1, <1>2, <1>3, <1>5, <1>6, <1>7 DEF Next, Known

\* A frame that is written whole while no other is, and of which nothing is lost,
\* arrives, whatever happened to the frames before it (reassembler.py:33-62).
THEOREM WholeFramesArrive == Concurrent = FALSE /\ Spec => []UndamagedArrives
<1> SUFFICES ASSUME Concurrent = FALSE PROVE Spec => []UndamagedArrives
  OBVIOUS
<1>1. Init => WholeInv /\ UndamagedArrives
  <2>1. Init => active = {} /\ sent = 0
    BY DEF Init
  <2> QED
    BY <2>1 DEF WholeInv, UndamagedArrives
<1>2. TypeInv /\ ProgressInv /\ OrderInv /\ [Next]_vars => OrderInv'
  BY NextOrder
<1>3. TypeInv /\ ProgressInv /\ OrderInv /\ WholeInv /\ UndamagedArrives /\ [Next]_vars
        => WholeInv' /\ UndamagedArrives'
  BY NextWhole DEF OrderInv
<1> QED
  BY <1>1, <1>2, <1>3, InitTypes, NextTypes, InitOrder, PTL DEF Spec
=============================================================================

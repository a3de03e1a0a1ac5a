-------------------------- MODULE DataPointsProofs --------------------------
(***************************************************************************)
(* Theorems about DataPoints, for every set of bytes, reports of every     *)
(* length, every mapping the reports before left and every length of a     *)
(* timestamp.                                                              *)
(***************************************************************************)
EXTENDS DataPoints, SequenceTheorems, TLAPS

-----------------------------------------------------------------------------
\* The folds of the module.

UnsignedStep(n, d)      == n * 256 + d
SpanStep(n, d)          == n * 256
EncodeStep(bytes, r)    == bytes \o <<r.identifier, r.type, Len(r.raw)>> \o r.raw
MergedStep(m, p)        == [n \in DOMAIN m \cup {p.identifier} |->
                              IF n = p.identifier THEN p ELSE m[n]]

Reading  == INSTANCE Induction WITH Step <- UnsignedStep
Spanning == INSTANCE Induction WITH Step <- SpanStep
Encoding == INSTANCE Induction WITH Step <- EncodeStep
Merging  == INSTANCE Induction WITH Step <- MergedStep

LEMMA UnsignedIsFold ==
  ASSUME NEW s PROVE Unsigned(s) = Reading!Fold(0, s)
  BY Zenon DEF Unsigned, InBase, UnsignedStep, FoldLeft, MapThenFoldSet, Max,
               Reading!Fold, Reading!FoldLeft, Reading!MapThenFoldSet, Reading!Max

LEMMA SpanIsFold ==
  ASSUME NEW s PROVE Span(s) = Spanning!Fold(1, s)
  BY Zenon DEF Span, SpanStep, FoldLeft, MapThenFoldSet, Max,
               Spanning!Fold, Spanning!FoldLeft, Spanning!MapThenFoldSet, Spanning!Max

LEMMA EncodeIsFold ==
  ASSUME NEW s PROVE Encode(s) = Encoding!Fold(<<>>, s)
  BY Zenon DEF Encode, EncodeStep, FoldLeft, MapThenFoldSet, Max,
               Encoding!Fold, Encoding!FoldLeft, Encoding!MapThenFoldSet, Encoding!Max

LEMMA MergedIsFold ==
  ASSUME NEW before, NEW s PROVE Merged(before, s) = Merging!Fold(before, s)
  BY Zenon DEF Merged, MergedStep, FoldLeft, MapThenFoldSet, Max,
               Merging!Fold, Merging!FoldLeft, Merging!MapThenFoldSet, Merging!Max

LEMMA Elements ==
  ASSUME NEW R, NEW s \in Seq(R)
  PROVE  Len(s) \in Nat /\ DOMAIN s = 1 .. Len(s) /\ \A k \in 1 .. Len(s) : s[k] \in R
  OBVIOUS

LEMMA Residue ==
  ASSUME NEW span \in Nat \ {0}, NEW u \in 0 .. span - 1
  PROVE  u % span = u /\ (u - span) % span = u
  BY SMT

LEMMA OneMoreDigit ==
  ASSUME NEW u \in Nat, NEW w \in Nat, u < w, NEW d \in 0 .. 255
  PROVE  /\ u * 256 + d \in Nat /\ u * 256 + d < w * 256
         /\ w = 1 => (d >= 128 <=> 2 * (u * 256 + d) >= w * 256)
         /\ \A half \in Nat : w = half * 256 =>
              (2 * u >= w <=> 2 * (u * 256 + d) >= w * 256)
  OBVIOUS

\* As many bytes as raw stand for fewer numbers than its span, and their top bit
\* tells in which half of the span they are.
LEMMA UnsignedFacts ==
  ASSUME NEW raw \in Seq(0 .. 255)
  PROVE  /\ Span(raw) \in Nat \ {0} /\ Unsigned(raw) \in 0 .. Span(raw) - 1
         /\ raw # <<>> => (raw[1] >= 128 <=> 2 * Unsigned(raw) >= Span(raw))
<1> DEFINE n == Len(raw)
<1>1. n \in Nat /\ \A k \in 1 .. n : raw[k] \in 0 .. 255
  BY Elements
<1>2. PICK h \in [0 .. n -> Nat \ {0}] : Spanning!IsPath(h, 1, raw)
  <2>1. 1 \in Nat \ {0} /\ \A v \in Nat \ {0}, d \in 0 .. 255 : SpanStep(v, d) \in Nat \ {0}
    BY DEF SpanStep
  <2> QED
    BY <2>1, Spanning!FoldPath
<1>3. h[0] = 1 /\ h[n] = Span(raw) /\ \A k \in 1 .. n : h[k] = h[k - 1] * 256
  BY <1>2, SpanIsFold DEF Spanning!IsPath, SpanStep
<1> HIDE DEF n
<1> DEFINE I == [k \in 0 .. n |->
                   {u \in Nat : /\ u < h[k]
                                /\ k > 0 => (raw[1] >= 128 <=> 2 * u >= h[k])}]
<1>4. 0 \in I[0]
  BY <1>1, <1>3
<1>5. ASSUME NEW k \in 1 .. n, NEW u \in Nat \cap I[k - 1]
      PROVE  UnsignedStep(u, raw[k]) \in I[k]
  <2>1. k \in 0 .. n /\ k - 1 \in 0 .. n
    BY <1>1
  <2>2. PICK w \in Nat : w = h[k - 1]
    BY <1>2, <2>1
  <2>3. PICK d \in 0 .. 255 : d = raw[k]
    BY <1>1
  <2>4. h[k] = w * 256
    BY <1>3, <2>2
  <2>5. u \in Nat /\ u < w /\ (k - 1 > 0 => (raw[1] >= 128 <=> 2 * u >= w))
    BY <2>1, <2>2
  <2>6. /\ u * 256 + d \in Nat /\ u * 256 + d < w * 256
        /\ w = 1 => (d >= 128 <=> 2 * (u * 256 + d) >= w * 256)
        /\ \A half \in Nat : w = half * 256 =>
             (2 * u >= w <=> 2 * (u * 256 + d) >= w * 256)
    <3> HIDE DEF I
    <3> QED
      BY <2>5, OneMoreDigit
  <2>7. raw[1] >= 128 <=> 2 * (u * 256 + d) >= w * 256
    <3>1. CASE k = 1
      BY <1>3, <2>2, <2>3, <2>6, <3>1
    <3>2. CASE k > 1
      <4>1. k - 1 \in 1 .. n /\ k - 2 \in 0 .. n /\ (k - 1) - 1 = k - 2
        BY <1>1, <3>2
      <4>2. h[k - 1] = h[k - 2] * 256 /\ h[k - 2] \in Nat
        BY <1>2, <1>3, <4>1
      <4>3. PICK half \in Nat : w = half * 256
        BY <2>2, <4>2
      <4> HIDE DEF I
      <4> QED
        BY <2>5, <2>6, <3>2, <4>3
    <3> QED
      BY <1>1, <3>1, <3>2
  <2>8. u * 256 + d \in I[k]
    BY <2>1, <2>4, <2>6, <2>7
  <2> QED
    BY <2>3, <2>8 DEF UnsignedStep
<1>6. Reading!Fold(0, raw) \in Nat \cap I[n]
  <2>1. 0 \in Nat /\ \A v \in Nat, d \in 0 .. 255 : UnsignedStep(v, d) \in Nat
    BY DEF UnsignedStep
  <2> HIDE DEF I
  <2> QED
    BY <1>4, <1>5, <2>1, Reading!FoldInvariant DEF n
<1>7. Unsigned(raw) \in Nat \cap I[n]
  BY <1>6, UnsignedIsFold
<1>8. n > 0 <=> raw # <<>>
  BY DEF n
<1> QED
  BY <1>1, <1>3, <1>7, <1>8

\* Two's complement: the number of that width which is congruent to the bytes.
LEMMA SignedFacts ==
  ASSUME NEW raw \in Seq(0 .. 255), raw # <<>>
  PROVE  /\ 2 * Signed(raw) \in -Span(raw) .. Span(raw) - 1
         /\ Signed(raw) % Span(raw) = Unsigned(raw)
<1>1. /\ Span(raw) \in Nat \ {0} /\ Unsigned(raw) \in 0 .. Span(raw) - 1
      /\ raw[1] >= 128 <=> 2 * Unsigned(raw) >= Span(raw)
  BY UnsignedFacts
<1>2. Signed(raw) = IF 2 * Unsigned(raw) >= Span(raw) THEN Unsigned(raw) - Span(raw)
                    ELSE Unsigned(raw)
  BY <1>1 DEF Signed
<1>3. 2 * Signed(raw) \in -Span(raw) .. Span(raw) - 1
  BY <1>1, <1>2
<1>4. Signed(raw) % Span(raw) = Unsigned(raw)
  BY <1>1, <1>2, Residue
<1> QED
  BY <1>3, <1>4

-----------------------------------------------------------------------------
\* Slices of the report, and the record at the position.

LEMMA SliceFacts ==
  ASSUME data \in Seq(Bytes), NEW i \in 0 .. Len(data), NEW j \in i .. Len(data)
  PROVE  /\ Slice(i, j) = SubSeq(data, i + 1, j) /\ Slice(i, j) \in Seq(Bytes)
         /\ Len(Slice(i, j)) = j - i
         /\ \A k \in 1 .. (j - i) : Slice(i, j)[k] = data[i + k]
<1>1. Slice(i, j) = SubSeq(data, i + 1, j)
  BY DEF Slice
<1>2. \A k \in (i + 1) .. j : k \in 1 .. Len(data)
  OBVIOUS
<1> QED
  BY <1>1, <1>2

LEMMA ThreeElements ==
  ASSUME NEW S, NEW t \in Seq(S), Len(t) = 3
  PROVE  t = <<t[1], t[2], t[3]>>
<1>1. 1 \in 1 .. Len(t) /\ 2 \in 1 .. Len(t) /\ 3 \in 1 .. Len(t)
  OBVIOUS
<1>2. /\ <<t[1], t[2], t[3]>> \in Seq(S) /\ Len(<<t[1], t[2], t[3]>>) = 3
      /\ \A k \in 1 .. 3 : t[k] = <<t[1], t[2], t[3]>>[k]
  BY <1>1, Elements
<1> QED
  BY <1>2, SeqEqual

\* Two slices, the second of which begins where the first one ends, are one.
LEMMA Joined ==
  ASSUME data \in Seq(Bytes), NEW i \in 0 .. Len(data), NEW j \in i .. Len(data),
         NEW k \in j .. Len(data)
  PROVE  Slice(i, j) \o Slice(j, k) = Slice(i, k)
<1>1. i + 1 \in 1 .. Len(data) + 1 /\ j \in (i + 1) - 1 .. Len(data) /\ k \in j .. Len(data)
  OBVIOUS
<1>2. SubSeq(data, i + 1, j) \o SubSeq(data, j + 1, k) = SubSeq(data, i + 1, k)
  BY <1>1, ConcatAdjacentSubSeq
<1>3. j \in 0 .. Len(data) /\ k \in j .. Len(data) /\ k \in i .. Len(data)
  OBVIOUS
<1>4. /\ Slice(i, j) = SubSeq(data, i + 1, j) /\ Slice(j, k) = SubSeq(data, j + 1, k)
      /\ Slice(i, k) = SubSeq(data, i + 1, k)
  BY <1>3, SliceFacts
<1> QED
  BY <1>2, <1>4

\* The bytes of the record at the position, if it ends within the report.
LEMMA RecordBytes ==
  ASSUME data \in Seq(Bytes), position \in 0 .. Len(data), MoreRecords,
         At(position + 2) \in Nat, RecordEnd <= Len(data), NEW i \in 0 .. position
  PROVE  LET raw == Slice(position + RECORD_HEADER_LENGTH, RecordEnd)
         IN  /\ RecordEnd \in (position + RECORD_HEADER_LENGTH) .. Len(data)
             /\ raw \in Seq(Bytes) /\ Len(raw) = At(position + 2)
             /\ Slice(i, position) \o <<At(position), At(position + 1), Len(raw)>> \o raw
                  = Slice(i, RecordEnd)
<1> DEFINE body == position + RECORD_HEADER_LENGTH
           raw  == Slice(body, RecordEnd)
           head == <<At(position), At(position + 1), Len(raw)>>
<1>1. /\ body = position + 3 /\ Len(data) \in Nat /\ position \in Nat /\ i \in Nat
      /\ RecordEnd = body + At(position + 2) /\ RecordEnd \in Nat
      /\ body \in 0 .. Len(data) /\ RecordEnd \in body .. Len(data)
  BY DEF RECORD_HEADER_LENGTH, RecordEnd, MoreRecords
<1>2. raw \in Seq(Bytes) /\ Len(raw) = RecordEnd - body
  BY <1>1, SliceFacts
<1>3. Len(raw) = At(position + 2)
  BY <1>1, <1>2
<1> HIDE DEF body
<1>4. head = Slice(position, body)
  <2> HIDE DEF raw
  <2> DEFINE three == Slice(position, body)
  <2>1. position \in 0 .. Len(data) /\ body \in position .. Len(data)
    BY <1>1
  <2>2. /\ three \in Seq(Bytes) /\ Len(three) = body - position
        /\ \A k \in 1 .. (body - position) : three[k] = data[position + k]
    BY <2>1, SliceFacts
  <2> HIDE DEF three
  <2>3. Len(three) = 3 /\ \A k \in 1 .. 3 : three[k] = data[position + k]
    BY <1>1, <2>2
  <2>4. three[1] = At(position) /\ three[2] = At(position + 1) /\ three[3] = At(position + 2)
    BY <1>1, <2>3 DEF At
  <2>5. three = <<three[1], three[2], three[3]>>
    BY <2>2, <2>3, ThreeElements
  <2> QED
    BY <1>3, <2>4, <2>5 DEF three
<1>5. Slice(i, position) \o Slice(position, body) = Slice(i, body)
  <2>1. i \in 0 .. Len(data) /\ position \in i .. Len(data) /\ body \in position .. Len(data)
    BY <1>1
  <2> QED
    BY <2>1, Joined
<1>6. Slice(i, body) \o Slice(body, RecordEnd) = Slice(i, RecordEnd)
  <2>1. i \in 0 .. Len(data) /\ body \in i .. Len(data) /\ RecordEnd \in body .. Len(data)
    BY <1>1
  <2> QED
    BY <2>1, Joined
<1> QED
  BY <1>1, <1>2, <1>3, <1>4, <1>5, <1>6 DEF body

\* The one record that can start at the position is the one that is read.
LEMMA RecordAt ==
  ASSUME data \in Seq(Bytes), position \in 0 .. Len(data), MoreRecords,
         At(position + 2) \in Nat, NEW b \in (position + 1) .. Len(data)
  PROVE  IsRecord(Slice(position, b)) <=> ~Unreadable /\ b = RecordEnd
<1> DEFINE bytes == Slice(position, b)
<1>1. /\ RECORD_HEADER_LENGTH = 3 /\ Len(data) \in Nat /\ position \in Nat /\ b \in Nat
      /\ RecordEnd = position + 3 + At(position + 2)
      /\ position + 3 < Len(data) /\ b \in position .. Len(data)
  BY DEF RECORD_HEADER_LENGTH, RecordEnd, MoreRecords
<1>2. /\ bytes \in Seq(Bytes) /\ Len(bytes) = b - position
      /\ \A k \in 1 .. (b - position) : bytes[k] = data[position + k]
  BY <1>1, SliceFacts
<1> HIDE DEF bytes
<1>3. CASE b < position + 3
  BY <1>1, <1>2, <1>3 DEF IsRecord, bytes
<1>4. CASE b >= position + 3
  <2>1. position + 3 \in 0 .. Len(data) /\ b \in (position + 3) .. Len(data)
    BY <1>1, <1>4
  <2>2. /\ Slice(position + 3, b) \in Seq(Bytes) /\ Len(Slice(position + 3, b)) = b - (position + 3)
        /\ \A k \in 1 .. (b - (position + 3)) : Slice(position + 3, b)[k] = data[position + 3 + k]
    BY <2>1, SliceFacts
  <2>3. SubSeq(bytes, 4, Len(bytes)) = Slice(position + 3, b)
    <3>1. bytes = SubSeq(data, position + 1, b)
      BY <1>1, SliceFacts DEF bytes
    <3>2. Slice(position + 3, b) = SubSeq(data, position + 4, b)
      <4>1. (position + 3) + 1 = position + 4
        BY <1>1
      <4> QED
        BY <2>1, <4>1, SliceFacts
    <3>3. CASE b = position + 3
      <4>1. SubSeq(bytes, 4, Len(bytes)) = <<>>
        BY <1>1, <1>2, <3>3, SubSeqEmpty
      <4>2. SubSeq(data, position + 4, b) = <<>>
        BY <1>1, <3>3, SubSeqEmpty
      <4> QED
        BY <3>2, <4>1, <4>2
    <3>4. CASE b > position + 3
      <4>1. /\ position + 1 \in 1 .. Len(data) /\ b \in 1 .. Len(data)
            /\ 4 \in 1 .. b - (position + 1) + 1
            /\ Len(bytes) \in 1 .. b - (position + 1) + 1
        BY <1>1, <1>2, <3>4
      <4>2. SubSeq(SubSeq(data, position + 1, b), 4, Len(bytes))
              = SubSeq(data, (position + 1) + 4 - 1, (position + 1) + Len(bytes) - 1)
        BY <4>1, SubSeqOfSubSeq
      <4>3. (position + 1) + 4 - 1 = position + 4 /\ (position + 1) + Len(bytes) - 1 = b
        BY <1>1, <1>2
      <4> QED
        BY <3>1, <3>2, <4>2, <4>3
    <3> QED
      BY <1>1, <1>4, <3>3, <3>4
  <2>4. bytes[2] = At(position + 1) /\ bytes[3] = At(position + 2)
    <3>1. 2 \in 1 .. (b - position) /\ 3 \in 1 .. (b - position)
      BY <1>1, <1>4
    <3> QED
      BY <1>1, <1>2, <3>1 DEF At
  <2>5. bytes[3] = Len(bytes) - RECORD_HEADER_LENGTH <=> b = RecordEnd
    BY <1>1, <1>2, <2>4
  <2>6. IsRecord(bytes) <=>
          /\ At(position + 1) \in Range(DataPointType) /\ b = RecordEnd
          /\ At(position + 1) = DataPointType.string => Decodable(Slice(position + 3, b))
    <3>1. Len(bytes) >= RECORD_HEADER_LENGTH
      BY <1>1, <1>2, <1>4
    <3> HIDE DEF RECORD_HEADER_LENGTH, RecordEnd
    <3> QED
      BY <2>3, <2>4, <2>5, <3>1, Zenon DEF IsRecord
  <2> QED
    BY <1>1, <2>6 DEF Unreadable, bytes
<1> QED
  BY <1>1, <1>3, <1>4

-----------------------------------------------------------------------------
\* The records of a report, their bytes, and the mapping they are merged into.

Record(i, t, raw) ==
  [identifier |-> i, type |-> t, raw |-> raw, value |-> DecodeValue(t, raw),
   timestamp |-> timestamp]

Records == {Record(i, t, raw) : i \in Bytes, t \in Bytes, raw \in Seq(Bytes)}

LEMMA RecordFields ==
  ASSUME NEW r \in Records
  PROVE  /\ r.identifier \in Bytes /\ r.type \in Bytes /\ r.raw \in Seq(Bytes)
         /\ r.value = DecodeValue(r.type, r.raw)
<1>1. PICK i \in Bytes, t \in Bytes, raw \in Seq(Bytes) : r = Record(i, t, raw)
  BY DEF Records
<1> QED
  BY <1>1, Zenon DEF Record

LEMMA ByteSequences ==
  ASSUME NEW raw \in Seq(Bytes) PROVE raw \in Seq(0 .. 255) /\ raw \in Seq(Int)
<1>1. Bytes \subseteq 0 .. 255 /\ Bytes \subseteq Int
  BY BytesAssumption
<1>2. ASSUME NEW T, Bytes \subseteq T PROVE raw \in Seq(T)
  BY <1>2, SeqMonotonic, Zenon
<1> QED
  BY <1>1, <1>2, Zenon

LEMMA EncodeAppended ==
  ASSUME NEW records \in Seq(Records), NEW r \in Records
  PROVE  Encode(Append(records, r))
           = Encode(records) \o <<r.identifier, r.type, Len(r.raw)>> \o r.raw
<1>1. <<>> \in Seq(Int)
  OBVIOUS
<1>2. ASSUME NEW bytes \in Seq(Int), NEW q \in Records
      PROVE  EncodeStep(bytes, q) \in Seq(Int)
  <2>1. q.identifier \in Int /\ q.type \in Int /\ q.raw \in Seq(Int) /\ Len(q.raw) \in Int
    <3>1. q.identifier \in Bytes /\ q.type \in Bytes /\ q.raw \in Seq(Bytes)
      BY RecordFields
    <3>2. q.raw \in Seq(Int)
      BY <3>1, ByteSequences
    <3>3. Bytes \subseteq Int
      BY BytesAssumption
    <3> QED
      <4>1. Len(q.raw) \in Int
        BY <3>2, Elements
      <4>2. q.identifier \in Int /\ q.type \in Int
        BY <3>1, <3>3
      <4> QED
        BY <3>2, <4>1, <4>2
  <2>2. <<q.identifier, q.type, Len(q.raw)>> \in Seq(Int)
    BY <2>1
  <2>3. bytes \o <<q.identifier, q.type, Len(q.raw)>> \in Seq(Int)
    BY <2>2, ConcatProperties
  <2> QED
    BY <2>1, <2>3, ConcatProperties DEF EncodeStep
<1>3. Encoding!Fold(<<>>, Append(records, r)) = EncodeStep(Encoding!Fold(<<>>, records), r)
  <2>1. Encoding!Closed(Seq(Int), Records)
    BY <1>2 DEF Encoding!Closed
  <2>0. PICK more : more = Append(records, r)
    OBVIOUS
  <2>2. PICK none \in Seq(Int) : none = <<>>
    BY <1>1
  <2>3. Encoding!Fold(none, more) = EncodeStep(Encoding!Fold(none, records), r)
    <3>1. Encoding!Appended(more, records, r)
      BY <2>0 DEF Encoding!Appended
    <3> QED
      BY <2>1, <3>1, Encoding!FoldAppend
  <2> QED
    BY <2>0, <2>2, <2>3
<1> QED
  BY <1>3, EncodeIsFold DEF EncodeStep

\* Where the last record of an identifier is, and what the mapping has for it.
LEMMA MergedFacts ==
  ASSUME NEW before, before \in [DOMAIN before -> Range(before)],
         NEW R, NEW records \in Seq(R)
  PROVE  LET naming(n) == {i \in DOMAIN records : records[i].identifier = n}
             named     == {records[i].identifier : i \in DOMAIN records}
         IN  /\ DOMAIN Merged(before, records) = DOMAIN before \cup named
             /\ \A n \in DOMAIN Merged(before, records) :
                  Merged(before, records)[n]
                    = IF n \in named THEN records[Max(naming(n))] ELSE before[n]
<1> DEFINE last  == Len(records)
           Ids   == {r.identifier : r \in R}
           Whole == DOMAIN before \cup Ids
           V == UNION {[D -> Range(before) \cup R] : D \in SUBSET Whole}
           I == [k \in 0 .. last |->
                   {m \in V :
                     /\ DOMAIN m = DOMAIN before \cup {records[i].identifier : i \in 1 .. k}
                     /\ \A n \in DOMAIN m :
                          /\ (\A i \in 1 .. k : records[i].identifier # n) => m[n] = before[n]
                          /\ \A i \in 1 .. k :
                               /\ records[i].identifier = n
                               /\ \A j \in i + 1 .. k : records[j].identifier # n
                               => m[n] = records[i]}]
<1>1. /\ last \in Nat /\ DOMAIN records = 1 .. last
      /\ \A k \in 1 .. last : records[k] \in R /\ records[k].identifier \in Ids
  BY Elements
<1>2. \A m \in V, r \in R : MergedStep(m, r) \in V
  <2> SUFFICES ASSUME NEW m \in V, NEW r \in R PROVE MergedStep(m, r) \in V
    OBVIOUS
  <2>1. PICK D \in SUBSET Whole : m \in [D -> Range(before) \cup R]
    OBVIOUS
  <2>2. D \cup {r.identifier} \in SUBSET Whole
    OBVIOUS
  <2>3. MergedStep(m, r) \in [D \cup {r.identifier} -> Range(before) \cup R]
    BY <2>1 DEF MergedStep
  <2> QED
    BY <2>2, <2>3
<1>3. before \in V
  <2>1. before \in [DOMAIN before -> Range(before) \cup R] /\ DOMAIN before \in SUBSET Whole
    OBVIOUS
  <2> QED
    BY <2>1
<1> HIDE DEF V
<1>4. before \in I[0]
  <2>1. 1 .. 0 = {} /\ 0 \in 0 .. last
    BY <1>1
  <2> QED
    BY <1>3, <2>1
<1>5. ASSUME NEW k \in 1 .. last, NEW m \in V \cap I[k - 1]
      PROVE  MergedStep(m, records[k]) \in I[k]
  <2> DEFINE p   == records[k]
             new == MergedStep(m, p)
  <2>1. k \in 0 .. last /\ k - 1 \in 0 .. last /\ 1 .. k = (1 .. (k - 1)) \cup {k}
    BY <1>1
  <2>2. /\ DOMAIN m = DOMAIN before \cup {records[i].identifier : i \in 1 .. (k - 1)}
        /\ \A n \in DOMAIN m :
             /\ (\A i \in 1 .. (k - 1) : records[i].identifier # n) => m[n] = before[n]
             /\ \A i \in 1 .. (k - 1) :
                  /\ records[i].identifier = n
                  /\ \A j \in i + 1 .. (k - 1) : records[j].identifier # n
                  => m[n] = records[i]
    BY <2>1
  <2>3. new \in V /\ p \in R
    BY <1>1, <1>2
  <2>4. /\ DOMAIN new = DOMAIN m \cup {p.identifier}
        /\ \A n \in DOMAIN new : new[n] = IF n = p.identifier THEN p ELSE m[n]
    BY DEF MergedStep
  <2> HIDE DEF new, I
  <2>5. DOMAIN new = DOMAIN before \cup {records[i].identifier : i \in 1 .. k}
    <3>1. {records[i].identifier : i \in 1 .. k}
            = {records[i].identifier : i \in 1 .. (k - 1)} \cup {p.identifier}
      BY <2>1, Zenon
    <3> QED
      BY <2>2, <2>4, <3>1
  <2>6. ASSUME NEW n \in DOMAIN new, \A i \in 1 .. k : records[i].identifier # n
        PROVE  new[n] = before[n]
    <3>1. n # p.identifier /\ \A i \in 1 .. (k - 1) : records[i].identifier # n
      BY <2>1, <2>6
    <3> QED
      BY <2>2, <2>4, <3>1
  <2>7. ASSUME NEW n \in DOMAIN new, NEW i \in 1 .. k, records[i].identifier = n,
               \A j \in i + 1 .. k : records[j].identifier # n
        PROVE  new[n] = records[i]
    <3>1. CASE i = k
      BY <2>4, <2>7, <3>1
    <3>2. CASE i # k
      <4>1. i \in 1 .. (k - 1) /\ k \in i + 1 .. k
        BY <1>1, <3>2
      <4>2. n # p.identifier /\ n \in DOMAIN m
        BY <2>4, <2>7, <4>1
      <4>3. \A j \in i + 1 .. (k - 1) : j \in i + 1 .. k
        BY <1>1
      <4>4. m[n] = records[i]
        BY <2>2, <2>7, <4>1, <4>2, <4>3
      <4> QED
        BY <2>4, <4>2, <4>4
    <3> QED
      BY <3>1, <3>2
  <2>8. new \in I[k]
    BY <2>1, <2>3, <2>5, <2>6, <2>7 DEF I
  <2> QED
    BY <2>8 DEF new
<1>6. Merged(before, records) \in V \cap I[last]
  <2> HIDE DEF I
  <2> QED
    BY <1>1, <1>2, <1>3, <1>4, <1>5, MergedIsFold, Merging!FoldInvariant
<1> DEFINE all == Merged(before, records)
           naming(n) == {i \in DOMAIN records : records[i].identifier = n}
           named     == {records[i].identifier : i \in DOMAIN records}
<1>7. /\ DOMAIN all = DOMAIN before \cup named
      /\ \A n \in DOMAIN all :
           /\ (\A i \in 1 .. last : records[i].identifier # n) => all[n] = before[n]
           /\ \A i \in 1 .. last :
                /\ records[i].identifier = n
                /\ \A j \in i + 1 .. last : records[j].identifier # n
                => all[n] = records[i]
  BY <1>1, <1>6
<1> HIDE DEF I, all, last
<1>8. ASSUME NEW n \in DOMAIN all, n \in named PROVE all[n] = records[Max(naming(n))]
  <2> DEFINE m == Max(naming(n))
  <2>1. naming(n) \in SUBSET (1 .. last) /\ naming(n) # {}
    BY <1>1, <1>8
  <2>2. Merging!Max(naming(n)) \in naming(n) /\ \A j \in naming(n) : j <= Merging!Max(naming(n))
    <3> HIDE DEF naming
    <3> QED
      BY <1>1, <2>1, Merging!MaxIsGreatest
  <2>3. Merging!Max(naming(n)) = m
    BY Zenon DEF Max, Merging!Max
  <2>4. m \in naming(n) /\ \A j \in naming(n) : j <= m
    BY <2>2, <2>3
  <2> HIDE DEF m
  <2>5. m \in 1 .. last /\ records[m].identifier = n
    BY <1>1, <2>4
  <2>6. \A j \in m + 1 .. last : records[j].identifier # n
    BY <1>1, <2>4, <2>5
  <2> QED
    BY <1>7, <2>5, <2>6 DEF m
<1>9. ASSUME NEW n \in DOMAIN all, n \notin named PROVE all[n] = before[n]
  BY <1>1, <1>7, <1>9
<1> QED
  BY <1>7, <1>8, <1>9 DEF all

-----------------------------------------------------------------------------
\* The inductive invariant, and the theorems.

\* `cuts` are the ends of the records that data[i:j] is cut into.
IsCut(i, j, cuts) ==
  \A a \in cuts \cup ({i} \ {j}) : \E b \in cuts \cup {j} :
    /\ a < b /\ \A c \in cuts : c <= a \/ b <= c
    /\ IsRecord(Slice(a, b))

TypeInv ==
  /\ data \in Seq(Bytes) /\ points \in Seq(Records)
  /\ position \in -1 .. Len(data) /\ start \in 0 .. Len(data)

PhaseInv ==
  /\ position = -1 => points = <<>> /\ verdict \in {"reading", "refused"}
  /\ position >= 0 => start <= position
  /\ verdict \in {"reading", "refused"} \/ Len(data) - position <= RECORD_HEADER_LENGTH

\* What was read is a list of records: theirs.
TiledInv ==
  position >= 0 /\ verdict # "refused" =>
    Encode(points) = Slice(start, position) /\ IsList(start, position)

\* However the report is cut into records, no cut was missed, for no record can
\* begin where another one does and end elsewhere.
NoOtherCutInv ==
  /\ verdict = "reading" /\ position >= 0 =>
       \A cuts \in SUBSET (start + 1 .. Len(data) - 1) :
         IsCut(start, Len(data), cuts) => position \in cuts \cup {start, Len(data)}
  /\ verdict = "refused" /\ position >= 0 => ~IsList(start, Len(data))

CollectedInv ==
  collected = IF verdict = "merged" THEN Merged(Earlier, points) ELSE Earlier

DInv == TypeInv /\ PhaseInv /\ TiledInv /\ NoOtherCutInv /\ CollectedInv

LEMMA EncodeEmpty == Encode(<<>>) = <<>>
  BY Encoding!FoldEmpty, EncodeIsFold

LEMMA ListIsCut ==
  ASSUME NEW i, NEW j
  PROVE  IsList(i, j) <=> \E cuts \in SUBSET (i + 1 .. j - 1) : IsCut(i, j, cuts)
  BY Zenon DEF IsList, IsCut

LEMMA EmptyList == ASSUME NEW i \in Nat PROVE IsList(i, i)
<1>1. {} \in SUBSET (i + 1 .. i - 1) /\ IsCut(i, i, {})
  BY DEF IsCut
<1> HIDE DEF IsCut
<1> QED
  BY <1>1, ListIsCut

LEMMA InitEstablishes == Init => DInv
<1> SUFFICES ASSUME Init PROVE DInv
  OBVIOUS
<1>1. data \in Seq(Bytes) /\ Len(data) \in Nat
  <2>1. PICK m \in 0 .. MaxBytes : data \in [1 .. m -> Bytes]
    BY DEF Init, BoundedSeq, SeqOf
  <2>2. m \in Nat
    BY LengthAssumption
  <2> QED
    BY <2>1, <2>2
<1>2. points = <<>> /\ points \in Seq(Records) /\ start = 0 /\ position \in {-1, 0}
  BY DEF Init
<1>3. TypeInv
  BY <1>1, <1>2 DEF TypeInv
<1>4. PhaseInv
  BY <1>1, <1>2 DEF PhaseInv, Init
<1>5. ASSUME position >= 0
      PROVE  Encode(points) = Slice(start, position) /\ IsList(start, position)
  <2>1. position = 0
    BY <1>2, <1>5
  <2>2. Slice(0, 0) = <<>>
    <3>1. 0 \in 0 .. Len(data)
      BY <1>1
    <3> QED
      BY <1>1, <3>1, SliceFacts
  <2> QED
    BY <1>2, <2>1, <2>2, EncodeEmpty, EmptyList
<1>6. TiledInv
  BY <1>5 DEF TiledInv
<1>7. NoOtherCutInv
  BY <1>2 DEF NoOtherCutInv, Init
<1> QED
  BY <1>3, <1>4, <1>6, <1>7 DEF DInv, CollectedInv, Init

LEMMA HeaderByte ==
  ASSUME data \in Seq(Bytes), position \in 0 .. Len(data), MoreRecords
  PROVE  /\ At(position) \in Bytes /\ At(position + 1) \in Bytes
         /\ At(position + 2) \in Bytes /\ At(position + 2) \in Nat
<1>1. /\ position + 1 \in 1 .. Len(data) /\ position + 2 \in 1 .. Len(data)
      /\ position + 3 \in 1 .. Len(data)
  BY DEF MoreRecords, RECORD_HEADER_LENGTH
<1>2. At(position) \in Bytes /\ At(position + 1) \in Bytes /\ At(position + 2) \in Bytes
  <2>1. (position + 1) + 1 = position + 2 /\ (position + 2) + 1 = position + 3
    OBVIOUS
  <2> QED
    BY <1>1, <2>1, Elements DEF At
<1>3. Bytes \subseteq Nat
  BY BytesAssumption
<1> QED
  BY <1>2, <1>3

\* The record at the position extends the list.
LEMMA LongerList ==
  ASSUME DInv, position >= 0, IsList(start, position),
         NEW end \in position + 1 .. Len(data), IsRecord(Slice(position, end))
  PROVE  IsList(start, end)
<1>1. /\ Len(data) \in Nat /\ position \in Nat /\ start \in Nat /\ end \in Nat
      /\ start <= position /\ position < end
  BY DEF DInv, TypeInv, PhaseInv
<1>2. PICK cuts \in SUBSET (start + 1 .. position - 1) : IsCut(start, position, cuts)
  BY ListIsCut
<1> DEFINE more == cuts \cup ({position} \ {start})
<1>3. more \in SUBSET (start + 1 .. end - 1)
  BY <1>1
<1>4. ASSUME NEW a \in more \cup ({start} \ {end})
      PROVE  \E b \in more \cup {end} :
               /\ a < b /\ \A c \in more : c <= a \/ b <= c
               /\ IsRecord(Slice(a, b))
  <2>1. CASE a = position
    BY <1>1, <2>1
  <2>2. CASE a # position
    <3>1. a \in cuts \cup ({start} \ {position}) /\ a \in start .. position
      BY <1>1, <2>2
    <3>2. PICK b \in cuts \cup {position} :
            /\ a < b /\ \A c \in cuts : c <= a \/ b <= c
            /\ IsRecord(Slice(a, b))
      BY <1>2, <3>1 DEF IsCut
    <3>3. b \in more /\ b <= position
      BY <1>1, <3>1, <3>2
    <3>4. \A c \in more : c <= a \/ b <= c
      BY <3>2, <3>3
    <3> QED
      BY <3>2, <3>3, <3>4
  <2> QED
    BY <2>1, <2>2
<1>5. IsCut(start, end, more)
  <2> HIDE DEF more
  <2> QED
    BY <1>4 DEF IsCut
<1> HIDE DEF more
<1> QED
  BY <1>3, <1>5, ListIsCut

\* A cut that runs through the position goes on with the record that is read.
LEMMA NextCut ==
  ASSUME DInv, verdict = "reading", position >= 0, MoreRecords,
         NEW cuts \in SUBSET (start + 1 .. Len(data) - 1), IsCut(start, Len(data), cuts)
  PROVE  ~Unreadable /\ RecordEnd \in cuts \cup {Len(data)}
<1>1. /\ Len(data) \in Nat /\ position \in 0 .. Len(data) /\ position < Len(data)
      /\ start \in Nat /\ start <= position
  BY DEF DInv, TypeInv, PhaseInv, MoreRecords, RECORD_HEADER_LENGTH
<1>2. position \in cuts \cup ({start} \ {Len(data)})
  BY <1>1 DEF DInv, NoOtherCutInv
<1>3. PICK b \in cuts \cup {Len(data)} : position < b /\ IsRecord(Slice(position, b))
  BY <1>2 DEF IsCut
<1>4. b \in position + 1 .. Len(data)
  BY <1>1, <1>3
<1>5. At(position + 2) \in Nat
  BY HeaderByte DEF DInv, TypeInv
<1> QED
  BY <1>1, <1>3, <1>4, <1>5, RecordAt DEF DInv, TypeInv

\* A list of the bytes before the step is one of the bytes after it.
LEMMA ListStays ==
  ASSUME data' = data, NEW i, NEW j, start' = i, position' = j, IsList(i, j)
  PROVE  IsList(start, position)'
<1>1. PICK cuts \in SUBSET (i + 1 .. j - 1) : IsCut(i, j, cuts)
  BY ListIsCut
<1>2. cuts \in SUBSET (start' + 1 .. position' - 1) /\ IsCut(start, position, cuts)'
  BY <1>1 DEF IsCut, Slice
<1> QED
  BY <1>2, Zenon DEF IsList, IsCut

LEMMA RefuseKeeps ==
  ASSUME DInv, Refuse, verdict = "reading",
         position >= 0 => ~IsList(start, Len(data))
  PROVE  DInv'
<1>1. /\ UNCHANGED <<timed, data, position, start, timestamp, collected>>
      /\ verdict' = "refused" /\ points' = <<>>
  BY DEF Refuse
<1>2. TypeInv'
  BY <1>1 DEF DInv, TypeInv
<1>3. PhaseInv'
  BY <1>1 DEF DInv, TypeInv, PhaseInv
<1>4. TiledInv'
  BY <1>1 DEF TiledInv
<1>5. NoOtherCutInv'
  BY <1>1 DEF NoOtherCutInv, IsList, Slice
<1>6. CollectedInv'
  BY <1>1 DEF DInv, CollectedInv
<1> QED
  BY <1>2, <1>3, <1>4, <1>5, <1>6 DEF DInv

LEMMA ReadTimestampKeeps == DInv /\ ReadTimestamp => DInv'
<1> SUFFICES ASSUME DInv, ReadTimestamp PROVE DInv'
  OBVIOUS
<1>1. verdict = "reading" /\ position = -1 /\ points = <<>> /\ Len(data) \in Nat
  BY DEF ReadTimestamp, DInv, TypeInv, PhaseInv
<1>2. CASE Refuse
  BY <1>1, <1>2, RefuseKeeps
<1>3. CASE ~Refuse
  <2>1. /\ data # <<>> /\ At(0) \in {MILLISECOND_TIMESTAMP, SECOND_TIMESTAMP}
        /\ 1 + TimestampLength(At(0)) <= Len(data)
        /\ position' = 1 + TimestampLength(At(0)) /\ start' = position'
        /\ UNCHANGED <<timed, data, points, verdict, collected>>
    BY <1>1, <1>3, LengthAssumption DEF ReadTimestamp, TimestampLength
  <2> DEFINE end == 1 + TimestampLength(At(0))
  <2>2. end \in 0 .. Len(data)
    BY <1>1, <2>1, LengthAssumption DEF TimestampLength
  <2> HIDE DEF end
  <2>3. position' = end /\ start' = end
    BY <2>1 DEF end
  <2>4. TypeInv'
    BY <1>1, <2>1, <2>2, <2>3 DEF DInv, TypeInv
  <2>5. PhaseInv'
    BY <1>1, <2>1, <2>2, <2>3 DEF PhaseInv
  <2>6. Slice(end, end) = <<>> /\ IsList(end, end)
    <3>1. Slice(end, end) \in Seq(Bytes) /\ Len(Slice(end, end)) = 0
      BY <1>1, <2>2, SliceFacts DEF DInv, TypeInv
    <3> QED
      BY <2>2, <3>1, EmptyList
  <2>7. TiledInv'
    <3>1. Encode(points) = Slice(end, end)
      BY <1>1, <2>6, EncodeEmpty
    <3>2. (Encode(points) = Slice(start, position))'
      BY <2>1, <2>3, <3>1 DEF Slice
    <3>3. IsList(start, position)'
      BY <2>1, <2>3, <2>6, ListStays
    <3> QED
      BY <3>2, <3>3 DEF TiledInv
  <2>8. NoOtherCutInv'
    BY <1>1, <2>1, <2>3 DEF NoOtherCutInv
  <2>9. CollectedInv'
    BY <1>1, <2>1 DEF DInv, CollectedInv
  <2> QED
    BY <2>4, <2>5, <2>7, <2>8, <2>9 DEF DInv
<1> QED
  BY <1>2, <1>3

LEMMA ReadRecordKeeps == DInv /\ ReadRecord => DInv'
<1> SUFFICES ASSUME DInv, ReadRecord PROVE DInv'
  OBVIOUS
<1>1. /\ verdict = "reading" /\ position >= 0 /\ MoreRecords
      /\ data \in Seq(Bytes) /\ position \in 0 .. Len(data) /\ Len(data) \in Nat
      /\ start \in 0 .. position /\ points \in Seq(Records)
  BY DEF ReadRecord, DInv, TypeInv, PhaseInv
<1>2. CASE Unreadable
  <2>1. Refuse
    BY <1>2 DEF ReadRecord
  <2>2. ~IsList(start, Len(data))
    BY <1>1, <1>2, NextCut, ListIsCut
  <2> QED
    BY <1>1, <2>1, <2>2, RefuseKeeps
<1>3. CASE ~Unreadable
  <2> DEFINE raw == Slice(position + RECORD_HEADER_LENGTH, RecordEnd)
             r   == Record(At(position), At(position + 1), raw)
             end == RecordEnd
  <2>1. /\ points' = Append(points, r) /\ position' = end
        /\ UNCHANGED <<timed, data, start, timestamp, verdict, collected>>
    BY <1>3 DEF ReadRecord, Record
  <2>2. /\ At(position) \in Bytes /\ At(position + 1) \in Bytes
        /\ At(position + 2) \in Nat /\ RecordEnd <= Len(data)
    <3>1. RecordEnd \in Int
      BY <1>1, HeaderByte DEF RecordEnd, RECORD_HEADER_LENGTH
    <3> QED
      BY <1>1, <1>3, <3>1, HeaderByte DEF Unreadable
  <2>3. /\ end \in (position + RECORD_HEADER_LENGTH) .. Len(data)
        /\ raw \in Seq(Bytes)
        /\ Slice(start, position) \o <<At(position), At(position + 1), Len(raw)>> \o raw
             = Slice(start, end)
    BY <1>1, <2>2, RecordBytes
  <2> HIDE DEF raw, end
  <2>4. end \in position + 1 .. Len(data)
    BY <1>1, <2>3 DEF RECORD_HEADER_LENGTH
  <2>5. /\ r \in Records /\ r.identifier = At(position) /\ r.type = At(position + 1)
        /\ r.raw = raw
    BY <2>2, <2>3 DEF Record, Records
  <2> HIDE DEF r
  <2>6. TypeInv'
    <3>1. Records' = Records
      BY <2>1 DEF Records, Record
    <3>2. points' \in Seq(Records)
      BY <1>1, <2>1, <2>5, AppendProperties
    <3> QED
      BY <1>1, <2>1, <2>4, <3>1, <3>2 DEF TypeInv
  <2>7. PhaseInv'
    BY <1>1, <2>1, <2>4 DEF PhaseInv
  <2>8. Encode(points') = Slice(start, end)
    <3>1. Encode(points) = Slice(start, position)
      BY <1>1 DEF DInv, TiledInv
    <3>2. Encode(Append(points, r))
            = Encode(points) \o <<r.identifier, r.type, Len(r.raw)>> \o r.raw
      BY <1>1, <2>5, EncodeAppended
    <3> QED
      BY <2>1, <2>3, <2>5, <3>1, <3>2
  <2>9. IsList(start, end)
    <3>1. IsRecord(Slice(position, end))
      BY <1>1, <1>3, <2>2, <2>4, RecordAt DEF end
    <3>2. IsList(start, position)
      BY <1>1 DEF DInv, TiledInv
    <3> QED
      BY <1>1, <2>4, <3>1, <3>2, LongerList
  <2>10. TiledInv'
    <3>1. (Encode(points) = Slice(start, position))'
      BY <2>1, <2>8 DEF Slice
    <3>2. IsList(start, position)'
      BY <2>1, <2>9, ListStays
    <3> QED
      BY <3>1, <3>2 DEF TiledInv
  <2>11. NoOtherCutInv'
    <3>1. ASSUME NEW cuts \in SUBSET (start + 1 .. Len(data) - 1),
                 IsCut(start, Len(data), cuts)
          PROVE  end \in cuts \cup {start, Len(data)}
      BY <1>1, <3>1, NextCut DEF end
    <3> QED
      BY <1>1, <2>1, <3>1 DEF NoOtherCutInv, IsCut, Slice
  <2>12. CollectedInv'
    BY <1>1, <2>1 DEF DInv, CollectedInv
  <2> QED
    BY <2>6, <2>7, <2>10, <2>11, <2>12 DEF DInv
<1> QED
  BY <1>2, <1>3

LEMMA UnmovedKeeps ==
  ASSUME DInv, UNCHANGED <<data, position, start, timestamp, points>>
  PROVE  TypeInv' /\ (verdict # "refused" => TiledInv')
<1>1. TypeInv'
  <2>1. Records' = Records
    BY DEF Records, Record
  <2> QED
    BY <2>1 DEF DInv, TypeInv
<1>2. ASSUME verdict # "refused", position >= 0
      PROVE  (Encode(points) = Slice(start, position))' /\ IsList(start, position)'
  <2>1. Encode(points) = Slice(start, position) /\ IsList(start, position)
    BY <1>2 DEF DInv, TiledInv
  <2>2. (Encode(points) = Slice(start, position))'
    BY <2>1 DEF Slice
  <2>3. IsList(start, position)'
    BY <2>1, ListStays
  <2> QED
    BY <2>2, <2>3
<1> QED
  BY <1>1, <1>2 DEF TiledInv

LEMMA PublishKeeps == DInv /\ Publish => DInv'
<1> SUFFICES ASSUME DInv, Publish PROVE DInv'
  OBVIOUS
<1>1. /\ verdict = "reading" /\ position >= 0 /\ ~MoreRecords
      /\ verdict' \in {"empty", "published"}
      /\ UNCHANGED <<timed, data, position, start, timestamp, points, collected>>
  BY DEF Publish
<1>2. TypeInv' /\ TiledInv'
  BY <1>1, UnmovedKeeps
<1>3. PhaseInv'
  <2>1. Len(data) - position <= RECORD_HEADER_LENGTH
    BY <1>1 DEF MoreRecords, DInv, TypeInv, RECORD_HEADER_LENGTH
  <2> QED
    BY <1>1, <2>1 DEF DInv, PhaseInv
<1>4. NoOtherCutInv' /\ CollectedInv'
  BY <1>1 DEF DInv, NoOtherCutInv, CollectedInv
<1> QED
  BY <1>2, <1>3, <1>4 DEF DInv

LEMMA CollectKeeps == DInv /\ Collect => DInv'
<1> SUFFICES ASSUME DInv, Collect PROVE DInv'
  OBVIOUS
<1>1. /\ verdict = "published" /\ verdict' = "merged"
      /\ collected' = Merged(collected, points)
      /\ UNCHANGED <<timed, data, position, start, timestamp, points>>
  BY DEF Collect
<1>2. TypeInv' /\ TiledInv'
  BY <1>1, UnmovedKeeps
<1>3. PhaseInv'
  BY <1>1 DEF DInv, PhaseInv
<1>4. NoOtherCutInv'
  BY <1>1 DEF NoOtherCutInv
<1>5. CollectedInv'
  BY <1>1 DEF DInv, CollectedInv
<1> QED
  BY <1>2, <1>3, <1>4, <1>5 DEF DInv

LEMMA StutterKeeps == DInv /\ UNCHANGED vars => DInv'
<1> SUFFICES ASSUME DInv, UNCHANGED vars PROVE DInv'
  OBVIOUS
<1>1. UNCHANGED <<timed, data, position, start, timestamp, points, verdict, collected>>
  BY DEF vars
<1>2. TypeInv' /\ (verdict # "refused" => TiledInv')
  BY <1>1, UnmovedKeeps
<1>3. PhaseInv' /\ CollectedInv'
  BY <1>1 DEF DInv, PhaseInv, CollectedInv
<1>4. NoOtherCutInv'
  BY <1>1 DEF DInv, NoOtherCutInv, IsCut, IsList, Slice
<1>5. verdict = "refused" => TiledInv'
  BY <1>1 DEF TiledInv
<1> QED
  BY <1>2, <1>3, <1>4, <1>5 DEF DInv

LEMMA NextPreserves == DInv /\ [Next]_vars => DInv'
<1>1. DInv /\ Next => DInv'
  BY ReadTimestampKeeps, ReadRecordKeeps, PublishKeeps, CollectKeeps DEF Next
<1> QED
  BY <1>1, StutterKeeps

\* What holds throughout the reading of any report.
THEOREM ReportInvariant == Spec => []DInv
  BY InitEstablishes, NextPreserves, PTL DEF Spec

\* Whatever bytes a device sends, the records that are read are, written out
\* again, the very bytes between the timestamp and the position: none is skipped,
\* shared by two records or read past the end of the report.
THEOREM RecordsAreTheReport == Spec => []RecordsTileTheReport
<1>1. DInv => RecordsTileTheReport
  BY DEF DInv, TiledInv, RecordsTileTheReport
<1> QED
  BY <1>1, ReportInvariant, PTL

\* Every value of every width is read as the signed number its bytes stand for.
THEOREM NumbersAreSigned == Spec => []ValuesAreSigned
<1>1. DInv => ValuesAreSigned
  <2> SUFFICES ASSUME DInv, NEW i \in DOMAIN points, IsNumber(points[i].type),
                      points[i].raw # <<>>
               PROVE  /\ 2 * points[i].value \in -Span(points[i].raw) .. Span(points[i].raw) - 1
                      /\ points[i].value % Span(points[i].raw) = Unsigned(points[i].raw)
    BY DEF ValuesAreSigned
  <2>1. points[i] \in Records
    BY Elements DEF DInv, TypeInv
  <2>2. PICK p \in Records : p = points[i]
    BY <2>1
  <2>3. /\ p.raw \in Seq(0 .. 255) /\ p.raw # <<>>
        /\ p.value = DecodeValue(p.type, p.raw) /\ IsNumber(p.type)
    BY <2>2, RecordFields, ByteSequences
  <2>4. p.value = Signed(p.raw)
    BY <2>3 DEF DecodeValue, IsNumber, DataPointType
  <2>5. /\ 2 * Signed(p.raw) \in -Span(p.raw) .. Span(p.raw) - 1
        /\ Signed(p.raw) % Span(p.raw) = Unsigned(p.raw)
    BY <2>3, SignedFacts
  <2> QED
    BY <2>2, <2>4, <2>5, Zenon
<1> QED
  BY <1>1, ReportInvariant, PTL

\* A report is refused only if there is no way at all to cut it into records, and
\* acknowledged only if there is one and all its records are published.
THEOREM ReportsAreWhole == Spec => []AcknowledgedIfReadable
<1>1. DInv => AcknowledgedIfReadable
  <2> SUFFICES ASSUME DInv PROVE AcknowledgedIfReadable
    OBVIOUS
  <2>1. verdict = "refused" /\ position >= 0 => ~IsList(start, Len(data))
    BY DEF DInv, NoOtherCutInv
  <2>2. ASSUME verdict \in {"published", "empty", "merged"}
        PROVE  \E j \in start .. Len(data) :
                 /\ Len(data) - j <= RECORD_HEADER_LENGTH
                 /\ IsList(start, j) /\ Encode(points) = Slice(start, j)
    <3>1. position >= 0 /\ Len(data) - position <= RECORD_HEADER_LENGTH
      BY <2>2 DEF DInv, TypeInv, PhaseInv
    <3>2. position \in start .. Len(data)
      BY <3>1 DEF DInv, TypeInv, PhaseInv
    <3>3. IsList(start, position) /\ Encode(points) = Slice(start, position)
      BY <2>2, <3>1 DEF DInv, TiledInv
    <3> QED
      BY <3>1, <3>2, <3>3
  <2> QED
    BY <2>1, <2>2 DEF AcknowledgedIfReadable
<1> QED
  BY <1>1, ReportInvariant, PTL

\* However many records name an identifier, and whatever the reports before said,
\* a read returns the last of them and keeps every other identifier's.
THEOREM LastRecordIsKept == Spec => []LastRecordWins
<1>1. DInv => LastRecordWins
  <2> SUFFICES ASSUME DInv, verdict = "merged" PROVE LastRecordWins
    BY DEF LastRecordWins
  <2>1. points \in Seq(Records) /\ collected = Merged(Earlier, points)
    BY DEF DInv, TypeInv, CollectedInv
  <2> DEFINE naming(n) == {i \in DOMAIN points : points[i].identifier = n}
             named     == {points[i].identifier : i \in DOMAIN points}
  <2>2. /\ DOMAIN Merged(Earlier, points) = DOMAIN Earlier \cup named
        /\ \A n \in DOMAIN Merged(Earlier, points) :
             Merged(Earlier, points)[n]
               = IF n \in named THEN points[Max(naming(n))] ELSE Earlier[n]
    BY <2>1, EarlierAssumption, MergedFacts, Zenon
  <2> QED
    BY <2>1, <2>2, Zenon DEF LastRecordWins
<1> QED
  BY <1>1, ReportInvariant, PTL
=============================================================================

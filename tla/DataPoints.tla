----------------------------- MODULE DataPoints -----------------------------
(***************************************************************************)
(* How one pushed report is read: parse_timestamp() and                    *)
(* parse_data_points() of commands/data_points.py, record by record, over  *)
(* every short sequence of bytes a device can put in a frame.  The verdict *)
(* is what TuyaBleClient tells apart: a report that parses is published if *)
(* it holds a record, and acknowledged; one that is refused is neither.    *)
(* A published report is then merged into what the read collected before   *)
(* it (_async_collect_report of client.py).                                *)
(***************************************************************************)
EXTENDS Integers, Sequences, SequencesExt, FiniteSetsExt

CONSTANTS
  Bytes,                         \* the bytes a report is made of
  Utf8,                          \* the sequences of bytes that are text
  MaxBytes,                      \* bound: the length of a report
  Earlier,                       \* what the reports before this one left
  MILLISECOND_TIMESTAMP_LENGTH,  \* 13 in the code
  SECOND_TIMESTAMP_LENGTH        \* 4 in the code

ASSUME BytesAssumption  == Bytes \subseteq 0 .. 255
ASSUME LengthAssumption ==
  {MaxBytes, MILLISECOND_TIMESTAMP_LENGTH, SECOND_TIMESTAMP_LENGTH} \subseteq Nat
ASSUME EarlierAssumption == Earlier \in [DOMAIN Earlier -> Range(Earlier)]

VARIABLES
  timed,      \* RECEIVE_TIME_DATA_POINT rather than RECEIVE_DATA_POINT
  data,       \* the report
  position,   \* bytes read so far, or -1 while the timestamp is not read
  start,      \* where the records begin
  timestamp,  \* thousandths of a second, or -1: the moment of reception
  points,     \* records read so far
  verdict,    \* "reading", then "published", "empty" or "refused"; "merged"
  collected   \* the read's mapping of identifiers to their records

vars == <<timed, data, position, start, timestamp, points, verdict, collected>>

-----------------------------------------------------------------------------
RECORD_HEADER_LENGTH == 3
DataPointType == [raw |-> 0, boolean |-> 1, value |-> 2, string |-> 3, enum |-> 4, bitmap |-> 5]
MILLISECOND_TIMESTAMP == 0
SECOND_TIMESTAMP == 1

\* data[i] and data[i:j] of the code.
At(i)       == data[i + 1]
Slice(i, j) == SubSeq(data, i + 1, IF j < Len(data) THEN j ELSE Len(data))

\* The digits of seq read in a base, most significant first.
InBase(base, seq) == FoldLeft(LAMBDA n, d : n * base + d, 0, seq)

Unsigned(raw) == InBase(256, raw)

\* Mutant: the value is read as unsigned.
SignedAsUnsigned(raw) == Unsigned(raw)

\* How many numbers as many bytes can stand for: 256 ^ Len(raw).
Span(raw) == FoldLeft(LAMBDA n, d : n * 256, 1, raw)

\* Two's complement of the width of the bytes.
Signed(raw) ==
  IF raw # <<>> /\ raw[1] >= 128 THEN Unsigned(raw) - Span(raw) ELSE Unsigned(raw)

Decodable(raw) == raw \in Utf8

IsNumber(type) == type \in {DataPointType.value, DataPointType.enum}

\* The value a record holds, as the declared type reads it.
DecodeValue(type, raw) ==
  CASE IsNumber(type)               -> Signed(raw)
    [] type = DataPointType.boolean -> (Unsigned(raw) # 0)
    [] OTHER                        -> raw

\* int() of the ASCII digits; its signs, blanks and underscores are left out.
Numeral(raw) == raw # <<>> /\ \A i \in DOMAIN raw : raw[i] \in 48 .. 57
DecodeMilliseconds(raw) == InBase(10, [i \in DOMAIN raw |-> raw[i] - 48])

TimestampLength(encoding) ==
  IF encoding = MILLISECOND_TIMESTAMP THEN MILLISECOND_TIMESTAMP_LENGTH
  ELSE SECOND_TIMESTAMP_LENGTH

-----------------------------------------------------------------------------
Init ==
  /\ timed \in BOOLEAN
  /\ data \in BoundedSeq(Bytes, MaxBytes)
  /\ position = (IF timed THEN -1 ELSE 0)
  /\ start = 0 /\ timestamp = -1 /\ points = <<>> /\ verdict = "reading"
  /\ collected = Earlier

\* Whatever was read so far goes with the exception.
Refuse ==
  /\ verdict' = "refused" /\ points' = <<>>
  /\ UNCHANGED <<timed, data, position, start, timestamp, collected>>

\* parse_timestamp: encoding byte, then a value of the length it implies.
ReadTimestamp ==
  /\ verdict = "reading" /\ position = -1
  /\ IF \/ data = <<>>
        \/ At(0) \notin {MILLISECOND_TIMESTAMP, SECOND_TIMESTAMP}
        \/ 1 + TimestampLength(At(0)) > Len(data)
        \/ At(0) = MILLISECOND_TIMESTAMP /\ ~Numeral(Slice(1, 1 + MILLISECOND_TIMESTAMP_LENGTH))
     THEN Refuse
     ELSE LET end == 1 + TimestampLength(At(0))
              raw == Slice(1, end)
          IN  /\ position' = end /\ start' = end
              /\ timestamp' = IF At(0) = MILLISECOND_TIMESTAMP
                              THEN DecodeMilliseconds(raw) ELSE 1000 * Unsigned(raw)
              /\ UNCHANGED <<timed, data, points, verdict, collected>>

\* Mutant: the header is taken for two bytes.
RecordEndShort == position + RECORD_HEADER_LENGTH - 1 + At(position + 2)

\* Where the record at `position` says it ends.
RecordEnd == position + RECORD_HEADER_LENGTH + At(position + 2)

\* Mutant: a record may not end where the report does.
UnreadableAtTheEnd ==
  \/ At(position + 1) \notin Range(DataPointType)
  \/ RecordEnd >= Len(data)
  \/ /\ At(position + 1) = DataPointType.string
     /\ ~Decodable(Slice(position + RECORD_HEADER_LENGTH, RecordEnd))

\* A record that is refused: unknown type, more bytes than arrived, bad UTF-8.
Unreadable ==
  \/ At(position + 1) \notin Range(DataPointType)
  \/ RecordEnd > Len(data)
  \/ /\ At(position + 1) = DataPointType.string
     /\ ~Decodable(Slice(position + RECORD_HEADER_LENGTH, RecordEnd))

\* The loop goes on while more than a header is left.
MoreRecords == Len(data) - position > RECORD_HEADER_LENGTH

ReadRecord ==
  /\ verdict = "reading" /\ position >= 0 /\ MoreRecords
  /\ IF Unreadable
     THEN Refuse
     ELSE LET raw == Slice(position + RECORD_HEADER_LENGTH, RecordEnd) IN
          /\ points' = Append(points,
               [identifier |-> At(position), type |-> At(position + 1), raw |-> raw,
                value |-> DecodeValue(At(position + 1), raw), timestamp |-> timestamp])
          /\ position' = RecordEnd
          /\ UNCHANGED <<timed, data, start, timestamp, verdict, collected>>

\* The report is published unless it is empty, and acknowledged either way.
Publish ==
  /\ verdict = "reading" /\ position >= 0 /\ ~MoreRecords
  /\ verdict' = IF points = <<>> THEN "empty" ELSE "published"
  /\ UNCHANGED <<timed, data, position, start, timestamp, points, collected>>

\* Mutant: a value the read already has is kept.
MergedFirstWins(before, records) ==
  FoldLeft(LAMBDA m, p : [n \in DOMAIN m \cup {p.identifier} |->
                            IF n \in DOMAIN m THEN m[n] ELSE p], before, records)

\* One record after the other, each replacing what its identifier had; their
\* timestamps are not compared.
Merged(before, records) ==
  FoldLeft(LAMBDA m, p : [n \in DOMAIN m \cup {p.identifier} |->
                            IF n = p.identifier THEN p ELSE m[n]], before, records)

Collect ==
  /\ verdict = "published"
  /\ verdict' = "merged" /\ collected' = Merged(collected, points)
  /\ UNCHANGED <<timed, data, position, start, timestamp, points>>

Next == ReadTimestamp \/ ReadRecord \/ Publish \/ Collect

Spec == Init /\ [][Next]_vars

-----------------------------------------------------------------------------
\* The bytes of a list of records.
Encode(records) ==
  FoldLeft(LAMBDA bytes, r : bytes \o <<r.identifier, r.type, Len(r.raw)>> \o r.raw,
           <<>>, records)

\* What is read is what was sent: written out again, the records that were read
\* are the very bytes between the timestamp and the position, so no byte is
\* skipped, shared by two records or read past the end (data_points.py:41-61).
RecordsTileTheReport ==
  position >= 0 /\ verdict # "refused" => Encode(points) = Slice(start, position)

\* A published value is the number its bytes stand for: the only one of its
\* width that is congruent to them, negative when their top bit says so
\* (data_points.py:73-83).
ValuesAreSigned ==
  \A i \in DOMAIN points :
    LET p == points[i]  span == Span(p.raw) IN
    IsNumber(p.type) /\ p.raw # <<>> =>
      /\ 2 * p.value \in -span .. span - 1
      /\ p.value % span = Unsigned(p.raw)

\* The grammar of reports, without a position that moves: bytes that can be cut
\* into records.
IsRecord(bytes) ==
  /\ Len(bytes) >= RECORD_HEADER_LENGTH
  /\ bytes[2] \in Range(DataPointType)
  /\ bytes[3] = Len(bytes) - RECORD_HEADER_LENGTH
  /\ bytes[2] = DataPointType.string => Decodable(SubSeq(bytes, 4, Len(bytes)))
IsList(i, j) ==
  \E cuts \in SUBSET (i + 1 .. j - 1) :
    \A a \in cuts \cup ({i} \ {j}) : \E b \in cuts \cup {j} :
      /\ a < b /\ \A c \in cuts : c <= a \/ b <= c
      /\ IsRecord(Slice(a, b))

\* A whole report stands or falls: one is acknowledged exactly if it is a list of
\* records, but for at most a header's worth of bytes after the last one, and
\* then every record of the list is published (data_points.py:45-61).
AcknowledgedIfReadable ==
  /\ verdict = "refused" /\ position >= 0 => ~IsList(start, Len(data))
  /\ verdict \in {"published", "empty", "merged"} =>
       \E j \in start .. Len(data) :
         /\ Len(data) - j <= RECORD_HEADER_LENGTH
         /\ IsList(start, j) /\ Encode(points) = Slice(start, j)

\* The read returns one record for each identifier: the last one that arrived,
\* of this report if it has any and else of an earlier one, so nothing an
\* earlier report said of another identifier is lost (client.py:222-223).
LastRecordWins ==
  verdict = "merged" =>
    LET naming(n) == {i \in DOMAIN points : points[i].identifier = n}
        named     == {points[i].identifier : i \in DOMAIN points}
    IN  /\ DOMAIN collected = DOMAIN Earlier \cup named
        /\ \A n \in DOMAIN collected :
             collected[n] = IF n \in named THEN points[Max(naming(n))] ELSE Earlier[n]

\* data_points.py:42: "read every identifier | type | length | value record".  A
\* record of no value bytes (the empty string) is one too.
EveryRecordIsRead ==
  verdict \in {"published", "empty"} =>
    ~(Len(data) - position >= RECORD_HEADER_LENGTH /\ ~Unreadable)
=============================================================================

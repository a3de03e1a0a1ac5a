---------------------------- MODULE MCDataPoints ----------------------------
(* DataPoints over bytes that are at once types, lengths, digits and values. *)
EXTENDS DataPoints

\* Every type of record is covered by a kind: raw, boolean, signed and string;
\* 48 is a digit, 6 no type, and 255 negative, undecodable and too long.
ReportBytes == {0, 1, 2, 3, 48, 255}

\* UTF-8 reads every byte below 128 by itself, and never reads 255.
Ascii == Seq(0 .. 127)

ASSUME SpanAssumption == \A raw \in BoundedSeq(ReportBytes, 3) : Span(raw) = 256 ^ Len(raw)

\* Identifiers a report may repeat, or leave alone.
EarlierRecord(n) ==
  [identifier |-> n, type |-> DataPointType.boolean, raw |-> <<1>>, value |-> TRUE,
   timestamp |-> 9000]
EarlierRecords == [n \in {1, 48, 200} |-> EarlierRecord(n)]
=============================================================================

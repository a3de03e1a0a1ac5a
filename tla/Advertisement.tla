--------------------------- MODULE Advertisement ---------------------------
(***************************************************************************)
(* What advertisement.py reads out of a Tuya advertisement.  An            *)
(* advertisement carries up to two records: the service data, whose tail   *)
(* is the product id or, of a bound device, bytes that hide it, and the    *)
(* manufacturer data, whose tail is the uuid encrypted under those bytes.  *)
(*                                                                         *)
(* Service data is a sequence of bytes.  Of the manufacturer data only     *)
(* what the parser tells apart is kept: two header bytes, whether there    *)
(* are bytes after the header and whether they are whole AES blocks, the   *)
(* record they were encrypted under and the text they hold.                *)
(***************************************************************************)
EXTENDS Integers, Sequences

\* An absent record or field (no byte is -1), a missing uuid, bytes that are no
\* text, a raised error.
Absent      == <<-1>>
NoUuid      == "none"
Undecodable == "undecodable"
Malformed   == [malformed |-> TRUE]

PRODUCT_ID_RECORD == 0

\* Mutant: the type byte is taken for a part of the record.
ParseProductIdWithType(service) ==
  IF Len(service) < 2 \/ service[1] # PRODUCT_ID_RECORD THEN Absent ELSE service

\* _parse_product_id: the bytes after the type byte.
ParseProductId(service) ==
  IF Len(service) < 2 \/ service[1] # PRODUCT_ID_RECORD THEN Absent ELSE Tail(service)

\* ASCII letters and digits: the bytes a printable product id is made of.
Alphanumeric == 48 .. 57 \cup 65 .. 90 \cup 97 .. 122
Printable(product) == product # Absent /\ \A i \in DOMAIN product : product[i] \in Alphanumeric

\* _readable: the product id, unless the record hides it.
Readable(product) == IF Printable(product) THEN product ELSE Absent

\* decrypt_advertised_uuid: the record is the key.  Another key than the one it
\* was encrypted under leaves bytes that are no text.
Decrypted(product, encrypted) ==
  IF encrypted.under = product THEN encrypted.text ELSE Undecodable

\* Whether the uuid is there, the product record is, and it does not decrypt.
UuidIsMalformed(product, payload) ==
  /\ payload.length = "beyond_header" /\ product # Absent
  /\ ~payload.whole \/ Decrypted(product, payload) = Undecodable

\* parse_advertisement: a field that cannot be read is absent, but a uuid that
\* is there and does not decrypt is an error.  The top bit of the first byte
\* says whether the device is bound.
ParseAdvertisement(a) ==
  LET product == ParseProductId(a.service)
  IN  CASE a.payload.length # "beyond_header" ->
             [product |-> Readable(product), uuid |-> NoUuid, version |-> -1, bound |-> FALSE]
        [] UuidIsMalformed(product, a.payload) -> Malformed
        [] OTHER ->
             [product |-> Readable(product),
              uuid    |-> IF product = Absent THEN NoUuid ELSE a.payload.text,
              version |-> a.payload.version,
              bound   |-> a.payload.flags \div 128 = 1]

\* _is_tuya: the service is advertised or has data.
IsTuya(a) == a.uuids \/ a.service # Absent
=============================================================================

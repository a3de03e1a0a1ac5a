--------------------------- MODULE MCCommandLine ---------------------------
(* A bound and an unbound Tuya device and another make's, each heard with    *)
(* both records, with one of them, or damaged; one account.                  *)
EXTENDS CommandLine

CONSTANTS cli, lamp, socket, level_report

\* The product record: letters and digits, or the bytes a bound device hides it
\* behind.
unbound == [name |-> "unbound", tuya |-> TRUE, uuid |-> "uuid1", bound |-> FALSE,
            product |-> <<103, 51>>]
bound   == [name |-> "bound", tuya |-> TRUE, uuid |-> "uuid2", bound |-> TRUE,
            product |-> <<0, 255>>]
other   == [name |-> "other", tuya |-> FALSE, uuid |-> "uuid3", bound |-> FALSE,
            product |-> <<48, 48>>]
Nearby  == {unbound, bound, other}

Payload(d) ==
  [length |-> "beyond_header", flags |-> IF d.bound THEN 128 ELSE 0, version |-> 3,
   whole |-> TRUE, under |-> d.product, text |-> d.uuid]
NoPayload == [length |-> "absent", whole |-> TRUE, text |-> NoUuid]
Service(d) == <<0>> \o d.product

Ad(uuids, service, payload) == [uuids |-> uuids, service |-> service, payload |-> payload]

\* Both records; one of them; an empty or foreign service record; a manufacturer
\* record that is cut in the header, is no whole block, or holds no text.
AdsOf(d) ==
  IF ~d.tuya THEN {Ad(FALSE, Absent, Payload(d))}
  ELSE {Ad(FALSE, Service(d), Payload(d)), Ad(TRUE, Absent, Payload(d)),
        Ad(TRUE, <<0>>, [NoPayload EXCEPT !.length = "header"]),
        Ad(TRUE, Service(d), [Payload(d) EXCEPT !.whole = FALSE]),
        Ad(TRUE, Service(d), [Payload(d) EXCEPT !.text = Undecodable])}
Heard == [d \in Nearby |-> AdsOf(d)]

UserUuids == {NoUuid, "uuid1"}
OneReport == {level_report}
OneCaller == {cli}
NoCaller  == {}
PairableDevices == {lamp}
AnAccount ==
  {<<>>, <<[gid |-> TRUE, devices |-> <<lamp, socket>>]>>}

\* A result of either shape, an error, the rate limit, and nothing.
Answer(c, r) ==
  [code |-> c, success |-> "absent", result |-> r,
   inner |-> [code |-> "absent", success |-> "absent", result |-> "none"]]
SomeAnswers ==
  {Answer("absent", r) : r \in {"object", "list", "none"}}
  \cup {Answer(c, "none") : c \in {"other", "rate_limit"}}
=============================================================================

------------------------------ MODULE Envelope ------------------------------
(***************************************************************************)
(* What the client makes of one answer of the gateway: Gateway._unwrap and *)
(* the calls that want an object or a list (cloud/gateway.py), over the    *)
(* body and the JSON accessors they read it with.                          *)
(*                                                                         *)
(* An answer is a JSON object, or not.  Of the object only errorCode,      *)
(* success and result are told apart; a result that is a string is a body  *)
(* sealed under the key of the request, or one that cannot be opened, and  *)
(* holds another such object.                                              *)
(***************************************************************************)

Codes     == {"absent", "empty", "rate_limit", "other"}   \* "empty": no text
Successes == {"absent", "true", "false"}
Plain     == {"none", "object", "list", "value"}          \* "value": any other
Strings   == {"sealed", "unreadable"}

\* An object as it was parsed; `inner` is what its sealed result holds.
Objects == [code : Codes, success : Successes, result : Plain]
Envelopes ==
  [code : Codes, success : Successes, result : Plain \cup Strings, inner : Objects]

NotAnObject == [code |-> "absent", success |-> "absent", result |-> "garbage",
                inner |-> [code |-> "absent", success |-> "absent", result |-> "none"]]

\* {**envelope, **inner}: what the inner object has replaces the outer's.
Merge(outer, inner) ==
  [code    |-> IF inner.code = "absent" THEN outer.code ELSE inner.code,
   success |-> IF inner.success = "absent" THEN outer.success ELSE inner.success,
   result  |-> inner.result]

Error(e) == e.code \in {"rate_limit", "other"} \/ e.success = "false"

\* What an opened envelope comes to: the kind of its result, or an exception.
\* "rejected" and "rate_limited" are a TuyaBleCloudError by its code.
Judge(e) ==
  IF Error(e) THEN IF e.code = "rate_limit" THEN "rate_limited" ELSE "rejected"
  ELSE IF e.result = "none" THEN "protocol" ELSE e.result

\* Mutant: the errors of the sealed object are not looked at.
UnwrapOuterErrors(a) ==
  IF a.result \in {"garbage", "unreadable"} THEN "protocol"
  ELSE Judge(IF a.result = "sealed" THEN [a EXCEPT !.result = a.inner.result] ELSE a)

\* _unwrap: open the result if it is sealed, then judge the two objects as one.
Unwrap(a) ==
  IF a.result \in {"garbage", "unreadable"} THEN "protocol"
  ELSE Judge(IF a.result = "sealed" THEN Merge(a, a.inner) ELSE a)

\* async_call_object and async_call_object_list: a result of another shape is a
\* protocol error.
Call(shape, a) ==
  IF Unwrap(a) \in Plain \ {shape} THEN "protocol" ELSE Unwrap(a)

-----------------------------------------------------------------------------
\* What the gateway said, read off the two objects: on each field the word of
\* the sealed object, if it has one, else of the outer.
Word(a, field) ==
  IF a.result = "sealed" /\ a.inner[field] # "absent" THEN a.inner[field] ELSE a[field]

\* An error the outer object states is "unread" if the string beside it cannot
\* be opened, and "withdrawn" if the sealed object has another word on it.
Said(a) ==
  IF a.result \in {"garbage", "unreadable"}
  THEN IF Error(a) THEN "unread" ELSE "nothing"
  ELSE IF Word(a, "code") = "rate_limit" THEN "rate_limit"
  ELSE IF Word(a, "code") = "other" \/ Word(a, "success") = "false" THEN "error"
  ELSE IF Error(a) THEN "withdrawn" ELSE "nothing"
=============================================================================

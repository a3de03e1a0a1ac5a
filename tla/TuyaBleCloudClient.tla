------------------------- MODULE TuyaBleCloudClient -------------------------
(***************************************************************************)
(* One TuyaBleCloudClient of cloud/client.py with the Gateway it calls     *)
(* through (cloud/gateway.py), shared by several tasks of an event loop.   *)
(* Every call is a chain of posts; between two of them any other task may  *)
(* log in, list or close.  A step runs a task from one await to the next.  *)
(* What an answer comes to is in Envelope; the signature and the keys of a *)
(* body are left out.                                                      *)
(***************************************************************************)
EXTENDS Envelope, Integers, Sequences, FiniteSets, SequencesExt

CONSTANTS
  Callers,    \* the tasks that share the client
  Loggers,    \* those of them that may call async_login themselves
  Closers,    \* those of them that may close it
  MaxCalls,   \* bound: how many calls they make in all
  Accounts,   \* what the account may hold: lists of homes
  Answers,    \* the envelopes the gateway answers with
  Pairable    \* device records that name an id, a local key and a uuid; a record
              \* stands for its id, by which the code knows a device again

ASSUME CallersAssumption  == Loggers \cup Closers \subseteq Callers
ASSUME MaxCallsAssumption == MaxCalls \in Nat
DeviceRecords == UNION {ToSet(h.devices) : h \in UNION {ToSet(a) : a \in Accounts}}
ASSUME AccountsAssumption ==
  Accounts \subseteq Seq([gid : BOOLEAN, devices : Seq(DeviceRecords)])
ASSUME AnswersAssumption  == Answers \subseteq Envelopes \cup {NotAnObject}

VARIABLES
  account,   \* _account: the number of the login it came from, or NoAccount
  session,   \* Gateway._session: an HTTP session, or NoSession
  owns,      \* Gateway._owns_session
  opened,    \* HTTP sessions the gateway opened so far
  closed,    \* HTTP sessions close() was called on
  logins,    \* logins the gateway granted
  calls,     \* calls made so far
  call,      \* the call each task is in, or how its last one ended
  homes,     \* what the account holds
  overlapped \* history: an async_close began while another awaited its close()

vars == <<account, session, owns, opened, closed, logins, calls, call, homes, overlapped>>

NoAccount == 0
NoSession == -1
Given     == 0     \* the HTTP session the client was constructed with

\* The API call a task awaits the answer of, or async_close's close().
Posts == {"token", "login", "homes", "devices"}
Outcomes == {"none", "ok", "authentication", "cloud", "connection", "protocol",
             "runtime_error", "value_error", "cancelled"}

Idle == [at |-> "idle", list |-> FALSE, account |-> NoAccount, left |-> <<>>,
         found |-> <<>>, used |-> {}, said |-> "nothing", outcome |-> "none"]

Init ==
  /\ account = NoAccount
  /\ owns \in BOOLEAN /\ session = (IF owns THEN NoSession ELSE Given)
  /\ opened = 0 /\ closed = {} /\ logins = 0 /\ calls = 0
  /\ call = [c \in Callers |-> Idle]
  /\ homes \in Accounts
  /\ overlapped = FALSE

-----------------------------------------------------------------------------
\* Tails of steps: `r` is the call as the step leaves it.

End(c, r, o) ==
  /\ call' = [call EXCEPT ![c] = [r EXCEPT !.at = "idle", !.outcome = o]]
  /\ UNCHANGED <<session, opened>>

\* Mutant: a session that is closed is replaced at once.
PostReplacing(c, r) ==
  /\ call' = [call EXCEPT ![c] = [r EXCEPT !.used = @ \cup ({r.account} \ {NoAccount})]]
  /\ IF session = NoSession \/ session \in closed
     THEN session' = opened + 1 /\ opened' = opened + 1
     ELSE UNCHANGED <<session, opened>>

\* _async_post up to its await: open an HTTP session if there is none.  One that
\* is being closed refuses with RuntimeError, which is no aiohttp.ClientError.
Post(c, r) ==
  IF session \in closed
  THEN End(c, r, "runtime_error")
  ELSE /\ call' = [call EXCEPT ![c] = [r EXCEPT !.used = @ \cup ({r.account} \ {NoAccount})]]
       /\ IF session = NoSession
          THEN session' = opened + 1 /\ opened' = opened + 1
          ELSE UNCHANGED <<session, opened>>

\* The next home of the listing, or its end.
ListHomes(c, r) ==
  IF r.left = <<>> THEN End(c, r, "ok") ELSE Post(c, [r EXCEPT !.at = "devices"])

Called(c) == call[c].at = "idle" /\ calls < MaxCalls /\ calls' = calls + 1

-----------------------------------------------------------------------------
\* async_login and async_list_devices: the first post.

Login(c) ==
  /\ Called(c) /\ c \in Loggers
  /\ Post(c, [Idle EXCEPT !.at = "token"])
  /\ UNCHANGED <<account, owns, closed, logins, homes, overlapped>>

ListDevices(c) ==
  /\ Called(c)
  /\ IF account = NoAccount
     THEN Post(c, [Idle EXCEPT !.at = "token", !.list = TRUE])
     ELSE Post(c, [Idle EXCEPT !.at = "homes", !.list = TRUE, !.account = account])
  /\ UNCHANGED <<account, owns, closed, logins, homes, overlapped>>

\* The answers to the post a task awaits, each with what the gateway said in it.
Replies(shape) == {[verdict |-> Call(shape, a), said |-> Said(a)] : a \in Answers}
ObjectReplies  == Replies("object")
ListReplies    == Replies("list")
RepliesTo(at)  == IF at \in {"token", "login"} THEN ObjectReplies ELSE ListReplies

\* The call of c after an answer with this verdict, for each such answer.
Told(c, verdicts) ==
  {[call[c] EXCEPT !.said = IF a.said = "nothing" THEN @ ELSE a.said] :
     a \in {b \in RepliesTo(call[c].at) : b.verdict \in verdicts}}

\* The key of the token call encrypts the password; a key that is not a number
\* raises ValueError.
TokenAnswered(c) ==
  /\ call[c].at = "token"
  /\ \E r \in Told(c, {"object"}) :
       Post(c, [r EXCEPT !.at = "login"]) \/ End(c, r, "value_error")
  /\ UNCHANGED <<account, owns, closed, logins, calls, homes, overlapped>>

\* The login replaces whatever account the client held.
LoginAnswered(c) ==
  /\ call[c].at = "login"
  /\ logins' = logins + 1 /\ account' = logins + 1
  /\ \E r \in Told(c, {"object"}) :
       IF r.list THEN Post(c, [r EXCEPT !.at = "homes", !.account = logins + 1])
       ELSE End(c, r, "ok")
  /\ UNCHANGED <<owns, closed, calls, homes, overlapped>>

\* Mutant: the listing ends at the first home without an id.
HomesAnsweredUpToGap(c) ==
  /\ call[c].at = "homes"
  /\ LET gaps == {i \in DOMAIN homes : ~homes[i].gid} \cup {Len(homes) + 1}
         end  == CHOOSE i \in gaps : \A j \in gaps : i <= j
     IN  \E r \in Told(c, {"list"}) :
           ListHomes(c, [r EXCEPT !.left = SubSeq(homes, 1, end - 1)])
  /\ UNCHANGED <<account, owns, closed, logins, calls, homes, overlapped>>

\* What is no object, and homes without an integer id, are skipped.
Identified(answer) ==
  FoldLeft(LAMBDA listed, h : IF h.gid THEN Append(listed, h) ELSE listed, <<>>, answer)

HomesAnswered(c) ==
  /\ call[c].at = "homes"
  /\ \E r \in Told(c, {"list"}) : ListHomes(c, [r EXCEPT !.left = Identified(homes)])
  /\ UNCHANGED <<account, owns, closed, logins, calls, homes, overlapped>>

\* The devices of one home that can be paired and that no home listed before,
\* in order, added to those found so far.
Added(found, devices) ==
  FoldLeft(LAMBDA got, d : IF d \in Pairable \ ToSet(got) THEN Append(got, d) ELSE got,
           found, devices)

\* The listing with one more home.
WithDevices(r) == [r EXCEPT !.left = Tail(@), !.found = Added(@, Head(r.left).devices)]

\* Mutant: each post of a listing goes out under the account of the moment.
DevicesAnsweredUnderCurrent(c) ==
  /\ call[c].at = "devices"
  /\ \E r \in Told(c, {"list"}) : ListHomes(c, [WithDevices(r) EXCEPT !.account = account])
  /\ UNCHANGED <<account, owns, closed, logins, calls, homes, overlapped>>

DevicesAnswered(c) ==
  /\ call[c].at = "devices"
  /\ \E r \in Told(c, {"list"}) : ListHomes(c, WithDevices(r))
  /\ UNCHANGED <<account, owns, closed, logins, calls, homes, overlapped>>

-----------------------------------------------------------------------------
\* The ways a post fails.

\* The gateway's own error: about the credentials if a login post was rejected
\* for any reason but the rate limit.
Rejected(c) ==
  /\ call[c].at \in Posts
  /\ \/ \E r \in Told(c, {"rejected"}) :
          End(c, r, IF r.at \in {"token", "login"} THEN "authentication" ELSE "cloud")
     \/ \E r \in Told(c, {"rate_limited"}) : End(c, r, "cloud")
  /\ UNCHANGED <<account, owns, closed, logins, calls, homes, overlapped>>

\* An answer that cannot be used, or one of a login post that lacks a field.
Malformed(c) ==
  /\ call[c].at \in Posts
  /\ \E r \in Told(c, {"protocol"} \cup (IF call[c].at \in {"token", "login"} THEN {"object"} ELSE {})) :
       End(c, r, "protocol")
  /\ UNCHANGED <<account, owns, closed, logins, calls, homes, overlapped>>

\* The timeout of the post, a refused connection, or a session closed under it.
Unreachable(c) ==
  /\ call[c].at \in Posts
  /\ End(c, call[c], "connection")
  /\ UNCHANGED <<account, owns, closed, logins, calls, homes, overlapped>>

\* response.text() cannot decode the body: UnicodeDecodeError, a ValueError that
\* nothing translates.
NotText(c) ==
  /\ call[c].at \in Posts
  /\ End(c, call[c], "value_error")
  /\ UNCHANGED <<account, owns, closed, logins, calls, homes, overlapped>>

Cancelled(c) ==
  /\ call[c].at # "idle"
  /\ End(c, call[c], "cancelled")
  /\ UNCHANGED <<account, owns, closed, logins, calls, homes, overlapped>>

-----------------------------------------------------------------------------
\* async_close.

\* Only a session the gateway opened is closed.
Close(c) ==
  /\ Called(c) /\ c \in Closers
  /\ IF owns /\ session # NoSession
     THEN /\ closed' = closed \cup {session}
          /\ call' = [call EXCEPT ![c] = [Idle EXCEPT !.at = "closing"]]
          /\ overlapped' = (overlapped \/ \E d \in Callers : call[d].at = "closing")
          /\ UNCHANGED <<session, opened>>
     ELSE End(c, Idle, "ok") /\ UNCHANGED <<closed, overlapped>>
  /\ UNCHANGED <<account, owns, logins, homes>>

\* close() returns and the session is forgotten, whichever it is by now.
Closed(c) ==
  /\ call[c].at = "closing"
  /\ call' = [call EXCEPT ![c].at = "idle", ![c].outcome = "ok"]
  /\ session' = NoSession
  /\ UNCHANGED <<account, owns, opened, closed, logins, calls, homes, overlapped>>

Next ==
  \E c \in Callers :
    \/ Login(c) \/ ListDevices(c) \/ TokenAnswered(c) \/ LoginAnswered(c)
    \/ HomesAnswered(c) \/ DevicesAnswered(c)
    \/ Rejected(c) \/ Malformed(c) \/ Unreachable(c) \/ NotText(c) \/ Cancelled(c)
    \/ Close(c) \/ Closed(c)

Spec == Init /\ [][Next]_vars

-----------------------------------------------------------------------------
\* A listing that returns names every device that can be paired in a home with
\* an id exactly once, whatever the other tasks did to the client meanwhile
\* (cloud/client.py:116-139).
ListingIsComplete ==
  \A c \in Callers :
    call[c].list /\ call[c].outcome = "ok" =>
      /\ ToSet(call[c].found) =
           Pairable \cap UNION {ToSet(homes[i].devices) : i \in {j \in DOMAIN homes : homes[j].gid}}
      /\ IsInjective(call[c].found)

\* A listing speaks for one account throughout, even if another task logs in
\* between two of its posts (cloud/client.py:123-134).
OneAccountPerListing == \A c \in Callers : Cardinality(call[c].used) <= 1

\* An HTTP session the gateway opened is closed or still the one it will close,
\* whatever posts fall between the two sides of the await in async_close, as long
\* as no two async_close overlapped; and it never closes one it was given
\* (cloud/gateway.py:125-129, 165-166).
SessionsAreReleased ==
  /\ Given \notin closed
  /\ ~overlapped => (1 .. opened) \ closed \subseteq {session}

\* What the gateway says of an error reaches the caller, through every chain of
\* posts and whatever the other tasks do: the rate limit never as a judgement of
\* the credentials, any other error of a login post as one, an error of the
\* account's own calls as the gateway's; an error beside a result that cannot be
\* opened as an answer that could not be read, never as a result; and nothing
\* else is told as an error of the gateway.  The sealed object has the last word:
\* an error it withdraws is not told (gateway.py:186-201, cloud/client.py:104-108).
ErrorsAreTold ==
  \A c \in Callers : call[c].at = "idle" =>
    /\ call[c].said = "rate_limit" => call[c].outcome = "cloud"
    /\ call[c].said = "error" =>
         call[c].outcome = IF call[c].account = NoAccount THEN "authentication" ELSE "cloud"
    /\ call[c].said = "unread" => call[c].outcome = "protocol"
    /\ call[c].outcome \in {"authentication", "cloud"} => call[c].said \in {"rate_limit", "error"}
=============================================================================

---------------------- MODULE TuyaBleCloudClientProofs ----------------------
(***************************************************************************)
(* Theorems about TuyaBleCloudClient, for every set of tasks, every number *)
(* of calls, every account and every set of answers of the gateway.        *)
(***************************************************************************)
EXTENDS TuyaBleCloudClient, FiniteSetTheorems, TLAPS

-----------------------------------------------------------------------------
\* An envelope is judged by the words it has the last time, and one that cannot
\* be opened is not judged at all.
LEMMA JudgedAsSaid ==
  ASSUME NEW a \in Envelopes \cup {NotAnObject}, NEW shape
  PROVE  /\ Call(shape, a) = "rate_limited" <=> Said(a) = "rate_limit"
         /\ Call(shape, a) = "rejected" <=> Said(a) = "error"
         /\ Said(a) = "unread" => Call(shape, a) = "protocol"
<1>1. CASE a.result \in {"garbage", "unreadable"}
  BY <1>1 DEF Call, Unwrap, Said, Plain
<1>2. CASE a.result \in Plain
  <2>1. a \in Envelopes
    BY <1>2 DEF NotAnObject, Plain
  <2>2. Word(a, "code") = a.code /\ Word(a, "success") = a.success
    BY <1>2, <2>1 DEF Word, Plain, Envelopes
  <2>3. Unwrap(a) = Judge(a)
    BY <1>2 DEF Unwrap, Plain
  <2> QED
    BY <1>2, <2>1, <2>2, <2>3 DEF Call, Judge, Said, Error, Plain, Envelopes, Codes
<1>3. CASE a.result = "sealed"
  <2>1. a \in Envelopes /\ a.inner \in Objects
    BY <1>3 DEF NotAnObject, Envelopes
  <2> DEFINE merged == Merge(a, a.inner)
  <2>2. /\ merged.code = Word(a, "code") /\ merged.success = Word(a, "success")
        /\ merged.result \in Plain
    BY <1>3, <2>1 DEF Merge, Word, Objects, Envelopes
  <2>3. Unwrap(a) = Judge(merged)
    BY <1>3 DEF Unwrap
  <2>4. Word(a, "code") \in Codes
    BY <2>1 DEF Word, Envelopes, Objects
  <2> HIDE DEF merged
  <2> QED
    BY <1>3, <2>2, <2>3, <2>4 DEF Call, Judge, Said, Error, Plain, Codes
<1> QED
  BY <1>1, <1>2, <1>3 DEF Envelopes, NotAnObject, Plain, Strings

-----------------------------------------------------------------------------
\* What holds of the record of every call.

IsCall(r) ==
  r \in [at : {r.at}, list : {r.list}, account : {r.account}, left : {r.left},
         found : {r.found}, used : {r.used}, said : {r.said}, outcome : {r.outcome}]

\* The verdict on an ended call is the one its answers call for.
ToldRight(r) ==
  /\ r.said = "rate_limit" => r.outcome = "cloud"
  /\ r.said = "error" =>
       r.outcome = IF r.account = NoAccount THEN "authentication" ELSE "cloud"
  /\ r.said = "unread" => r.outcome = "protocol"
  /\ r.outcome \in {"authentication", "cloud"} => r.said \in {"rate_limit", "error"}

\* What an answer says that a call goes on from.
Silent == {"nothing", "withdrawn"}

\* A call in progress was told of no error that stands, and it names an account exactly if
\* its posts go out under one.
InProgress(r) ==
  /\ r.said \in Silent
  /\ r.at \in {"token", "login"} => r.account = NoAccount
  /\ r.at \in {"homes", "devices"} => r.account # NoAccount

\* It used no other account than the one it names.
OwnAccount(r) == r.used \subseteq {r.account} \ {NoAccount}

Good(r) ==
  /\ IsCall(r) /\ r.at \in Posts \cup {"idle", "closing"} /\ OwnAccount(r)
  /\ IF r.at = "idle" THEN ToldRight(r) ELSE InProgress(r)

CallInv ==
  /\ account \in Nat /\ logins \in Nat
  /\ call = [c \in Callers |-> call[c]]
  /\ \A c \in Callers : Good(call[c])

\* What the steps of c do to the other calls and to the HTTP session, those of
\* async_close excepted.
Served(c) ==
  /\ \A d \in Callers \ {c} : call'[d] = call[d]
  /\ call'[c].at # "closing"
  /\ \/ UNCHANGED <<session, opened>>
     \/ /\ session = NoSession /\ session \notin closed
        /\ session' = opened + 1 /\ opened' = opened + 1

\* A call whose record becomes a good one keeps the invariant.
LEMMA CallMoves ==
  ASSUME CallInv, NEW c \in Callers, NEW r, Good(r), call' = [call EXCEPT ![c] = r],
         account' \in Nat, logins' \in Nat
  PROVE  CallInv' /\ call'[c] = r /\ \A d \in Callers \ {c} : call'[d] = call[d]
<1>1. call' = [d \in Callers |-> IF d = c THEN r ELSE call[d]]
  BY DEF CallInv
<1>2. \A d \in Callers : call'[d] = IF d = c THEN r ELSE call[d]
  BY <1>1
<1>3. \A d \in Callers : Good(call'[d])
  BY <1>2 DEF CallInv
<1>4. call' = [d \in Callers |-> call'[d]]
  BY <1>1, <1>2
<1> QED
  BY <1>2, <1>3, <1>4 DEF CallInv

\* A call ends with the verdict its answers call for.
LEMMA EndKeeps ==
  ASSUME CallInv, NEW c \in Callers, NEW r, NEW o, IsCall(r), OwnAccount(r),
         ToldRight([r EXCEPT !.outcome = o]), End(c, r, o),
         account' \in Nat, logins' \in Nat
  PROVE  CallInv' /\ Served(c)
<1> DEFINE e == [r EXCEPT !.at = "idle", !.outcome = o]
<1>1. /\ IsCall(e) /\ e.at = "idle" /\ e.outcome = o
      /\ e.used = r.used /\ e.account = r.account /\ e.said = r.said
  BY DEF IsCall
<1>2. /\ [r EXCEPT !.outcome = o].outcome = o /\ [r EXCEPT !.outcome = o].said = r.said
      /\ [r EXCEPT !.outcome = o].account = r.account
  BY DEF IsCall
<1>3. Good(e)
  BY <1>1, <1>2 DEF Good, OwnAccount, ToldRight
<1>4. call' = [call EXCEPT ![c] = e] /\ UNCHANGED <<session, opened>>
  BY DEF End
<1> QED
  BY <1>1, <1>3, <1>4, CallMoves DEF Served

\* A call goes on to a post, under the account it names; or the HTTP session
\* refuses it.
LEMMA PostKeeps ==
  ASSUME CallInv, NEW c \in Callers, NEW r, IsCall(r), OwnAccount(r), InProgress(r),
         r.at \in Posts, Post(c, r), account' \in Nat, logins' \in Nat
  PROVE  CallInv' /\ Served(c)
<1>1. CASE session \in closed
  <2>1. /\ [r EXCEPT !.outcome = "runtime_error"].outcome = "runtime_error"
        /\ [r EXCEPT !.outcome = "runtime_error"].said = r.said
    BY DEF IsCall
  <2>2. ToldRight([r EXCEPT !.outcome = "runtime_error"])
    BY <2>1 DEF ToldRight, InProgress, Silent
  <2> QED
    BY <1>1, <2>2, EndKeeps DEF Post
<1>2. CASE session \notin closed
  <2> DEFINE e == [r EXCEPT !.used = @ \cup ({r.account} \ {NoAccount})]
  <2>1. /\ IsCall(e) /\ e.at = r.at /\ e.said = r.said /\ e.account = r.account
        /\ e.used = r.used \cup ({r.account} \ {NoAccount})
    BY DEF IsCall
  <2>2. Good(e)
    BY <2>1 DEF Good, OwnAccount, InProgress, Posts
  <2>3. /\ call' = [call EXCEPT ![c] = e]
        /\ \/ UNCHANGED <<session, opened>>
           \/ /\ session = NoSession /\ session' = opened + 1 /\ opened' = opened + 1
    BY <1>2 DEF Post
  <2> HIDE DEF e
  <2>4. CallInv' /\ call'[c] = e /\ \A d \in Callers \ {c} : call'[d] = call[d]
    BY <2>2, <2>3, CallMoves
  <2>5. call'[c].at # "closing"
    BY <2>1, <2>4 DEF Posts
  <2> QED
    BY <1>2, <2>3, <2>4, <2>5 DEF Served
<1> QED
  BY <1>1, <1>2

\* What an answer leaves of a call: the post it answered, and what it said.
LEMMA ToldFacts ==
  ASSUME CallInv, NEW c \in Callers, NEW verdicts, call[c].at \in Posts,
         NEW r \in Told(c, verdicts)
  PROVE  /\ IsCall(r) /\ OwnAccount(r) /\ r.at = call[c].at /\ r.account = call[c].account
         /\ verdicts = {"rate_limited"} => r.said = "rate_limit"
         /\ verdicts = {"rejected"} => r.said = "error"
         /\ verdicts \subseteq {"object", "list"} => r.said \in Silent
         /\ verdicts \subseteq {"object", "list", "protocol"} => r.said \in Silent \cup {"unread"}
<1>1. PICK b \in RepliesTo(call[c].at) :
        b.verdict \in verdicts
        /\ r = [call[c] EXCEPT !.said = IF b.said = "nothing" THEN @ ELSE b.said]
  BY DEF Told
<1>2. PICK shape \in {"object", "list"}, a \in Answers :
        b = [verdict |-> Call(shape, a), said |-> Said(a)]
  <2>1. PICK shape \in {"object", "list"} : b \in Replies(shape)
    BY DEF RepliesTo, ObjectReplies, ListReplies
  <2> QED
    BY <2>1 DEF Replies
<1>3. /\ b.verdict = "rate_limited" <=> b.said = "rate_limit"
      /\ b.verdict = "rejected" <=> b.said = "error"
      /\ b.said = "unread" => b.verdict = "protocol"
      /\ b.said \in {"rate_limit", "error", "unread"} \cup Silent
  <2>1. a \in Envelopes \cup {NotAnObject}
    BY AnswersAssumption
  <2>2. Said(a) \in {"rate_limit", "error", "unread"} \cup Silent
    BY DEF Said, Silent
  <2> QED
    BY <1>2, <2>1, <2>2, JudgedAsSaid
<1>4. Good(call[c]) /\ call[c].said \in Silent
  BY DEF CallInv, Good, InProgress, Posts
<1>5. /\ IsCall(r) /\ r.at = call[c].at /\ r.account = call[c].account
      /\ r.used = call[c].used
      /\ r.said = IF b.said = "nothing" THEN call[c].said ELSE b.said
  BY <1>1, <1>4 DEF Good, IsCall
<1> QED
  BY <1>1, <1>3, <1>4, <1>5 DEF Good, OwnAccount, Silent

-----------------------------------------------------------------------------
\* The first posts of a call, and what is started while another one awaits.
LEMMA IdleIsGood ==
  /\ IsCall(Idle) /\ OwnAccount(Idle)
  /\ \A at \in {"token", "closing"} : LET r == [Idle EXCEPT !.at = at] IN
       IsCall(r) /\ OwnAccount(r) /\ r.said = "nothing" /\ r.account = NoAccount /\ r.at = at
  /\ LET r == [Idle EXCEPT !.at = "token", !.list = TRUE] IN
       IsCall(r) /\ OwnAccount(r) /\ r.said = "nothing" /\ r.account = NoAccount /\ r.at = "token"
  /\ \A n : LET r == [Idle EXCEPT !.at = "homes", !.list = TRUE, !.account = n] IN
       IsCall(r) /\ OwnAccount(r) /\ r.said = "nothing" /\ r.account = n /\ r.at = "homes"
<1>1. /\ IsCall(Idle) /\ Idle.used = {} /\ Idle.said = "nothing"
      /\ Idle.account = NoAccount
  BY DEF Idle, IsCall
<1> DEFINE started(at)  == [Idle EXCEPT !.at = at]
           first        == [Idle EXCEPT !.at = "token", !.list = TRUE]
           listing(n)   == [Idle EXCEPT !.at = "homes", !.list = TRUE, !.account = n]
<1>2. ASSUME NEW at
      PROVE  /\ IsCall(started(at)) /\ started(at).used = {} /\ started(at).at = at
             /\ started(at).said = "nothing" /\ started(at).account = NoAccount
  BY <1>1 DEF IsCall
<1>3. /\ IsCall(first) /\ first.used = {} /\ first.at = "token"
      /\ first.said = "nothing" /\ first.account = NoAccount
  BY <1>1 DEF IsCall
<1>4. ASSUME NEW n
      PROVE  /\ IsCall(listing(n)) /\ listing(n).used = {} /\ listing(n).at = "homes"
             /\ listing(n).said = "nothing" /\ listing(n).account = n
  BY <1>1 DEF IsCall
<1> HIDE DEF started, first, listing
<1>5. /\ OwnAccount(Idle) /\ OwnAccount(first)
      /\ \A at : OwnAccount(started(at)) /\ OwnAccount(listing(at))
  BY <1>1, <1>2, <1>3, <1>4 DEF OwnAccount
<1> QED
  BY <1>1, <1>2, <1>3, <1>4, <1>5 DEF started, first, listing

LEMMA InitCallInv == Init => CallInv
<1> SUFFICES ASSUME Init PROVE CallInv
  OBVIOUS
<1>1. Good(Idle)
  BY IdleIsGood DEF Good, Idle, ToldRight
<1>2. \A c \in Callers : call[c] = Idle
  BY DEF Init
<1> QED
  BY <1>1, <1>2 DEF Init, CallInv, NoAccount

\* The next home of a listing, or its end.
LEMMA ListHomesKeeps ==
  ASSUME CallInv, NEW c \in Callers, NEW r, IsCall(r), OwnAccount(r), r.said \in Silent,
         r.account # NoAccount, r.at \in Posts, ListHomes(c, r), account' \in Nat, logins' \in Nat
  PROVE  CallInv' /\ Served(c)
<1>1. CASE End(c, r, "ok")
  <2>1. /\ [r EXCEPT !.outcome = "ok"].outcome = "ok"
        /\ [r EXCEPT !.outcome = "ok"].said = r.said
    BY DEF IsCall
  <2> QED
    BY <1>1, <2>1, EndKeeps DEF ToldRight, Silent
<1>2. CASE Post(c, [r EXCEPT !.at = "devices"])
  <2> DEFINE e == [r EXCEPT !.at = "devices"]
  <2>1. /\ IsCall(e) /\ e.at = "devices" /\ e.said = r.said /\ e.account = r.account
        /\ e.used = r.used
    BY DEF IsCall
  <2> HIDE DEF e
  <2>2. OwnAccount(e) /\ InProgress(e) /\ e.at \in Posts
    BY <2>1 DEF OwnAccount, InProgress, Posts
  <2>3. Post(c, e)
    BY <1>2 DEF e
  <2> QED
    BY <2>1, <2>2, <2>3, PostKeeps
<1> QED
  BY <1>1, <1>2 DEF ListHomes

\* The steps that begin a call.
LEMMA CallBegins ==
  ASSUME CallInv, NEW c \in Callers, Login(c) \/ ListDevices(c) \/ Close(c)
  PROVE  CallInv' /\ (Close(c) \/ Served(c))
<1>1. account' \in Nat /\ logins' \in Nat
  BY DEF CallInv, Login, ListDevices, Close
<1>2. CASE Login(c)
  <2> DEFINE r == [Idle EXCEPT !.at = "token"]
  <2>1. IsCall(r) /\ OwnAccount(r) /\ InProgress(r) /\ r.at \in Posts
    BY IdleIsGood DEF InProgress, Posts, Silent
  <2>2. Post(c, r)
    BY <1>2 DEF Login
  <2> HIDE DEF r
  <2> QED
    BY <1>1, <2>1, <2>2, PostKeeps
<1>3. CASE ListDevices(c) /\ account = NoAccount
  <2> DEFINE r == [Idle EXCEPT !.at = "token", !.list = TRUE]
  <2>1. IsCall(r) /\ OwnAccount(r) /\ InProgress(r) /\ r.at \in Posts
    BY IdleIsGood DEF InProgress, Posts, Silent
  <2>2. Post(c, r)
    BY <1>3 DEF ListDevices
  <2> HIDE DEF r
  <2> QED
    BY <1>1, <2>1, <2>2, PostKeeps
<1>4. CASE ListDevices(c) /\ account # NoAccount
  <2> DEFINE r == [Idle EXCEPT !.at = "homes", !.list = TRUE, !.account = account]
  <2>1. IsCall(r) /\ OwnAccount(r) /\ InProgress(r) /\ r.at \in Posts
    BY <1>4, IdleIsGood DEF InProgress, Posts, Silent
  <2>2. Post(c, r)
    BY <1>4 DEF ListDevices
  <2> HIDE DEF r
  <2> QED
    BY <1>1, <2>1, <2>2, PostKeeps
<1>5. CASE Close(c)
  <2> DEFINE r == [Idle EXCEPT !.at = "closing"]
  <2>1. Good(r)
    BY IdleIsGood DEF Good, InProgress, Silent
  <2>2. ToldRight([Idle EXCEPT !.outcome = "ok"])
    BY DEF Idle, ToldRight
  <2>3. call' = [call EXCEPT ![c] = r] \/ End(c, Idle, "ok")
    BY <1>5 DEF Close
  <2> HIDE DEF r
  <2>4. CASE call' = [call EXCEPT ![c] = r]
    BY <1>1, <1>5, <2>1, <2>4, CallMoves
  <2>5. CASE End(c, Idle, "ok")
    BY <1>1, <2>2, <2>5, IdleIsGood, EndKeeps
  <2> QED
    BY <2>3, <2>4, <2>5
<1> QED
  BY <1>2, <1>3, <1>4, <1>5

\* The steps in which an answer lets a call go on.
LEMMA CallGoesOn ==
  ASSUME CallInv, NEW c \in Callers,
         TokenAnswered(c) \/ LoginAnswered(c) \/ HomesAnswered(c) \/ DevicesAnswered(c)
  PROVE  CallInv' /\ Served(c)
<1>1. CASE TokenAnswered(c)
  <2>1. call[c].at = "token" /\ account' \in Nat /\ logins' \in Nat
    BY <1>1 DEF TokenAnswered, CallInv
  <2>2. PICK r \in Told(c, {"object"}) :
          Post(c, [r EXCEPT !.at = "login"]) \/ End(c, r, "value_error")
    BY <1>1 DEF TokenAnswered
  <2>3. IsCall(r) /\ OwnAccount(r) /\ r.said \in Silent /\ r.account = NoAccount
    BY <2>1, ToldFacts DEF Posts, CallInv, Good, InProgress
  <2>4. CASE Post(c, [r EXCEPT !.at = "login"])
    <3> DEFINE e == [r EXCEPT !.at = "login"]
    <3>1. /\ IsCall(e) /\ e.at = "login" /\ e.said = r.said /\ e.account = r.account
          /\ e.used = r.used
      BY <2>3 DEF IsCall
    <3>2. Post(c, e)
      BY <2>4
    <3> HIDE DEF e
    <3>3. OwnAccount(e) /\ InProgress(e) /\ e.at \in Posts
      BY <2>3, <3>1 DEF OwnAccount, InProgress, Posts
    <3> QED
      BY <2>1, <3>1, <3>2, <3>3, PostKeeps
  <2>5. CASE End(c, r, "value_error")
    <3>1. /\ [r EXCEPT !.outcome = "value_error"].outcome = "value_error"
          /\ [r EXCEPT !.outcome = "value_error"].said = r.said
      BY <2>3 DEF IsCall
    <3> QED
      BY <2>1, <2>3, <2>5, <3>1, EndKeeps DEF ToldRight, Silent
  <2> QED
    BY <2>2, <2>4, <2>5
<1>2. CASE LoginAnswered(c)
  <2>1. call[c].at = "login" /\ account' \in Nat /\ logins' \in Nat /\ logins + 1 # NoAccount
    <3>1. logins \in Nat
      BY DEF CallInv
    <3>2. call[c].at = "login" /\ account' = logins + 1 /\ logins' = logins + 1
      BY <1>2 DEF LoginAnswered
    <3> QED
      BY <3>1, <3>2 DEF NoAccount
  <2>2. PICK r \in Told(c, {"object"}) :
          Post(c, [r EXCEPT !.at = "homes", !.account = logins + 1]) \/ End(c, r, "ok")
    BY <1>2 DEF LoginAnswered
  <2>3. IsCall(r) /\ OwnAccount(r) /\ r.said \in Silent /\ r.account = NoAccount
    BY <2>1, ToldFacts DEF Posts, CallInv, Good, InProgress
  <2>4. CASE Post(c, [r EXCEPT !.at = "homes", !.account = logins + 1])
    <3> DEFINE e == [r EXCEPT !.at = "homes", !.account = logins + 1]
    <3>1. /\ IsCall(e) /\ e.at = "homes" /\ e.said = r.said /\ e.account = logins + 1
          /\ e.used = r.used
      BY <2>3 DEF IsCall
    <3>2. Post(c, e)
      BY <2>4
    <3> HIDE DEF e
    <3>3. IsCall(e) /\ OwnAccount(e) /\ InProgress(e) /\ e.at \in Posts
      BY <2>1, <2>3, <3>1 DEF OwnAccount, InProgress, Posts
    <3> QED
      BY <2>1, <3>2, <3>3, PostKeeps
  <2>5. CASE End(c, r, "ok")
    <3>1. /\ [r EXCEPT !.outcome = "ok"].outcome = "ok"
          /\ [r EXCEPT !.outcome = "ok"].said = r.said
      BY <2>3 DEF IsCall
    <3> QED
      BY <2>1, <2>3, <2>5, <3>1, EndKeeps DEF ToldRight, Silent
  <2> QED
    BY <2>2, <2>4, <2>5
<1>3. CASE HomesAnswered(c)
  <2>1. call[c].at = "homes" /\ account' \in Nat /\ logins' \in Nat
    BY <1>3 DEF HomesAnswered, CallInv
  <2> DEFINE named == Identified(homes)
  <2>2. PICK r \in Told(c, {"list"}) : ListHomes(c, [r EXCEPT !.left = named])
    BY <1>3 DEF HomesAnswered
  <2> HIDE DEF named
  <2>3. IsCall(r) /\ OwnAccount(r) /\ r.said \in Silent /\ r.account # NoAccount /\ r.at = "homes"
    BY <2>1, ToldFacts DEF Posts, CallInv, Good, InProgress
  <2> DEFINE e == [r EXCEPT !.left = named]
  <2>4. /\ IsCall(e) /\ e.at = "homes" /\ e.said = r.said /\ e.account = r.account
        /\ e.used = r.used
    BY <2>3 DEF IsCall
  <2>5. ListHomes(c, e)
    BY <2>2
  <2> HIDE DEF e
  <2>6. OwnAccount(e) /\ e.at \in Posts
    BY <2>3, <2>4 DEF OwnAccount, Posts
  <2> QED
    BY <2>1, <2>3, <2>4, <2>5, <2>6, ListHomesKeeps
<1>4. CASE DevicesAnswered(c)
  <2>1. call[c].at = "devices" /\ account' \in Nat /\ logins' \in Nat
    BY <1>4 DEF DevicesAnswered, CallInv
  <2>2. PICK r \in Told(c, {"list"}) : ListHomes(c, WithDevices(r))
    BY <1>4 DEF DevicesAnswered
  <2>3. IsCall(r) /\ OwnAccount(r) /\ r.said \in Silent /\ r.account # NoAccount /\ r.at = "devices"
    BY <2>1, ToldFacts DEF Posts, CallInv, Good, InProgress
  <2> DEFINE e == WithDevices(r)
  <2>4. /\ IsCall(e) /\ e.at = "devices" /\ e.said = r.said /\ e.account = r.account
        /\ e.used = r.used
    BY <2>3 DEF IsCall, WithDevices
  <2>5. ListHomes(c, e)
    BY <2>2
  <2> HIDE DEF e
  <2>6. OwnAccount(e) /\ e.at \in Posts
    BY <2>3, <2>4 DEF OwnAccount, Posts
  <2> QED
    BY <2>1, <2>3, <2>4, <2>5, <2>6, ListHomesKeeps
<1> QED
  BY <1>1, <1>2, <1>3, <1>4

\* The ways a post fails, and the end of async_close.
LEMMA CallEnds ==
  ASSUME CallInv, NEW c \in Callers,
         Rejected(c) \/ Malformed(c) \/ Unreachable(c) \/ NotText(c) \/ Cancelled(c) \/ Closed(c)
  PROVE  CallInv' /\ (Closed(c) \/ Served(c))
<1>1. account' \in Nat /\ logins' \in Nat
  BY DEF CallInv, Rejected, Malformed, Unreachable, NotText, Cancelled, Closed
<1>2. Good(call[c])
  BY DEF CallInv
<1>3. ASSUME NEW r, IsCall(r), NEW o
      PROVE  /\ [r EXCEPT !.outcome = o].outcome = o /\ [r EXCEPT !.outcome = o].said = r.said
             /\ [r EXCEPT !.outcome = o].account = r.account
  BY <1>3 DEF IsCall
<1>4. CASE Rejected(c)
  <2>1. call[c].at \in Posts
    BY <1>4 DEF Rejected
  <2>2. call[c].at \in {"token", "login"} <=> call[c].account = NoAccount
    BY <1>2, <2>1 DEF Good, InProgress, Posts
  <2>3. CASE \E r \in Told(c, {"rejected"}) :
               End(c, r, IF r.at \in {"token", "login"} THEN "authentication" ELSE "cloud")
    <3> PICK r \in Told(c, {"rejected"}) :
               End(c, r, IF r.at \in {"token", "login"} THEN "authentication" ELSE "cloud")
      BY <2>3
    <3> DEFINE o == IF r.at \in {"token", "login"} THEN "authentication" ELSE "cloud"
    <3>1. /\ IsCall(r) /\ OwnAccount(r) /\ r.said = "error"
          /\ r.at = call[c].at /\ r.account = call[c].account
      BY <2>1, ToldFacts
    <3>2. /\ End(c, r, o) /\ o \in {"authentication", "cloud"}
          /\ o = IF r.account = NoAccount THEN "authentication" ELSE "cloud"
      BY <2>2, <3>1
    <3> HIDE DEF o
    <3>3. ToldRight([r EXCEPT !.outcome = o])
      BY <1>3, <3>1, <3>2 DEF ToldRight
    <3> QED
      BY <1>1, <3>1, <3>2, <3>3, EndKeeps
  <2>4. CASE \E r \in Told(c, {"rate_limited"}) : End(c, r, "cloud")
    <3> PICK r \in Told(c, {"rate_limited"}) : End(c, r, "cloud")
      BY <2>4
    <3>1. IsCall(r) /\ OwnAccount(r) /\ r.said = "rate_limit"
      BY <2>1, ToldFacts
    <3>2. ToldRight([r EXCEPT !.outcome = "cloud"])
      BY <1>3, <3>1 DEF ToldRight
    <3> QED
      BY <1>1, <3>1, <3>2, EndKeeps
  <2> QED
    BY <1>4, <2>3, <2>4 DEF Rejected
<1>5. CASE Malformed(c)
  <2>1. PICK vs \in SUBSET {"object", "list", "protocol"} :
          \E r \in Told(c, vs) : End(c, r, "protocol")
    BY <1>5 DEF Malformed
  <2>2. PICK r \in Told(c, vs) : End(c, r, "protocol")
    BY <2>1
  <2>3. IsCall(r) /\ OwnAccount(r) /\ r.said \in Silent \cup {"unread"}
    <3>1. call[c].at \in Posts
      BY <1>5 DEF Malformed
    <3> QED
      BY <2>1, <2>2, <3>1, ToldFacts
  <2>4. ToldRight([r EXCEPT !.outcome = "protocol"])
    BY <1>3, <2>3 DEF ToldRight, Silent
  <2> QED
    BY <1>1, <2>2, <2>3, <2>4, EndKeeps
<1>6. CASE Unreachable(c) \/ NotText(c) \/ Cancelled(c)
  <2>1. PICK o \in {"connection", "value_error", "cancelled"} : End(c, call[c], o)
    BY <1>6 DEF Unreachable, NotText, Cancelled
  <2>2. call[c].at # "idle"
    BY <1>6 DEF Unreachable, NotText, Cancelled, Posts
  <2>3. IsCall(call[c]) /\ OwnAccount(call[c]) /\ call[c].said \in Silent
    BY <1>2, <2>2 DEF Good, InProgress
  <2>4. ToldRight([call[c] EXCEPT !.outcome = o])
    BY <1>3, <2>3 DEF ToldRight, Silent
  <2> QED
    BY <1>1, <2>1, <2>3, <2>4, EndKeeps
<1>7. CASE Closed(c)
  <2> DEFINE e == [call[c] EXCEPT !.at = "idle", !.outcome = "ok"]
  <2>1. IsCall(call[c]) /\ OwnAccount(call[c]) /\ call[c].said \in Silent
    BY <1>2, <1>7 DEF Good, InProgress, Closed
  <2>2. /\ IsCall(e) /\ e.at = "idle" /\ e.outcome = "ok"
        /\ e.said = call[c].said /\ e.account = call[c].account /\ e.used = call[c].used
    BY <2>1 DEF IsCall
  <2>3. call' = [call EXCEPT ![c] = e]
    BY <1>7 DEF Closed, CallInv
  <2> HIDE DEF e
  <2>4. Good(e)
    BY <2>1, <2>2 DEF Good, OwnAccount, ToldRight, Silent
  <2>5. CallInv'
    BY <1>1, <2>3, <2>4, CallMoves
  <2> QED
    BY <1>7, <2>5
<1> QED
  BY <1>4, <1>5, <1>6, <1>7

LEMMA NextCallInv == CallInv /\ [Next]_vars => CallInv'
<1> SUFFICES ASSUME CallInv, [Next]_vars PROVE CallInv'
  OBVIOUS
<1>1. CASE Next
  BY <1>1, CallBegins, CallGoesOn, CallEnds DEF Next
<1>2. CASE UNCHANGED vars
  BY <1>2 DEF vars, CallInv
<1> QED
  BY <1>1, <1>2

LEMMA SpecCallInv == Spec => []CallInv
<1> QED
  BY InitCallInv, NextCallInv, PTL DEF Spec

\* For every set of envelopes and every interleaving of the tasks: an error of the
\* gateway reaches the caller for what it is, unless its own sealed object takes
\* it back; one beside a result that cannot be opened ends the call as unreadable;
\* and nothing else is told as an error of the gateway.
THEOREM ErrorsReachTheCaller == Spec => []ErrorsAreTold
<1>1. CallInv => ErrorsAreTold
  BY DEF CallInv, Good, ToldRight, ErrorsAreTold
<1> QED
  BY <1>1, SpecCallInv, PTL

\* However many tasks log in while it runs, a listing uses one account.
THEOREM ListingsSpeakForOneAccount == Spec => []OneAccountPerListing
<1>1. CallInv => OneAccountPerListing
  <2> SUFFICES ASSUME CallInv, NEW c \in Callers PROVE Cardinality(call[c].used) <= 1
    BY DEF OneAccountPerListing
  <2>1. call[c].used \subseteq {call[c].account}
    BY DEF CallInv, Good, OwnAccount
  <2>2. IsFiniteSet({call[c].account}) /\ Cardinality({call[c].account}) = 1
    BY FS_Singleton
  <2>3. Cardinality(call[c].used) <= Cardinality({call[c].account})
    BY <2>1, <2>2, FS_Subset
  <2> QED
    BY <2>2, <2>3
<1> QED
  BY <1>1, SpecCallInv, PTL
-----------------------------------------------------------------------------
\* The HTTP sessions.  As long as no two async_close overlapped, one task at most
\* is closing, and what it closes is still the session the gateway holds.
InTurn ==
  /\ (1 .. opened) \ closed \subseteq {session}
  /\ \A c \in Callers : call[c].at = "closing" => session \in closed
  /\ \A c, d \in Callers : call[c].at = "closing" /\ call[d].at = "closing" => c = d

SessionInv ==
  /\ opened \in Nat /\ closed \subseteq 1 .. opened /\ overlapped \in BOOLEAN
  /\ IF owns THEN session \in {NoSession} \cup 1 .. opened ELSE session = Given /\ opened = 0
  /\ \A c \in Callers : call[c].at = "closing" => owns
  /\ ~overlapped => InTurn

\* A step outside async_close opens a session only if there is none.
LEMMA ServedKeeps ==
  ASSUME SessionInv, NEW c \in Callers, Served(c), UNCHANGED <<owns, closed, overlapped>>
  PROVE  SessionInv'
<1>1. \A d \in Callers : call'[d].at = "closing" => d # c /\ call[d].at = "closing"
  BY DEF Served
<1>2. CASE UNCHANGED <<session, opened>>
  <2>1. InTurn => InTurn'
    BY <1>1, <1>2 DEF InTurn
  <2> QED
    BY <1>1, <1>2, <2>1 DEF SessionInv
<1>3. CASE session = NoSession /\ session \notin closed /\ session' = opened + 1 /\ opened' = opened + 1
  <2>1. owns /\ opened \in Nat /\ closed \subseteq 1 .. opened
    BY <1>3 DEF SessionInv, NoSession, Given
  <2>2. 1 .. opened' = (1 .. opened) \cup {opened + 1}
    BY <1>3, <2>1
  <2>3. InTurn => InTurn'
    <3> SUFFICES ASSUME InTurn PROVE InTurn'
      OBVIOUS
    <3>1. \A d \in Callers : call'[d].at # "closing"
      BY <1>1, <1>3 DEF InTurn
    <3>2. (1 .. opened) \ closed = {}
      BY <1>3 DEF InTurn, NoSession
    <3> QED
      BY <1>3, <2>2, <3>1, <3>2 DEF InTurn
  <2> QED
    BY <1>1, <1>3, <2>1, <2>2, <2>3 DEF SessionInv
<1> QED
  BY <1>2, <1>3 DEF Served

\* async_close up to its await, and its end.
LEMMA CloseKeeps ==
  ASSUME SessionInv, CallInv, NEW c \in Callers, Close(c)
  PROVE  SessionInv'
<1>1. /\ UNCHANGED <<owns, session, opened>>
      /\ \A d \in Callers \ {c} : call'[d] = call[d]
  BY DEF Close, End, CallInv
<1>2. CASE owns /\ session # NoSession
  <2>1. /\ closed' = closed \cup {session} /\ session \in 1 .. opened
        /\ overlapped' = (overlapped \/ \E d \in Callers : call[d].at = "closing")
    BY <1>2 DEF Close, SessionInv
  <2>2. InTurn /\ ~overlapped' => InTurn'
    BY <1>1, <2>1 DEF InTurn
  <2>3. overlapped' \in BOOLEAN /\ (~overlapped' => ~overlapped)
    BY <2>1 DEF SessionInv
  <2> QED
    BY <1>1, <1>2, <2>1, <2>2, <2>3 DEF SessionInv
<1>3. CASE ~(owns /\ session # NoSession)
  <2>1. /\ closed' = closed /\ overlapped' = overlapped
        /\ call' = [call EXCEPT ![c] = [Idle EXCEPT !.at = "idle", !.outcome = "ok"]]
    BY <1>3 DEF Close, End
  <2>2. call'[c] = [Idle EXCEPT !.at = "idle", !.outcome = "ok"]
    BY <2>1 DEF CallInv
  <2>3. call'[c].at = "idle"
    BY <2>2 DEF Idle
  <2>4. InTurn => InTurn'
    BY <1>1, <2>1, <2>3 DEF InTurn
  <2> QED
    BY <1>1, <2>1, <2>3, <2>4 DEF SessionInv
<1> QED
  BY <1>2, <1>3

LEMMA ClosedKeeps ==
  ASSUME SessionInv, CallInv, NEW c \in Callers, Closed(c)
  PROVE  SessionInv'
<1>1. /\ call[c].at = "closing" /\ owns
      /\ UNCHANGED <<owns, opened, closed, overlapped>> /\ session' = NoSession
  BY DEF Closed, SessionInv
<1>2. call' = [call EXCEPT ![c] = [call[c] EXCEPT !.at = "idle", !.outcome = "ok"]]
  BY DEF Closed, CallInv
<1>3. /\ call'[c].at = "idle" /\ \A d \in Callers \ {c} : call'[d] = call[d]
  <2>1. IsCall(call[c])
    BY DEF CallInv, Good
  <2>2. [call[c] EXCEPT !.at = "idle", !.outcome = "ok"].at = "idle"
    BY <2>1 DEF IsCall
  <2> QED
    BY <1>2, <2>2 DEF CallInv
<1>4. InTurn => InTurn'
  <2> SUFFICES ASSUME InTurn PROVE InTurn'
    OBVIOUS
  <2>1. \A d \in Callers : call'[d].at # "closing"
    BY <1>1, <1>3 DEF InTurn
  <2>2. (1 .. opened) \ closed = {}
    BY <1>1 DEF InTurn
  <2> QED
    BY <1>1, <2>1, <2>2 DEF InTurn
<1> QED
  BY <1>1, <1>3, <1>4 DEF SessionInv, NoSession

LEMMA InitSessionInv == Init => SessionInv
<1> SUFFICES ASSUME Init PROVE SessionInv
  OBVIOUS
<1>1. \A c \in Callers : call[c].at = "idle"
  BY DEF Init, Idle
<1>2. opened = 0 /\ closed = {} /\ 1 .. opened = {}
  BY DEF Init
<1>3. InTurn
  BY <1>1, <1>2 DEF InTurn
<1>4. /\ opened \in Nat /\ closed \subseteq 1 .. opened
      /\ \A c \in Callers : call[c].at = "closing" => owns
  BY <1>1, <1>2
<1>5. IF owns THEN session \in {NoSession} \cup 1 .. opened ELSE session = Given /\ opened = 0
  BY <1>2 DEF Init
<1>6. overlapped \in BOOLEAN
  BY DEF Init
<1> QED
  BY <1>3, <1>4, <1>5, <1>6 DEF SessionInv

LEMMA NextSessionInv ==
  ASSUME SessionInv, CallInv, [Next]_vars
  PROVE  SessionInv'
<1>1. ASSUME NEW c \in Callers, Login(c) \/ ListDevices(c) \/ TokenAnswered(c) \/ LoginAnswered(c)
                \/ HomesAnswered(c) \/ DevicesAnswered(c)
      PROVE  SessionInv'
  <2>1. UNCHANGED <<owns, closed, overlapped>>
    BY <1>1 DEF Login, ListDevices, TokenAnswered, LoginAnswered, HomesAnswered, DevicesAnswered
  <2> QED
    BY <1>1, <2>1, CallBegins, CallGoesOn, CloseKeeps, ServedKeeps
<1>2. ASSUME NEW c \in Callers, Rejected(c) \/ Malformed(c) \/ Unreachable(c) \/ NotText(c) \/ Cancelled(c)
      PROVE  SessionInv'
  <2>1. UNCHANGED <<owns, closed, overlapped>>
    BY <1>2 DEF Rejected, Malformed, Unreachable, NotText, Cancelled
  <2> QED
    BY <1>2, <2>1, CallEnds, ClosedKeeps, ServedKeeps
<1>3. CASE UNCHANGED vars
  BY <1>3 DEF vars, SessionInv, InTurn
<1> QED
  BY <1>1, <1>2, <1>3, CloseKeeps, ClosedKeeps DEF Next

\* For any number of tasks that post and close in any interleaving: until two
\* async_close overlap, every HTTP session the gateway opened is closed or still
\* in its hands; and the one it was given is never closed.
THEOREM SessionsAreClosedOrHeld == Spec => []SessionsAreReleased
<1>1. SessionInv => SessionsAreReleased
  BY DEF SessionInv, InTurn, SessionsAreReleased, Given
<1>2. SessionInv /\ CallInv /\ [Next]_vars => SessionInv'
  BY NextSessionInv
<1> QED
  BY <1>1, <1>2, InitSessionInv, SpecCallInv, PTL DEF Spec

-----------------------------------------------------------------------------
\* What a listing lists: its two folds.

IdentifiedStep(listed, h) == IF h.gid THEN Append(listed, h) ELSE listed
Identifying == INSTANCE Induction WITH Step <- IdentifiedStep

AddedStep(got, d) == IF d \in Pairable \ ToSet(got) THEN Append(got, d) ELSE got
Adding == INSTANCE Induction WITH Step <- AddedStep

LEMMA ToSetOfAppend ==
  ASSUME NEW R, NEW s \in Seq(R), NEW x \in R
  PROVE  ToSet(Append(s, x)) = ToSet(s) \cup {x}
<1>1. DOMAIN Append(s, x) = (1 .. Len(s)) \cup {Len(s) + 1} /\ DOMAIN s = 1 .. Len(s)
  OBVIOUS
<1>2. Append(s, x)[Len(s) + 1] = x /\ \A i \in 1 .. Len(s) : Append(s, x)[i] = s[i]
  OBVIOUS
<1> QED
  BY <1>1, <1>2, Zenon DEF ToSet

\* Exactly the homes with an id are gone through.
LEMMA IdentifiedFacts ==
  ASSUME NEW R, NEW s \in Seq(R), \A x \in R : x.gid \in BOOLEAN
  PROVE  /\ Identified(s) \in Seq(R)
         /\ ToSet(Identified(s)) = {s[i] : i \in {j \in DOMAIN s : s[j].gid}}
<1> DEFINE n == Len(s)
           Kept(k) == {s[i] : i \in {j \in 1 .. k : s[j].gid}}
           I == [k \in 0 .. n |-> {v \in Seq(R) : ToSet(v) = Kept(k)}]
<1>1. n \in Nat /\ DOMAIN s = 1 .. n /\ \A i \in 1 .. n : s[i] \in R
  OBVIOUS
<1>2. <<>> \in Seq(R) /\ \A v \in Seq(R), r \in R : IdentifiedStep(v, r) \in Seq(R)
  BY DEF IdentifiedStep
<1>3. <<>> \in I[0]
  <2>1. ToSet(<<>>) = {} /\ Kept(0) = {}
    BY DEF ToSet
  <2> QED
    BY <1>1, <2>1
<1>4. ASSUME NEW k \in 1 .. n, NEW v \in Seq(R) \cap I[k - 1]
      PROVE  IdentifiedStep(v, s[k]) \in I[k]
  <2>0. k \in 1 .. n /\ k - 1 \in 0 .. n /\ k \in 0 .. n
    BY <1>1
  <2>1. s[k] \in R /\ ToSet(v) = Kept(k - 1) /\ k \in 0 .. n
    <3>1. v \in I[k - 1]
      BY <1>4
    <3>2. I[k - 1] = {w \in Seq(R) : ToSet(w) = Kept(k - 1)}
      BY <2>0
    <3> HIDE DEF I, Kept
    <3> QED
      BY <1>1, <2>0, <3>1, <3>2
  <2>2. 1 .. k = (1 .. k - 1) \cup {k}
    BY <1>1
  <2>3. Kept(k) = Kept(k - 1) \cup (IF s[k].gid THEN {s[k]} ELSE {})
    BY <2>2, Zenon
  <2>4. ToSet(IdentifiedStep(v, s[k])) = ToSet(v) \cup (IF s[k].gid THEN {s[k]} ELSE {})
    BY <2>1, ToSetOfAppend DEF IdentifiedStep
  <2> HIDE DEF Kept
  <2> QED
    BY <1>2, <2>1, <2>3, <2>4
<1>5. Identifying!Fold(<<>>, s) \in Seq(R) \cap I[n]
  <2> HIDE DEF I
  <2> QED
    BY <1>2, <1>3, <1>4, Identifying!FoldInvariant
<1>6. Identified(s) = Identifying!Fold(<<>>, s)
  BY Zenon DEF Identified, IdentifiedStep, FoldLeft, MapThenFoldSet, Identifying!Fold,
               Identifying!FoldLeft, Identifying!MapThenFoldSet, Identifying!Max, Max
<1>7. Identified(s) \in Seq(R) /\ ToSet(Identified(s)) = Kept(n)
  BY <1>1, <1>5, <1>6
<1> QED
  BY <1>1, <1>7, Zenon

\* The devices of a home that can be paired join the listing, each once.
LEMMA AddedFacts ==
  ASSUME NEW R, NEW s \in Seq(R), NEW found \in Seq(R), IsInjective(found)
  PROVE  /\ Added(found, s) \in Seq(R) /\ IsInjective(Added(found, s))
         /\ ToSet(Added(found, s)) = ToSet(found) \cup (Pairable \cap ToSet(s))
<1> DEFINE n == Len(s)
           Kept(k) == ToSet(found) \cup (Pairable \cap {s[i] : i \in 1 .. k})
           I == [k \in 0 .. n |-> {v \in Seq(R) : ToSet(v) = Kept(k) /\ IsInjective(v)}]
<1>1. n \in Nat /\ DOMAIN s = 1 .. n /\ \A i \in 1 .. n : s[i] \in R
  OBVIOUS
<1>2. \A v \in Seq(R), r \in R : AddedStep(v, r) \in Seq(R)
  BY DEF AddedStep
<1>3. found \in I[0]
  <2>1. ToSet(found) = Kept(0)
    OBVIOUS
  <2> QED
    BY <1>1, <2>1
<1>4. ASSUME NEW k \in 1 .. n, NEW v \in Seq(R) \cap I[k - 1]
      PROVE  AddedStep(v, s[k]) \in I[k]
  <2>0. k \in 0 .. n /\ k - 1 \in 0 .. n
    BY <1>1
  <2>1. s[k] \in R /\ ToSet(v) = Kept(k - 1) /\ IsInjective(v) /\ k \in 0 .. n
    <3>1. v \in {w \in Seq(R) : ToSet(w) = Kept(k - 1) /\ IsInjective(w)}
      BY <2>0
    <3> HIDE DEF Kept, I
    <3> QED
      BY <1>1, <2>0, <3>1
  <2>2. 1 .. k = (1 .. k - 1) \cup {k}
    BY <1>1
  <2>3. Kept(k) = Kept(k - 1) \cup (Pairable \cap {s[k]})
    BY <2>2, Zenon
  <2>4. ToSet(AddedStep(v, s[k])) = ToSet(v) \cup (Pairable \cap {s[k]})
    BY <2>1, ToSetOfAppend DEF AddedStep
  <2>5. IsInjective(AddedStep(v, s[k]))
    <3>1. CASE s[k] \in Pairable \ ToSet(v)
      <4>1. \A i \in DOMAIN v : v[i] # s[k]
        BY <3>1 DEF ToSet
      <4> QED
        BY <2>1, <3>1, <4>1 DEF AddedStep, IsInjective
    <3>2. CASE s[k] \notin Pairable \ ToSet(v)
      BY <2>1, <3>2 DEF AddedStep
    <3> QED
      BY <3>1, <3>2
  <2> HIDE DEF Kept
  <2> QED
    BY <1>2, <2>1, <2>3, <2>4, <2>5
<1>5. Adding!Fold(found, s) \in Seq(R) \cap I[n]
  <2> HIDE DEF I
  <2> QED
    BY <1>2, <1>3, <1>4, Adding!FoldInvariant
<1>6. Added(found, s) = Adding!Fold(found, s)
  BY Zenon DEF Added, AddedStep, FoldLeft, MapThenFoldSet, Adding!Fold,
               Adding!FoldLeft, Adding!MapThenFoldSet, Adding!Max, Max
<1>7. /\ Added(found, s) \in Seq(R) /\ ToSet(Added(found, s)) = Kept(n)
      /\ IsInjective(Added(found, s))
  BY <1>1, <1>5, <1>6
<1>8. Kept(n) = ToSet(found) \cup (Pairable \cap ToSet(s))
  BY <1>1 DEF ToSet
<1> QED
  BY <1>7, <1>8

-----------------------------------------------------------------------------
\* How far each listing has come: what it found, with what the homes it has
\* still to ask for hold, is what it has to return.

HomeRecords   == [gid : BOOLEAN, devices : Seq(DeviceRecords)]
DevicesOf(hs) == UNION {ToSet(hs[i].devices) : i \in DOMAIN hs}
Wanted(hs) ==
  Pairable \cap UNION {ToSet(hs[i].devices) : i \in {j \in DOMAIN hs : hs[j].gid}}

\* A record that may become the record of a call.
Sound(r) ==
  /\ IsCall(r) /\ r.outcome \in Outcomes
  /\ r.found \in Seq(DeviceRecords) /\ IsInjective(r.found) /\ r.left \in Seq(HomeRecords)

Remaining(r, hs) == ToSet(r.found) \cup (Pairable \cap DevicesOf(r.left)) = Wanted(hs)

Progress(r, hs) ==
  /\ Sound(r)
  /\ r.at # "idle" => r.outcome = "none"
  /\ r.at \in {"token", "login", "homes"} => r.found = <<>>
  /\ r.at = "devices" => r.left # <<>> /\ Remaining(r, hs)
  /\ r.at = "closing" => ~r.list
  /\ r.at = "idle" /\ r.list /\ r.outcome = "ok" => ToSet(r.found) = Wanted(hs)

ListingInv == homes \in Seq(HomeRecords) /\ \A c \in Callers : Progress(call[c], homes)

\* A call that ends well ends with everything.
LEMMA EndProgresses ==
  ASSUME CallInv, NEW c \in Callers, NEW r, Sound(r), NEW o \in Outcomes, End(c, r, o),
         r.list /\ o = "ok" => ToSet(r.found) = Wanted(homes)
  PROVE  Progress(call'[c], homes)
<1> DEFINE e == [r EXCEPT !.at = "idle", !.outcome = o]
<1>1. /\ IsCall(e) /\ e.at = "idle" /\ e.outcome = o /\ e.list = r.list
      /\ e.found = r.found /\ e.left = r.left
  BY DEF Sound, IsCall
<1>2. call'[c] = e
  BY DEF End, CallInv
<1> HIDE DEF e
<1> QED
  BY <1>1, <1>2 DEF Progress, Sound

LEMMA PostProgresses ==
  ASSUME CallInv, NEW c \in Callers, NEW r, Progress(r, homes), r.at \in Posts, Post(c, r)
  PROVE  Progress(call'[c], homes)
<1>1. CASE session \in closed
  BY <1>1, EndProgresses DEF Post, Progress, Outcomes
<1>2. CASE session \notin closed
  <2> DEFINE e == [r EXCEPT !.used = @ \cup ({r.account} \ {NoAccount})]
  <2>1. /\ IsCall(e) /\ e.at = r.at /\ e.outcome = r.outcome /\ e.list = r.list
        /\ e.found = r.found /\ e.left = r.left
    BY DEF Progress, Sound, IsCall
  <2>2. call'[c] = e
    BY <1>2 DEF Post, CallInv
  <2> HIDE DEF e
  <2> QED
    BY <2>1, <2>2 DEF Progress, Sound, Remaining
<1> QED
  BY <1>1, <1>2

\* The next home of a listing, or its end.
LEMMA ListHomesProgresses ==
  ASSUME CallInv, NEW c \in Callers, NEW r, Sound(r), r.outcome = "none", Remaining(r, homes),
         ListHomes(c, r)
  PROVE  Progress(call'[c], homes)
<1>1. CASE r.left = <<>>
  <2>1. DevicesOf(r.left) = {}
    BY <1>1 DEF DevicesOf
  <2>2. ToSet(r.found) = Wanted(homes)
    BY <2>1 DEF Remaining
  <2> QED
    BY <1>1, <2>2, EndProgresses DEF ListHomes, Outcomes
<1>2. CASE r.left # <<>>
  <2> DEFINE e == [r EXCEPT !.at = "devices"]
  <2>1. /\ IsCall(e) /\ e.at = "devices" /\ e.outcome = r.outcome /\ e.list = r.list
        /\ e.found = r.found /\ e.left = r.left
    BY DEF Sound, IsCall
  <2>2. Post(c, e)
    BY <1>2 DEF ListHomes
  <2> HIDE DEF e
  <2>3. Progress(e, homes) /\ e.at \in Posts
    BY <1>2, <2>1 DEF Progress, Sound, Remaining, Posts
  <2> QED
    BY <2>2, <2>3, PostProgresses
<1> QED
  BY <1>1, <1>2

\* What an answer leaves of a call it does not end.
LEMMA ToldProgresses ==
  ASSUME ListingInv, NEW c \in Callers, NEW verdicts, NEW r \in Told(c, verdicts)
  PROVE  /\ Progress(r, homes) /\ Sound(r)
         /\ r.at = call[c].at /\ r.list = call[c].list
<1>1. PICK b : r = [call[c] EXCEPT !.said = IF b.said = "nothing" THEN @ ELSE b.said]
  BY DEF Told
<1>2. Progress(call[c], homes)
  BY DEF ListingInv
<1>3. /\ IsCall(r) /\ r.at = call[c].at /\ r.outcome = call[c].outcome
      /\ r.list = call[c].list /\ r.found = call[c].found /\ r.left = call[c].left
  BY <1>1, <1>2 DEF Progress, Sound, IsCall
<1> QED
  BY <1>2, <1>3 DEF Progress, Sound, Remaining

\* The steps that begin a call: nothing is found yet.
LEMMA BeginProgresses ==
  ASSUME CallInv, ListingInv, NEW c \in Callers, Login(c) \/ ListDevices(c) \/ Close(c)
  PROVE  Progress(call'[c], homes)
<1>1. Sound(Idle) /\ Idle.found = <<>> /\ Idle.left = <<>> /\ ~Idle.list
  BY DEF Idle, Sound, IsCall, Outcomes, IsInjective
<1>2. ASSUME NEW r, IsCall(r), r.at \in {"token", "homes"}, r.outcome = "none",
             r.found = <<>>, r.left = <<>>
      PROVE  Progress(r, homes)
  BY <1>2 DEF Progress, Sound, Outcomes, IsInjective
<1>3. CASE Login(c)
  <2> DEFINE r == [Idle EXCEPT !.at = "token"]
  <2>1. IsCall(r) /\ r.at = "token" /\ r.outcome = "none" /\ r.found = <<>> /\ r.left = <<>>
    BY DEF Idle, IsCall
  <2>2. Post(c, r)
    BY <1>3 DEF Login
  <2> HIDE DEF r
  <2> QED
    BY <1>2, <2>1, <2>2, PostProgresses DEF Posts
<1>4. CASE ListDevices(c)
  <2>1. PICK r \in {[Idle EXCEPT !.at = "token", !.list = TRUE],
                    [Idle EXCEPT !.at = "homes", !.list = TRUE, !.account = account]} : Post(c, r)
    BY <1>4 DEF ListDevices
  <2>2. /\ IsCall(r) /\ r.at \in {"token", "homes"} /\ r.outcome = "none"
        /\ r.found = <<>> /\ r.left = <<>>
    BY DEF Idle, IsCall
  <2> QED
    BY <1>2, <2>1, <2>2, PostProgresses DEF Posts
<1>5. CASE Close(c)
  <2>1. CASE owns /\ session # NoSession
    <3> DEFINE r == [Idle EXCEPT !.at = "closing"]
    <3>1. /\ IsCall(r) /\ r.at = "closing" /\ ~r.list /\ r.outcome = "none"
          /\ r.found = <<>> /\ r.left = <<>>
      BY DEF Idle, IsCall
    <3>2. call'[c] = r
      BY <1>5, <2>1 DEF Close, CallInv
    <3> HIDE DEF r
    <3>3. Sound(r)
      BY <1>1, <3>1 DEF Sound, Outcomes
    <3> QED
      BY <3>1, <3>2, <3>3 DEF Progress
  <2>2. CASE ~(owns /\ session # NoSession)
    BY <1>1, <1>5, <2>2, EndProgresses DEF Close, Outcomes
  <2> QED
    BY <2>1, <2>2
<1> QED
  BY <1>3, <1>4, <1>5

\* The answers a call goes on from.
LEMMA AnswerProgresses ==
  ASSUME CallInv, ListingInv, NEW c \in Callers,
         TokenAnswered(c) \/ LoginAnswered(c) \/ HomesAnswered(c) \/ DevicesAnswered(c)
  PROVE  Progress(call'[c], homes)
<1>1. CASE TokenAnswered(c)
  <2>1. PICK r \in Told(c, {"object"}) :
          Post(c, [r EXCEPT !.at = "login"]) \/ End(c, r, "value_error")
    BY <1>1 DEF TokenAnswered
  <2>2. Progress(r, homes) /\ Sound(r) /\ r.at = "token"
    BY <1>1, ToldProgresses DEF TokenAnswered
  <2>3. CASE Post(c, [r EXCEPT !.at = "login"])
    <3> DEFINE e == [r EXCEPT !.at = "login"]
    <3>1. /\ IsCall(e) /\ e.at = "login" /\ e.outcome = r.outcome /\ e.list = r.list
          /\ e.found = r.found /\ e.left = r.left
      BY <2>2 DEF Sound, IsCall
    <3>2. Post(c, e)
      BY <2>3
    <3> HIDE DEF e
    <3>3. Progress(e, homes) /\ e.at \in Posts
      BY <2>2, <3>1 DEF Progress, Sound, Posts
    <3> QED
      BY <3>2, <3>3, PostProgresses
  <2>4. CASE End(c, r, "value_error")
    BY <2>2, <2>4, EndProgresses DEF Outcomes
  <2> QED
    BY <2>1, <2>3, <2>4
<1>2. CASE LoginAnswered(c)
  <2>1. PICK r \in Told(c, {"object"}) :
          IF r.list THEN Post(c, [r EXCEPT !.at = "homes", !.account = logins + 1])
          ELSE End(c, r, "ok")
    BY <1>2 DEF LoginAnswered
  <2>2. Progress(r, homes) /\ Sound(r) /\ r.at = "login"
    BY <1>2, ToldProgresses DEF LoginAnswered
  <2>3. CASE r.list
    <3> DEFINE e == [r EXCEPT !.at = "homes", !.account = logins + 1]
    <3>1. /\ IsCall(e) /\ e.at = "homes" /\ e.outcome = r.outcome /\ e.list = r.list
          /\ e.found = r.found /\ e.left = r.left
      BY <2>2 DEF Sound, IsCall
    <3>2. Post(c, e)
      BY <2>1, <2>3
    <3> HIDE DEF e
    <3>3. Progress(e, homes) /\ e.at \in Posts
      BY <2>2, <3>1 DEF Progress, Sound, Posts
    <3> QED
      BY <3>2, <3>3, PostProgresses
  <2>4. CASE ~r.list
    BY <2>1, <2>2, <2>4, EndProgresses DEF Outcomes
  <2> QED
    BY <2>3, <2>4
<1>3. CASE HomesAnswered(c)
  <2>1. PICK r \in Told(c, {"list"}) : ListHomes(c, [r EXCEPT !.left = Identified(homes)])
    BY <1>3 DEF HomesAnswered
  <2>2. Progress(r, homes) /\ Sound(r) /\ r.at = "homes"
    BY <1>3, ToldProgresses DEF HomesAnswered
  <2> DEFINE left == Identified(homes)
  <2>3. /\ left \in Seq(HomeRecords)
        /\ ToSet(left) = {homes[i] : i \in {j \in DOMAIN homes : homes[j].gid}}
    <3>1. homes \in Seq(HomeRecords) /\ \A x \in HomeRecords : x.gid \in BOOLEAN
      BY DEF ListingInv, HomeRecords
    <3> QED
      BY <3>1, IdentifiedFacts
  <2> HIDE DEF left
  <2> DEFINE e == [r EXCEPT !.left = left]
  <2>4. /\ IsCall(e) /\ e.outcome = r.outcome /\ e.found = r.found /\ e.left = left
    BY <2>2 DEF Sound, IsCall
  <2>5. ListHomes(c, e)
    BY <2>1 DEF left
  <2> HIDE DEF e
  <2>6. DevicesOf(left)
          = UNION {ToSet(homes[i].devices) : i \in {j \in DOMAIN homes : homes[j].gid}}
    <3>1. {left[i] : i \in DOMAIN left} = {homes[i] : i \in {j \in DOMAIN homes : homes[j].gid}}
      BY <2>3 DEF ToSet
    <3>2. {ToSet(left[i].devices) : i \in DOMAIN left}
            = {ToSet(homes[i].devices) : i \in {j \in DOMAIN homes : homes[j].gid}}
      <4>1. ASSUME NEW i \in DOMAIN left
            PROVE  \E j \in {j \in DOMAIN homes : homes[j].gid} : left[i] = homes[j]
        BY <3>1
      <4>2. ASSUME NEW j \in {j \in DOMAIN homes : homes[j].gid}
            PROVE  \E i \in DOMAIN left : left[i] = homes[j]
        BY <3>1
      <4> QED
        BY <4>1, <4>2
    <3> QED
      BY <3>2 DEF DevicesOf
  <2>7. e.found = <<>>
    BY <2>2, <2>4 DEF Progress
  <2>8. Remaining(e, homes)
    BY <2>4, <2>6, <2>7 DEF Remaining, Wanted, ToSet
  <2>9. Sound(e) /\ e.outcome = "none"
    BY <2>2, <2>3, <2>4 DEF Sound, Progress
  <2> QED
    BY <2>5, <2>8, <2>9, ListHomesProgresses
<1>4. CASE DevicesAnswered(c)
  <2>1. PICK r \in Told(c, {"list"}) : ListHomes(c, WithDevices(r))
    BY <1>4 DEF DevicesAnswered
  <2>2. Progress(r, homes) /\ Sound(r) /\ r.at = "devices"
    BY <1>4, ToldProgresses DEF DevicesAnswered
  <2>3. /\ r.left \in Seq(HomeRecords) /\ r.left # <<>> /\ Remaining(r, homes)
        /\ r.found \in Seq(DeviceRecords) /\ IsInjective(r.found)
    BY <2>2 DEF Progress, Sound
  <2> DEFINE head  == Head(r.left)
             found == Added(r.found, head.devices)
             e     == WithDevices(r)
  <2>4. head \in HomeRecords /\ Tail(r.left) \in Seq(HomeRecords)
    BY <2>3
  <2>5. head.devices \in Seq(DeviceRecords)
    BY <2>4 DEF HomeRecords
  <2>6. /\ found \in Seq(DeviceRecords) /\ IsInjective(found)
        /\ ToSet(found) = ToSet(r.found) \cup (Pairable \cap ToSet(head.devices))
    <3> HIDE DEF head
    <3> QED
      BY <2>3, <2>5, AddedFacts
  <2>7. IsCall(e) /\ e.outcome = r.outcome /\ e.found = found /\ e.left = Tail(r.left)
    BY <2>2 DEF Sound, IsCall, WithDevices
  <2>8. DevicesOf(r.left) = ToSet(head.devices) \cup DevicesOf(Tail(r.left))
    <3>1. 1 \in DOMAIN r.left /\ r.left[1] = head
      BY <2>3
    <3>2. \A i \in DOMAIN Tail(r.left) : i + 1 \in DOMAIN r.left /\ Tail(r.left)[i] = r.left[i + 1]
      BY <2>3
    <3>3. ASSUME NEW i \in DOMAIN r.left, i # 1
          PROVE  i - 1 \in DOMAIN Tail(r.left) /\ Tail(r.left)[i - 1] = r.left[i]
      <4>1. DOMAIN r.left = 1 .. Len(r.left) /\ DOMAIN Tail(r.left) = 1 .. (Len(r.left) - 1)
        BY <2>3
      <4>2. i - 1 \in DOMAIN Tail(r.left) /\ (i - 1) + 1 = i
        BY <2>3, <3>3, <4>1
      <4> QED
        BY <3>2, <4>2
    <3> HIDE DEF head
    <3>4. ASSUME NEW x \in DevicesOf(r.left)
          PROVE  x \in ToSet(head.devices) \cup DevicesOf(Tail(r.left))
      <4>1. PICK i \in DOMAIN r.left : x \in ToSet(r.left[i].devices)
        BY <3>4 DEF DevicesOf
      <4>2. CASE i = 1
        BY <3>1, <4>1, <4>2
      <4>3. CASE i # 1
        BY <3>3, <4>1, <4>3 DEF DevicesOf
      <4> QED
        BY <4>2, <4>3
    <3>5. ASSUME NEW x \in ToSet(head.devices) \cup DevicesOf(Tail(r.left))
          PROVE  x \in DevicesOf(r.left)
      <4>1. CASE x \in ToSet(head.devices)
        BY <3>1, <4>1, Zenon DEF DevicesOf
      <4>2. CASE x \in DevicesOf(Tail(r.left))
        <5>1. PICK i \in DOMAIN Tail(r.left) : x \in ToSet(Tail(r.left)[i].devices)
          BY <4>2 DEF DevicesOf
        <5>2. i + 1 \in DOMAIN r.left /\ x \in ToSet(r.left[i + 1].devices)
          BY <3>2, <5>1
        <5> QED
          BY <5>2, Zenon DEF DevicesOf
      <4> QED
        BY <3>5, <4>1, <4>2
    <3> QED
      BY <3>4, <3>5
  <2> HIDE DEF head, found, e
  <2>9. Sound(e) /\ e.outcome = "none"
    BY <2>2, <2>4, <2>6, <2>7 DEF Sound, Progress
  <2>10. Remaining(e, homes)
    BY <2>3, <2>6, <2>7, <2>8 DEF Remaining
  <2>11. ListHomes(c, e)
    BY <2>1 DEF e
  <2> QED
    BY <2>9, <2>10, <2>11, ListHomesProgresses
<1> QED
  BY <1>1, <1>2, <1>3, <1>4

\* The ways a post fails, and the end of async_close.
LEMMA EndingProgresses ==
  ASSUME CallInv, ListingInv, NEW c \in Callers,
         Rejected(c) \/ Malformed(c) \/ Unreachable(c) \/ NotText(c) \/ Cancelled(c) \/ Closed(c)
  PROVE  Progress(call'[c], homes)
<1>1. Progress(call[c], homes) /\ Sound(call[c])
  BY DEF ListingInv, Progress
<1>2. CASE Rejected(c)
  <2>1. PICK r : /\ \E verdicts : r \in Told(c, verdicts)
                 /\ End(c, r, "authentication") \/ End(c, r, "cloud")
    BY <1>2 DEF Rejected
  <2> QED
    BY <2>1, ToldProgresses, EndProgresses DEF Outcomes
<1>3. CASE Malformed(c)
  <2>1. PICK r : End(c, r, "protocol") /\ \E verdicts : r \in Told(c, verdicts)
    BY <1>3 DEF Malformed
  <2> QED
    BY <2>1, ToldProgresses, EndProgresses DEF Outcomes
<1>4. CASE Unreachable(c) \/ NotText(c) \/ Cancelled(c)
  BY <1>1, <1>4, EndProgresses DEF Unreachable, NotText, Cancelled, Outcomes
<1>5. CASE Closed(c)
  <2> DEFINE e == [call[c] EXCEPT !.at = "idle", !.outcome = "ok"]
  <2>1. /\ IsCall(e) /\ e.at = "idle" /\ e.outcome = "ok" /\ e.list = call[c].list
        /\ e.found = call[c].found /\ e.left = call[c].left
    BY <1>1 DEF Sound, IsCall
  <2>2. call'[c] = e
    BY <1>5 DEF Closed, CallInv
  <2>3. ~call[c].list
    BY <1>1, <1>5 DEF Closed, Progress
  <2> HIDE DEF e
  <2> QED
    BY <1>1, <2>1, <2>2, <2>3 DEF Progress, Sound, Outcomes
<1> QED
  BY <1>2, <1>3, <1>4, <1>5

LEMMA InitListingInv == Init => ListingInv
<1> SUFFICES ASSUME Init PROVE ListingInv
  OBVIOUS
<1>1. homes \in Seq(HomeRecords)
  BY AccountsAssumption DEF Init, HomeRecords
<1>2. Progress(Idle, homes)
  BY DEF Idle, Progress, Sound, IsCall, Outcomes, IsInjective
<1>3. \A c \in Callers : call[c] = Idle
  BY DEF Init
<1> QED
  BY <1>1, <1>2, <1>3 DEF ListingInv

LEMMA NextListingInv == CallInv /\ ListingInv /\ [Next]_vars => ListingInv'
<1> SUFFICES ASSUME CallInv, ListingInv, [Next]_vars PROVE ListingInv'
  OBVIOUS
<1>1. ASSUME NEW c \in Callers, Progress(call'[c], homes), homes' = homes,
             \A d \in Callers \ {c} : call'[d] = call[d]
      PROVE  ListingInv'
  BY <1>1 DEF ListingInv
<1>2. ASSUME NEW c \in Callers, Login(c) \/ ListDevices(c) \/ Close(c)
      PROVE  ListingInv'
  <2>1. homes' = homes
    BY <1>2 DEF Login, ListDevices, Close
  <2>2. \A d \in Callers \ {c} : call'[d] = call[d]
    BY <1>2, CallBegins DEF Close, End, CallInv, Served
  <2> QED
    BY <1>1, <1>2, <2>1, <2>2, BeginProgresses
<1>3. ASSUME NEW c \in Callers,
             TokenAnswered(c) \/ LoginAnswered(c) \/ HomesAnswered(c) \/ DevicesAnswered(c)
      PROVE  ListingInv'
  <2>1. homes' = homes
    BY <1>3 DEF TokenAnswered, LoginAnswered, HomesAnswered, DevicesAnswered
  <2>2. \A d \in Callers \ {c} : call'[d] = call[d]
    BY <1>3, CallGoesOn DEF Served
  <2> QED
    BY <1>1, <1>3, <2>1, <2>2, AnswerProgresses
<1>4. ASSUME NEW c \in Callers,
             Rejected(c) \/ Malformed(c) \/ Unreachable(c) \/ NotText(c) \/ Cancelled(c) \/ Closed(c)
      PROVE  ListingInv'
  <2>1. homes' = homes
    BY <1>4 DEF Rejected, Malformed, Unreachable, NotText, Cancelled, Closed
  <2>2. \A d \in Callers \ {c} : call'[d] = call[d]
    BY <1>4, CallEnds DEF Closed, CallInv, Served
  <2> QED
    BY <1>1, <1>4, <2>1, <2>2, EndingProgresses
<1>5. CASE UNCHANGED vars
  BY <1>5 DEF vars, ListingInv
<1> QED
  BY <1>2, <1>3, <1>4, <1>5 DEF Next

LEMMA SpecListingInv == Spec => []ListingInv
<1> QED
  BY SpecCallInv, InitListingInv, NextListingInv, PTL DEF Spec

\* For every account and every interleaving of the tasks, a listing that returns
\* names every device that can be paired in a home with an id, and none twice.
THEOREM ListingsAreComplete == Spec => []ListingIsComplete
<1>1. CallInv /\ ListingInv => ListingIsComplete
  <2> SUFFICES ASSUME CallInv, ListingInv, NEW c \in Callers,
                      call[c].list, call[c].outcome = "ok"
               PROVE  ToSet(call[c].found) = Wanted(homes) /\ IsInjective(call[c].found)
    BY DEF ListingIsComplete, Wanted
  <2>1. Progress(call[c], homes)
    BY DEF ListingInv
  <2>2. call[c].at = "idle"
    BY <2>1 DEF Progress
  <2> QED
    BY <2>1, <2>2 DEF Progress, Sound
<1> QED
  BY <1>1, SpecCallInv, SpecListingInv, PTL
=============================================================================

---------------------------- MODULE ReadContract ----------------------------
(***************************************************************************)
(* What TuyaBleClient.async_read_data_points promises its caller, without  *)
(* frames, keys, queues or tasks: a read holds at most one connection,     *)
(* climbs the steps of the protocol in order, ends with an outcome the     *)
(* step it reached allows, and lets go of the connection before it returns *)
(* to the caller.                                                          *)
(***************************************************************************)
EXTENDS Naturals

CONSTANT Reports    \* everything a device may report

VARIABLES
  phase,      \* "idle", "reading" or "releasing"
  holding,    \* whether the read holds a connection
  level,      \* 0 nothing, 1 session key, 2 paired, 3 status acknowledged
  result,     \* what the read has gathered, then what it returned
  outcome     \* how the last read ended

contractVars == <<phase, holding, level, result, outcome>>

\* The outcomes a read may have at each level.  Running out of time and being
\* cancelled are possible anywhere; the others say what the device did.
Allowed ==
  {"connection", "cancelled"}
    \cup (IF level = 0 /\ holding THEN {"handshake_timeout", "protocol"} ELSE {})
    \cup (IF level = 1 THEN {"authentication", "protocol"} ELSE {})
    \cup (IF level = 3 THEN {"ok"} ELSE {})

Init == /\ phase = "idle" /\ holding = FALSE /\ level = 0
        /\ result = {} /\ outcome = "none"

Start == /\ phase = "idle"
         /\ phase' = "reading" /\ result' = {} /\ outcome' = "none"
         /\ UNCHANGED <<holding, level>>

Acquire == /\ phase = "reading" /\ ~holding
           /\ holding' = TRUE
           /\ UNCHANGED <<phase, level, result, outcome>>

Climb == /\ phase = "reading" /\ holding /\ level < 3
         /\ level' = level + 1
         /\ result' \in (IF level = 2 THEN SUBSET Reports ELSE {result})
         /\ UNCHANGED <<phase, holding, outcome>>

Gather == /\ phase = "reading" /\ level = 3
          /\ result' \in SUBSET Reports /\ result \subseteq result'
          /\ UNCHANGED <<phase, holding, level, outcome>>

Finish == /\ phase = "reading"
          /\ phase' = IF holding THEN "releasing" ELSE "idle"
          /\ outcome' \in Allowed
          /\ level' = 0
          /\ result' = IF outcome' = "ok" THEN result ELSE {}
          /\ UNCHANGED holding

Release == /\ phase = "releasing"
           /\ phase' = "idle" /\ holding' = FALSE
           /\ outcome' \in {outcome, "cancelled"}
           /\ result' = IF outcome' = "ok" THEN result ELSE {}
           /\ UNCHANGED level

Next == Start \/ Acquire \/ Climb \/ Gather \/ Finish \/ Release

Spec == Init /\ [][Next]_contractVars
=============================================================================

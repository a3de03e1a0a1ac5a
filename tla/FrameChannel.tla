---------------------------- MODULE FrameChannel ----------------------------
(***************************************************************************)
(* What the fragments of Reassembler promise to the layer above: frames    *)
(* arrive in the order they were sent, none twice, and some not at all.    *)
(* One that lost a part on the way arrives only if it had no checksum.     *)
(***************************************************************************)
EXTENDS Naturals, Sequences

CONSTANT Unprotected   \* frames that carry no checksum

VARIABLES
  sent,      \* frames 1 .. sent were sent
  broken,    \* those that lost a part
  accepted   \* those that arrived, in order

Last == IF accepted = <<>> THEN 0 ELSE accepted[Len(accepted)]

Init == sent = 0 /\ broken = {} /\ accepted = <<>>

Send == sent' = sent + 1 /\ UNCHANGED <<broken, accepted>>

Break == /\ \E f \in (Last + 1) .. sent \cup (Unprotected \cap 1 .. sent) : broken' = broken \cup {f}
         /\ UNCHANGED <<sent, accepted>>

Deliver == /\ \E f \in ((Last + 1) .. sent) \ (broken \ Unprotected) : accepted' = Append(accepted, f)
           /\ UNCHANGED <<sent, broken>>

Spec == Init /\ [][Send \/ Break \/ Deliver]_<<sent, broken, accepted>>
=============================================================================

--------------------------- MODULE MCSharedClient ---------------------------
(* Two tasks and three reads: the third can start in the middle of a second. *)
EXTENDS SharedClient

CONSTANTS a, b
TwoTasks == {a, b}
=============================================================================

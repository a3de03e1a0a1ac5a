-------------------------- MODULE MCTuyaBleClient --------------------------
(* Small instances of TuyaBleClient for TLC. *)
EXTENDS TuyaBleClient

\* The one version the SDK names as supported, and one whose shift overflows.
SupportedVersions == {3}
AnyVersion        == {3, 16}

\* An empty report takes the path of a clock request: answered, nothing queued.
EveryPush  == {"report", "bad_report", "clock"}
NoPush     == {}

EitherWay == BOOLEAN
=============================================================================

------------------------ MODULE MCTuyaBleCloudClient ------------------------
(* Two tasks on one client, and accounts with a home without an id, a device *)
(* two homes share and one that cannot be paired.                            *)
EXTENDS TuyaBleCloudClient

CONSTANTS lister, other, sensor, lamp, socket

TwoCallers == {lister, other}

BleDevices == {sensor, lamp}

Home(id, devices) == [gid |-> id, devices |-> devices]
SharedHomes ==
  {<<>>,
   <<Home(TRUE, <<lamp, socket>>), Home(FALSE, <<>>), Home(TRUE, <<lamp, sensor>>)>>}

\* Every envelope.
AllAnswers == Envelopes \cup {NotAnObject}
=============================================================================

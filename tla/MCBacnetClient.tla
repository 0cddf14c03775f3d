--------------------------- MODULE MCBacnetClient ---------------------------
(* Instances of BacnetClient for TLC. *)
EXTENDS BacnetClient, TLC

\* Every device has an IP of its own.
OwnIPs == [d \in Devices |-> d]

\* All devices are ports of one host.
SharedIP == [d \in Devices |-> "host"]

Write == {"WriteProperty"}
ReadAndWrite == {"ReadProperty", "WriteProperty"}
AckOnly == {"ack"}
AckOrReject == {"ack", "reject"}

Symmetry == Permutations(Callers) \cup Permutations(Devices)
=============================================================================

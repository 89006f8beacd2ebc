----------------------------- MODULE MCTopology -----------------------------
(***************************************************************************)
(* Two relays that carry the same name and a duplex node.                  *)
(***************************************************************************)
EXTENDS Topology

MixedNodes == {"enc1", "enc2", "udp"}
MixedKind == [enc1 |-> "relay", enc2 |-> "relay", udp |-> "duplex"]
MixedName == [enc1 |-> "encoder", enc2 |-> "encoder", udp |-> "UDP"]
=============================================================================

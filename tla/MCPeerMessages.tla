---------------------------- MODULE MCPeerMessages ----------------------------
(* Instances of PeerMessages for TLC.                                       *)
EXTENDS PeerMessages

CONSTANTS m1, m2

TwoMessages == {m1, m2}
Lossless == {}
Rollback == {"rollback"}
Transitions == {"wakeInTransition"}
=============================================================================

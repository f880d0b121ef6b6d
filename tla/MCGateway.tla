---------------------------- MODULE MCGateway ----------------------------
(* Small instances of the gateway for TLC. *)
EXTENDS Gateway, TLC

CONSTANTS s1, c1, c2

OneSession  == {s1}
OneConn  == {c1}
TwoConns == {c1, c2}

AllPayloads  == PayloadKinds
OnlyHeartbeat == {Heartbeat}
ClockZero == {0}
TwoClocks == {0, 2}

ConnSymmetry == Permutations(TwoConns)
============================================================================

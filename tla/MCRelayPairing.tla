-------------------------- MODULE MCRelayPairing --------------------------
(***************************************************************************)
(* An instance of RelayPairing for TLC.  All clients have the address b;   *)
(* all but c1 are websocket clients whose address was rewritten from a     *)
(* header, so that they share the USAGE key "b:0".  Three connections that *)
(* may ask for one session are a pair and one that interferes.             *)
(***************************************************************************)
EXTENDS RelayPairing

CONSTANTS c1, c2, c3, u1, b

MCConn == {c1, c2, c3}
MCUuid == {u1}
MCIp == {b}
MCWs == {c2, c3}
MCIpOf == [c \in Conn |-> b]
MCUsageId == [c \in Conn |-> IF c = c1 THEN "b:4711" ELSE "b:0"]
=============================================================================

-------------------------- MODULE MCPeerHeartbeat --------------------------
(* An instance of PeerHeartbeat for TLC: the UDP loop and one other task;  *)
(* two addresses elsewhere and one on hbbs's own machine.                  *)
EXTENDS PeerHeartbeat, TLC

CONSTANTS udp, tcp, r1, r2, r3, m1, k1, i1, i2, i3

MCWorker == {udp, tcp}
MCRef == {r1, r2, r3}
MCUuid == {m1}
MCPk == {k1}
MCIp == {i1, i2, i3}
MCLoopback == {i3}
MCMachine == [uuid |-> m1, pk |-> k1]
MCTraffic ==
    {[tasks |-> MCWorker, ips |-> MCIp,
      pks |-> [uuid : {m1}, pk : {k1}, ip : MCIp, ws : {FALSE}]]}
=============================================================================

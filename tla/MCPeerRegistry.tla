--------------------------- MODULE MCPeerRegistry ---------------------------
(***************************************************************************)
(* An instance of PeerRegistry and IpBlocker for TLC.  Machine m1 owns the *)
(* id; machine m2 wants the same id.  Either one task alone is sent every  *)
(* message with two keys and two addresses, one of them a loopback one, or *)
(* two tasks are sent a few that come from one network: those of m1, which *)
(* changes its key, and one of m2.  Tasks differ in nothing but their      *)
(* names, so they are symmetric.                                           *)
(*                                                                         *)
(* check_ip_blocker stands before all of that and shares no state with it: *)
(* in one more scene (NoTraffic) no task does anything, and requests of    *)
(* one address pass through the blocker alone.                             *)
(***************************************************************************)
EXTENDS PeerRegistry, IpBlocker, TLC

CONSTANTS udp, tcp, r1, r2, r3, m1, m2, k1, k2, i1, i2, d1, d2, d3, d4, d5

MCWorker == {udp, tcp}
MCRef == {r1, r2, r3}
MCUuid == {m1, m2}
MCPk == {k1, k2}
MCIp == {i1, i2}
MCLoopback == {i2}
MCIds == {d1, d2, d3, d4, d5}

AllMessages == [uuid : MCUuid, pk : MCPk, ip : MCIp, ws : BOOLEAN]
FewMessages == [uuid : {m1}, pk : MCPk, ip : {i1}, ws : {FALSE}]
               \union [uuid : {m2}, pk : {k2}, ip : {i1}, ws : {TRUE}]
NoTraffic == [tasks |-> {}, pks |-> {}, ips |-> {}]
MCTraffic == {NoTraffic}
             \union {[tasks |-> {w}, pks |-> AllMessages, ips |-> MCIp] : w \in MCWorker}
             \union {[tasks |-> MCWorker, pks |-> FewMessages, ips |-> {i1}]}
MCSymmetry == Permutations(MCWorker)

(* A Peer that was freed is never read again, so its content is no part of *)
(* the state.                                                              *)
MCView ==
    <<[r \in Ref |-> IF Held(r) THEN heap[r] ELSE DefaultPeer],
      map, db, pc, locals, scene, blockerVars>>

MCInit == Init /\ BlockerInit

MCNext ==
    \/ traffic # NoTraffic /\ Next /\ UNCHANGED blockerVars
    \/ traffic = NoTraffic /\ BlockerNext /\ UNCHANGED <<vars, scene>>

MCSpec == MCInit /\ [][MCNext]_<<vars, scene, blockerVars>>
=============================================================================

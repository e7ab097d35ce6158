---------------------------- MODULE MCRendezvous ----------------------------
(***************************************************************************)
(* An instance of Rendezvous for TLC, and the scenes that are played; and  *)
(* of WsIdle, in a scene of its own.                                       *)
(***************************************************************************)
EXTENDS Rendezvous, WsIdle, TLC

CONSTANTS c1, c2, k1, k2, a1, a2, a3

MCConn == {c1, c2}
MCTcpConn == 1..2
MCClient == {k1, k2}
MCKey == {a1, a2, a3}
MCKeyOf == k1 :> a1 @@ k2 :> a2
MCAddrOf == [c \in MCTcpConn |-> a3]

MCFrom == {a1}

One == c1 :> k2 @@ c2 :> k2
Two == c1 :> k1 @@ c2 :> k2

ClockOnly == Scene({}, {One}, {}, {}, {}, 0, FALSE, 0)

MCScenes ==
    { \* two websockets, of one client or of two, whatever is pushed to them
      Scene({c1, c2}, {One, Two}, {}, {}, {}, 0, FALSE, 0),
      \* two TCP connections, one after the other from the same address
      Scene({}, {One}, {}, {1, 2}, {}, 1, FALSE, 0),
      \* one, with a key exchange
      Scene({}, {One}, {}, {1}, {1}, 2, FALSE, 0),
      \* asked on TCP, or on one websocket, and given to the other
      Scene({c2}, {One}, {}, {1}, {}, 2, TRUE, 0),
      Scene({c1, c2}, {Two}, {c1}, {}, {}, 0, TRUE, 0),
      \* the log
      Scene({}, {One}, {}, {}, {}, 0, FALSE, 3),
      \* the clock of a websocket's task
      ClockOnly }

MCInit == Init /\ IdleInit

MCNext ==
    \/ scene # ClockOnly /\ Next /\ UNCHANGED idleVars
    \/ scene = ClockOnly /\ IdleNext /\ UNCHANGED vars

MCSpec == MCInit /\ [][MCNext]_<<vars, idleVars>> /\ Fairness
=============================================================================

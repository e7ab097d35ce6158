--------------------------- MODULE PeerHeartbeat ---------------------------
(***************************************************************************)
(* A UDP client of the peer registry: it sends RegisterPeer again and      *)
(* again, and RegisterPk when the answer asks for it.  It may change its   *)
(* address; hbbs may be restarted; other tasks look the client up at any   *)
(* time.  The UDP loop of hbbs handles the client's messages one by one.   *)
(*                                                                         *)
(* The client is not part of this repository; what it does is taken from   *)
(* the answers hbbs gives it.  A message that is lost is one not sent.     *)
(***************************************************************************)
EXTENDS PeerRegistry

CONSTANTS UdpLoop,   \* the worker that is the UDP loop
          Machine,   \* the client's uuid and key: [uuid, pk]
          MaxMoves,  \* bound of the model: how often the client moves
          MaxStops   \* bound of the model: how often hbbs is restarted

VARIABLES here,      \* the client's address
          wantsPk,   \* hbbs asked for the key and has not been sent it since
          moves, stops

clientVars == <<here, wantsPk, moves, stops>>
allVars == <<vars, clientVars>>

OwnPk(i) == [uuid |-> Machine.uuid, pk |-> Machine.pk, ip |-> i, ws |-> FALSE]

HInit ==
    /\ Init
    /\ db # None => db.uuid = Machine.uuid /\ db.pk = Machine.pk
    /\ here \in Ip
    /\ wantsPk = FALSE
    /\ moves = 0 /\ stops = 0

(* The client's RegisterPeer; hbbs asks for the key if the id is unknown.  *)
Heartbeat ==
    /\ pc[UdpLoop] = "idle"
    /\ \/ RecvRegisterPeer(UdpLoop, here) /\ UNCHANGED wantsPk
       \/ map = None /\ wantsPk' = TRUE /\ UNCHANGED vars
    /\ UNCHANGED <<here, moves, stops>>

SendPk ==
    /\ wantsPk
    /\ RecvRegisterPk(UdpLoop, OwnPk(here))
    /\ wantsPk' = FALSE
    /\ UNCHANGED <<here, moves, stops>>

(* The UDP loop goes on; the answer to a RegisterPeer reaches the client.  *)
UdpStep ==
    /\ Step(UdpLoop)
    /\ wantsPk' = (wantsPk \/ (pc[UdpLoop] = "addr" /\
                      RequestPk(heap[peer[UdpLoop]], msg[UdpLoop])))
    /\ UNCHANGED <<here, moves, stops>>

(* Another task looks the client up.                                       *)
OtherStep(w) ==
    /\ w # UdpLoop
    /\ Lookup(w) \/ Step(w)
    /\ UNCHANGED clientVars

Move(i) ==
    /\ i # here /\ moves < MaxMoves
    /\ here' = i /\ moves' = moves + 1
    /\ UNCHANGED <<vars, wantsPk, stops>>

Stop ==
    /\ stops < MaxStops
    /\ Restart /\ stops' = stops + 1
    /\ UNCHANGED <<here, wantsPk, moves>>

Time == (\E r \in Ref : TimePasses(r)) /\ UNCHANGED clientVars

HNext ==
    \/ /\ \/ Heartbeat \/ SendPk \/ UdpStep \/ Time
          \/ \E w \in Worker : OtherStep(w)
          \/ \E i \in Ip : Move(i)
       /\ UNCHANGED scene
    \/ Stop

(* The window of the rate limit passes.                                    *)
WindowPasses ==
    /\ map # None /\ heap[map].recent
    /\ heap' = [heap EXCEPT ![map].recent = FALSE]
    /\ UNCHANGED <<map, db, pc, locals, clientVars>>

(***************************************************************************)
(* The runtime goes on with every task; the client goes on sending, and    *)
(* some of its messages arrive; time goes on.                              *)
(***************************************************************************)
HFairness ==
    /\ SF_allVars(Heartbeat) /\ SF_allVars(SendPk) /\ SF_allVars(WindowPasses)
    /\ WF_allVars(UdpStep)
    /\ \A w \in Worker : WF_allVars(Step(w) /\ OtherStep(w))

HSpec == HInit /\ [][HNext]_<<allVars, scene>> /\ HFairness

(* A loopback address is taken from a heartbeat without a RegisterPk, and  *)
(* the info of the Peer keeps the address it had.  If the client comes     *)
(* back to that one, its heartbeats are answered with a request for its    *)
(* key and its RegisterPk changes nothing, so it is not recorded either.   *)
StaysOffLoopback == [](here \notin Loopback)
StaysOnLoopback == <>[](here \in Loopback)

(* However often it moved and hbbs was restarted, and whatever lookups     *)
(* read or put into the map meanwhile, in the end hbbs has the address and *)
(* the key of a client that keeps sending, and keeps seeing it online; but *)
(* not if it leaves hbbs's own machine.                                    *)
EndsUpReachable ==
    StaysOffLoopback \/ StaysOnLoopback =>
        /\ <>[](map # None /\ heap[map].addr = here /\ heap[map].pk = Machine.pk)
        /\ []<>(map # None /\ heap[map].online)
=============================================================================

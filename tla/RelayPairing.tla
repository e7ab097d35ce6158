---------------------------- MODULE RelayPairing ----------------------------
(***************************************************************************)
(* hbbr, the relay server (src/relay_server.rs): accepting a connection,   *)
(* pairing the two ends of a session by the uuid they present, relaying    *)
(* between them and cleaning up.                                           *)
(*                                                                         *)
(* Every connection is served by a task of its own on a multi-threaded     *)
(* runtime; a step of a task is what it does between two awaits that reach *)
(* shared state.  A stream is a value with one owner: the task that        *)
(* accepted it, the PEERS table, or the task it was paired with; when its  *)
(* owner lets go of it the socket is closed.                               *)
(*                                                                         *)
(* Left out: the bytes relayed, their framing and the bandwidth limiters,  *)
(* which never change which stream is where.                               *)
(***************************************************************************)
CONSTANTS Conn,      \* connections, each named by the task that serves it
          Ws,        \* those that come to the websocket port
          Uuid,      \* session names
          Ip,        \* addresses
          NoConn, NoUuid,
          PeerIp,    \* PeerIp[c]: the address c's TCP connection comes from
          RealIp,    \* RealIp[c]: that address, or the one X-Real-IP names
          UsageId    \* UsageId[c]: RealIp with its port, which is 0 once rewritten

ASSUME PairingAssumption ==
    /\ NoConn \notin Conn
    /\ NoUuid \notin Uuid
    /\ Ws \subseteq Conn
    /\ PeerIp \in [Conn -> Ip]
    /\ RealIp \in [Conn -> Ip]

VARIABLES
    pc,         \* pc[c]: the next step of c's task
    req,        \* req[c]: the uuid in c's RequestRelay
    PEERS,      \* PEERS[u]: the stream waiting under u
    peer,       \* peer[c]: the stream c's task took out of PEERS
    closed,     \* the connections whose socket the server has closed
    quiet,      \* the relaying tasks that got no frame for more than 30 s
    USAGE,      \* the keys of the USAGE table
    BLOCKLIST,  \* the refused addresses
    hungup      \* the connections whose client is gone, as their sockets say

vars == <<pc, req, PEERS, peer, closed, quiet, USAGE, BLOCKLIST, hungup>>

PcTypes == {"accept", "handshake", "recv", "remove", "pair", "relay", "sendown",
            "sendpeer", "cleanup", "insert", "sleep", "done"}

(* PEERS and USAGE start empty; BLOCKLIST is what blocklist.txt holds.     *)
Init ==
    /\ pc = [c \in Conn |-> "accept"]
    /\ req = [c \in Conn |-> NoUuid]
    /\ PEERS = [u \in Uuid |-> NoConn]
    /\ peer = [c \in Conn |-> NoConn]
    /\ closed = {}
    /\ quiet = {}
    /\ USAGE = {}
    /\ BLOCKLIST \in SUBSET Ip
    /\ hungup = {}

Goto(c, l) == pc' = [pc EXCEPT ![c] = l]

(***************************************************************************)
(* handle_connection: refuse an address on the block list, else spawn the  *)
(* task.  The check sees the TCP source address, not X-Real-IP.            *)
(***************************************************************************)
Accept(c) ==
    /\ pc[c] = "accept"
    /\ \/ /\ PeerIp[c] \in BLOCKLIST
          /\ Goto(c, "done")
          /\ closed' = closed \union {c}
       \/ /\ PeerIp[c] \notin BLOCKLIST
          /\ Goto(c, IF c \in Ws THEN "handshake" ELSE "recv")
          /\ UNCHANGED closed
    /\ UNCHANGED <<req, PEERS, peer, quiet, USAGE, BLOCKLIST, hungup>>

(* make_pair: accept_hdr_async is over.  There is no timeout on it.        *)
Handshake(c) ==
    /\ pc[c] = "handshake"
    /\ Goto(c, "recv")
    /\ UNCHANGED <<req, PEERS, peer, closed, quiet, USAGE, BLOCKLIST, hungup>>

(***************************************************************************)
(* make_pair, make_pair_: the websocket handshake fails, no frame comes    *)
(* within 30 s, the client is gone, or the first frame is not a            *)
(* RequestRelay with the right key and a uuid.                             *)
(***************************************************************************)
GiveUp(c) ==
    /\ pc[c] \in {"handshake", "recv"}
    /\ Goto(c, "done")
    /\ closed' = closed \union {c}
    /\ UNCHANGED <<req, PEERS, peer, quiet, USAGE, BLOCKLIST, hungup>>

(***************************************************************************)
(* make_pair_: a RequestRelay with the right key and a non-empty uuid is   *)
(* read; its client may have gone since it was sent.                       *)
(***************************************************************************)
RecvRequest(c, u) ==
    /\ pc[c] = "recv"
    /\ req' = [req EXCEPT ![c] = u]
    /\ Goto(c, "remove")
    /\ UNCHANGED <<PEERS, peer, closed, quiet, USAGE, BLOCKLIST, hungup>>

(* Faulty variant: the waiting stream is looked up but left in PEERS.      *)
TakePeerLeft(c) ==
    /\ pc[c] = "remove"
    /\ peer' = [peer EXCEPT ![c] = PEERS[req[c]]]
    /\ Goto(c, IF PEERS[req[c]] = NoConn THEN "insert" ELSE "pair")
    /\ UNCHANGED <<req, PEERS, closed, quiet, USAGE, BLOCKLIST, hungup>>

(* PEERS.lock().remove(&uuid): take the waiting stream, if there is one.   *)
TakePeer(c) ==
    /\ pc[c] = "remove"
    /\ peer' = [peer EXCEPT ![c] = PEERS[req[c]]]
    /\ PEERS' = [PEERS EXCEPT ![req[c]] = NoConn]
    /\ Goto(c, IF PEERS[req[c]] = NoConn THEN "insert" ELSE "pair")
    /\ UNCHANGED <<req, closed, quiet, USAGE, BLOCKLIST, hungup>>

(* Faulty variant: the task ends without the 30 s timer.                   *)
InsertSelfNoTimer(c) ==
    /\ pc[c] = "insert"
    /\ PEERS' = [PEERS EXCEPT ![req[c]] = c]
    /\ closed' = closed \union ({PEERS[req[c]]} \ {NoConn})
    /\ Goto(c, "done")
    /\ UNCHANGED <<req, peer, quiet, USAGE, BLOCKLIST, hungup>>

(***************************************************************************)
(* PEERS.lock().insert(uuid, stream): a second lock, so another task may   *)
(* have put its stream there meanwhile; that one is dropped.               *)
(***************************************************************************)
InsertSelf(c) ==
    /\ pc[c] = "insert"
    /\ PEERS' = [PEERS EXCEPT ![req[c]] = c]
    /\ closed' = closed \union ({PEERS[req[c]]} \ {NoConn})
    /\ Goto(c, "sleep")
    /\ UNCHANGED <<req, peer, quiet, USAGE, BLOCKLIST, hungup>>

(***************************************************************************)
(* After 30 s the task removes whatever waits under its uuid, which need   *)
(* not be its own stream.                                                  *)
(***************************************************************************)
Expire(c) ==
    /\ pc[c] = "sleep"
    /\ PEERS' = [PEERS EXCEPT ![req[c]] = NoConn]
    /\ closed' = closed \union ({PEERS[req[c]]} \ {NoConn})
    /\ Goto(c, "done")
    /\ UNCHANGED <<req, peer, quiet, USAGE, BLOCKLIST, hungup>>

(* Paired: enter the USAGE table and start relaying.                       *)
StartRelay(c) ==
    /\ pc[c] = "pair"
    /\ USAGE' = USAGE \union {UsageId[c]}
    /\ Goto(c, "relay")
    /\ UNCHANGED <<req, PEERS, peer, closed, quiet, BLOCKLIST, hungup>>

(***************************************************************************)
(* relay: the once-a-second bookkeeping after a frame or a timer tick.     *)
(* Only the address of the end that found the other waiting is checked     *)
(* against the block list.                                                 *)
(***************************************************************************)
Bookkeep(c) ==
    \/ /\ RealIp[c] \in BLOCKLIST
       /\ Goto(c, "cleanup")
       /\ UNCHANGED USAGE
    \/ /\ RealIp[c] \notin BLOCKLIST
       /\ Goto(c, "relay")
       /\ USAGE' = USAGE \union {UsageId[c]}

(* The end of the loop's body: less than a second has gone by, or more.    *)
LoopEnd(c) ==
    \/ Goto(c, "relay") /\ UNCHANGED USAGE
    \/ Bookkeep(c)

(***************************************************************************)
(* relay: a frame is read from one end.  A websocket ping counts as a      *)
(* frame but nothing is passed on; else the task starts to write to the    *)
(* other end.                                                              *)
(***************************************************************************)
Frame(c) ==
    /\ pc[c] = "relay"
    /\ quiet' = quiet \ {c}
    /\ \/ LoopEnd(c)
       \/ \E l \in {"sendown", "sendpeer"} : Goto(c, l) /\ UNCHANGED USAGE
    /\ UNCHANGED <<req, PEERS, peer, closed, BLOCKLIST, hungup>>

Sending(c) == pc[c] \in {"sendown", "sendpeer"}

Receiver(c) == IF pc[c] = "sendown" THEN c ELSE peer[c]

(***************************************************************************)
(* relay: the write is over.  There is no timeout on it, and until it is   *)
(* over neither the timer nor the other branches are polled.               *)
(***************************************************************************)
Sent(c) ==
    /\ Sending(c)
    /\ LoopEnd(c)
    /\ UNCHANGED <<req, PEERS, peer, closed, quiet, BLOCKLIST, hungup>>

(* relay: the write fails, the receiver is gone.                           *)
SendFails(c) ==
    /\ Sending(c) /\ Receiver(c) \in hungup
    /\ Goto(c, "cleanup")
    /\ UNCHANGED <<req, PEERS, peer, closed, quiet, USAGE, BLOCKLIST, hungup>>

(***************************************************************************)
(* relay: a tick of the 3 s timer (the first, which comes at once, does    *)
(* nothing).  A relay silent for more than 30 s ends.                      *)
(***************************************************************************)
TimerTick(c) ==
    /\ pc[c] = "relay"
    /\ \/ c \in quiet /\ Goto(c, "cleanup") /\ UNCHANGED USAGE
       \/ c \notin quiet /\ Bookkeep(c)
    /\ UNCHANGED <<req, PEERS, peer, closed, quiet, BLOCKLIST, hungup>>

(* Faulty variant: the end of the other stream is not noticed.             *)
StreamEndsOwnOnly(c) ==
    /\ pc[c] = "relay"
    /\ c \in hungup
    /\ Goto(c, "cleanup")
    /\ UNCHANGED <<req, PEERS, peer, closed, quiet, USAGE, BLOCKLIST, hungup>>

(* relay: one of the ends is at its end.                                   *)
StreamEnds(c) ==
    /\ pc[c] = "relay"
    /\ {c, peer[c]} \cap hungup # {}
    /\ Goto(c, "cleanup")
    /\ UNCHANGED <<req, PEERS, peer, closed, quiet, USAGE, BLOCKLIST, hungup>>

(* Faulty variant: the stream that was waiting is not dropped.             *)
CleanupKeepsPeer(c) ==
    /\ pc[c] = "cleanup"
    /\ USAGE' = USAGE \ {UsageId[c]}
    /\ closed' = closed \union {c}
    /\ quiet' = quiet \ {c}
    /\ Goto(c, "done")
    /\ UNCHANGED <<req, PEERS, peer, BLOCKLIST, hungup>>

(* relay has returned: leave the USAGE table, drop both streams.           *)
Cleanup(c) ==
    /\ pc[c] = "cleanup"
    /\ USAGE' = USAGE \ {UsageId[c]}
    /\ closed' = closed \union {c, peer[c]}
    /\ quiet' = quiet \ {c}
    /\ Goto(c, "done")
    /\ UNCHANGED <<req, PEERS, peer, BLOCKLIST, hungup>>

(* Time: more than 30 s pass without a frame in the relay of c.            *)
Silence(c) ==
    /\ pc[c] = "relay" \/ Sending(c)
    /\ quiet' = quiet \union {c}
    /\ UNCHANGED <<pc, req, PEERS, peer, closed, USAGE, BLOCKLIST, hungup>>

(***************************************************************************)
(* The connection of c ends, and the server's side of it knows: the client *)
(* closed or reset it, or packets were not acknowledged for too long.  A   *)
(* client that vanishes without that is one that is quiet.                 *)
(***************************************************************************)
HangUp(c) ==
    /\ pc[c] # "accept" /\ c \notin closed
    /\ hungup' = hungup \union {c}
    /\ UNCHANGED <<pc, req, PEERS, peer, closed, quiet, USAGE, BLOCKLIST>>

(* check_cmd: blocklist-add, blocklist-remove (some addresses or all).     *)
Console ==
    /\ BLOCKLIST' \in SUBSET Ip
    /\ UNCHANGED <<pc, req, PEERS, peer, closed, quiet, USAGE, hungup>>

Next ==
    \/ \E c \in Conn :
          \/ Accept(c) \/ Handshake(c) \/ GiveUp(c)
          \/ \E u \in Uuid : RecvRequest(c, u)
          \/ TakePeer(c) \/ InsertSelf(c) \/ Expire(c)
          \/ StartRelay(c) \/ Frame(c) \/ Sent(c) \/ SendFails(c)
          \/ TimerTick(c) \/ StreamEnds(c) \/ Cleanup(c)
          \/ Silence(c) \/ HangUp(c)
    \/ Console

Spec == Init /\ [][Next]_vars

(***************************************************************************)
(* The runtime polls every task that is ready and fires every timer, and   *)
(* select! picks one of the ready branches at random, so that a tick or    *)
(* the end of a stream is not passed over for ever.  The wait for the first*)
(* frame has a timeout; the handshake has none, and is sure to end only    *)
(* when its socket does.  Nothing is assumed of the clients or the console.*)
(***************************************************************************)
Fairness ==
    \A c \in Conn :
        /\ WF_vars(Accept(c))
        /\ WF_vars(c \in hungup /\ GiveUp(c))
        /\ WF_vars(pc[c] = "recv" /\ (GiveUp(c) \/ \E u \in Uuid : RecvRequest(c, u)))
        /\ WF_vars(TakePeer(c)) /\ WF_vars(InsertSelf(c)) /\ WF_vars(Expire(c))
        /\ WF_vars(StartRelay(c)) /\ WF_vars(SendFails(c)) /\ WF_vars(Cleanup(c))
        /\ SF_vars(TimerTick(c)) /\ SF_vars(StreamEnds(c))

FairSpec == Spec /\ Fairness

-----------------------------------------------------------------------------
(* c's task holds its own stream and the one it found waiting.             *)
Relaying(c) == pc[c] \in {"pair", "relay", "sendown", "sendpeer", "cleanup"}

TypeOK ==
    /\ pc \in [Conn -> PcTypes]
    /\ req \in [Conn -> Uuid \union {NoUuid}]
    /\ PEERS \in [Uuid -> Conn \union {NoConn}]
    /\ peer \in [Conn -> Conn \union {NoConn}]
    /\ closed \subseteq Conn
    /\ quiet \subseteq Conn
    /\ USAGE \subseteq {UsageId[c] : c \in Conn}
    /\ BLOCKLIST \subseteq Ip
    /\ hungup \subseteq Conn

(* An entry of PEERS never outlives the timer that is to remove it: the    *)
(* stream's own task still sleeps, under that very uuid.                   *)
WaiterHasTimer ==
    \A u \in Uuid :
        PEERS[u] # NoConn =>
            /\ pc[PEERS[u]] = "sleep"
            /\ req[PEERS[u]] = u
            /\ PEERS[u] \notin closed

(* A relay joins two different open streams that asked for the same uuid,  *)
(* and no stream takes part in two relays, in either role.                 *)
PairSound ==
    \A c \in Conn : Relaying(c) =>
        /\ peer[c] \in Conn /\ req[c] \in Uuid
        /\ req[peer[c]] = req[c]
        /\ {c, peer[c]} \cap closed = {}
        /\ ~ Relaying(peer[c])
        /\ \A d \in Conn : Relaying(d) /\ peer[d] = peer[c] => d = c

(* No socket stays open without an owner: a stream whose task has nothing  *)
(* left to do with it is waiting in PEERS, is held by a relay, or closed.  *)
NoLeakedSocket ==
    \A c \in Conn :
        pc[c] \in {"sleep", "done"} =>
            \/ c \in closed
            \/ \E u \in Uuid : PEERS[u] = c
            \/ \E d \in Conn : Relaying(d) /\ peer[d] = c

(* USAGE lists no relay that is over, even when websocket clients behind   *)
(* one proxied address share the key "ip:0".                               *)
UsageSound ==
    \A k \in USAGE : 
        \E c \in Conn : Relaying(c) /\ pc[c] # "pair" /\ UsageId[c] = k

(* What the two tables of hbbr and its relays owe their streams: PEERS has *)
(* none without a timer, a relay two of one session and not in another, a  *)
(* stream always an owner that will close it, USAGE only relays that run.  *)
PairingSound == WaiterHasTimer /\ PairSound /\ NoLeakedSocket /\ UsageSound

(* No relay is for ever stuck in a write to a client that is still there   *)
(* but does not read: a write, like a handshake, has no timeout in hbbr,   *)
(* and while it lasts the timer of the relay is not looked at.             *)
ReadersRead ==
    \A c \in Conn : []<>(~ Sending(c) \/ Receiver(c) \in hungup)

(* Once the connection of a client is over the server closes its socket,   *)
(* in whatever step of the pairing it was, and whatever its partner goes   *)
(* on sending.                                                             *)
HungUpIsClosed == ReadersRead => \A c \in Conn : c \in hungup ~> c \in closed

(* A relay that is silent for 30 s ends, unless a frame comes first.       *)
QuietEnds == ReadersRead => \A c \in Conn : c \in quiet ~> c \notin quiet

(* If the address of the end that completed a pair stays on the block      *)
(* list, its relay ends, however busy it is and even if it already ran.    *)
BlockedEnds ==
    ReadersRead =>
        \A c \in Conn : <>[](RealIp[c] \in BLOCKLIST) => <>[](~ Relaying(c))

(* The three ways in which hbbr must get rid of a client or a relay, all   *)
(* of them while no relay is stuck in a write.                             *)
RelaysEnd == HungUpIsClosed /\ QuietEnds /\ BlockedEnds

(***************************************************************************)
(* The inductive strengthening of the invariants above: which uuid, stream *)
(* and partner a task has at each of its steps, and that a stream that was *)
(* taken out of PEERS is never taken again.                                *)
(***************************************************************************)
Waits == {"sleep", "done"}
BeforeWait == {"accept", "handshake", "recv", "remove", "insert"}

PairingInv ==
    /\ TypeOK /\ WaiterHasTimer /\ PairSound /\ NoLeakedSocket /\ UsageSound
    /\ \A c \in Conn :
          /\ pc[c] \in {"accept", "handshake", "recv"} => req[c] = NoUuid
          /\ pc[c] \in {"remove", "insert", "sleep"} => req[c] \in Uuid
          /\ pc[c] \in BeforeWait => c \notin closed
          /\ pc[c] \in BeforeWait \union {"sleep"} => peer[c] = NoConn
          /\ Relaying(c) => \A u \in Uuid : PEERS[u] # peer[c]
          /\ peer[c] # NoConn =>
                /\ Relaying(c) \/ {c, peer[c]} \subseteq closed
                /\ pc[peer[c]] \in Waits
                /\ peer[peer[c]] = NoConn
                /\ \A d \in Conn : peer[d] = peer[c] => d = c

-----------------------------------------------------------------------------
(* The stage of c's stream, and whom it was joined with, in Matchmaker.    *)
StageOf(c) ==
    IF c \in closed THEN "closed"
    ELSE IF Relaying(c) \/ \E d \in Conn : Relaying(d) /\ peer[d] = c THEN "joined"
    ELSE IF pc[c] = "sleep" THEN "waiting" ELSE "open"

PartnerOf(c) ==
    IF peer[c] # NoConn THEN peer[c]
    ELSE IF \E d \in Conn : peer[d] = c THEN CHOOSE d \in Conn : peer[d] = c
    ELSE NoConn

M == INSTANCE Matchmaker WITH
        stage <- [c \in Conn |-> StageOf(c)],
        want <- req,
        partner <- [c \in Conn |-> PartnerOf(c)]

(* The tasks of hbbr, with their two-step lookup and their timers, never   *)
(* do anything to a client that the matchmaker would not do.               *)
ImplementsMatchmaker == M!MatchSpec
=============================================================================

------------------------------ MODULE WsPeers ------------------------------
(***************************************************************************)
(* The websocket side of hbbs (src/rendezvous_server.rs): one task owns    *)
(* each websocket; ws_peers maps a client's address to a channel into the  *)
(* task of one of its connections, and any other task pushes messages for  *)
(* the client into that channel.                                           *)
(*                                                                         *)
(* ws_peers is behind a plain mutex that is never held across an await, so *)
(* each use of it is one step.  A message is the client it is for and what *)
(* it carries; handle_tcp is whether it registers the connection, keeps it *)
(* or ends it.  Rendezvous adds the questions and answers clients exchange.*)
(***************************************************************************)
EXTENDS Naturals, Sequences

CONSTANTS Conn,      \* websocket connections, named by WS_CONN_SERIAL
          Client,    \* the clients that open them
          Key,       \* addresses, as ws_peers is indexed
          NoConn,
          KeyOf,     \* KeyOf[k]: the address the server sees for client k
          MaxQueue   \* bound of the model: the real channel has none

ASSUME WsAssumption ==
    /\ NoConn \notin Conn
    /\ KeyOf \in [Client -> Key]
    /\ MaxQueue \in Nat

VARIABLES
    owner,     \* owner[c]: the client that opens c
    pc,        \* pc[c]: where c's task is
    ws_peers,  \* the registry: the connection that serves an address
    rx_ws,     \* rx_ws[c]: the messages pushed to c's task, not yet taken
    known,     \* the clients whose address some task has learnt
    client     \* client[c]: is the client "here", "gone" (the socket is
               \* closed or broken) or "dead" (it went without a trace)

wsVars == <<owner, pc, ws_peers, rx_ws, known, client>>

(* The connections of a set are going to be opened, by these clients.      *)
WsInit(active, owners) ==
    /\ owner \in owners
    /\ pc = [c \in Conn |-> IF c \in active THEN "new" ELSE "closed"]
    /\ ws_peers = [k \in Key |-> NoConn]
    /\ rx_ws = [c \in Conn |-> <<>>]
    /\ known = {}
    /\ client = [c \in Conn |-> "here"]

Goto(c, l) == pc' = [pc EXCEPT ![c] = l]

ConnKey(c) == KeyOf[owner[c]]

(* The handshake is over: the channel and the guard exist, the loop starts.*)
Open(c) ==
    /\ pc[c] = "new"
    /\ Goto(c, "loop")
    /\ UNCHANGED <<owner, ws_peers, rx_ws, known, client>>

(* A binary frame is read and handed to handle_tcp, which may record the   *)
(* client's address among the peers.                                       *)
Recv(c) ==
    /\ pc[c] = "loop" /\ client[c] # "dead"
    /\ known' \in {known, known \union {owner[c]}}
    /\ Goto(c, "handle")
    /\ UNCHANGED <<owner, ws_peers, rx_ws, client>>

(* Faulty variant: registered under the address of the peer that is sought.*)
RegisterSwapped(c) ==
    /\ pc[c] = "handle"
    /\ \E k \in Client : ws_peers' = [ws_peers EXCEPT ![KeyOf[k]] = c]
    /\ known' = known \union {owner[c]}
    /\ Goto(c, "loop")
    /\ UNCHANGED <<owner, rx_ws, client>>

(***************************************************************************)
(* handle_tcp for RegisterPeer and an accepted RegisterPk: register_ws_peer*)
(* after the registry of peers was awaited and the reply written, when     *)
(* another connection may long have claimed the address.                   *)
(***************************************************************************)
Register(c) ==
    /\ pc[c] = "handle"
    /\ ws_peers' = [ws_peers EXCEPT ![ConnKey(c)] = c]
    /\ known' = known \union {owner[c]}
    /\ Goto(c, "loop")
    /\ UNCHANGED <<owner, rx_ws, client>>

(* handle_tcp for PunchHoleRequest and RequestRelay: register_ws_peer, and *)
(* then the registry is awaited.                                           *)
AskOnWs(c) ==
    /\ pc[c] = "handle"
    /\ ws_peers' = [ws_peers EXCEPT ![ConnKey(c)] = c]
    /\ known' = known \union {owner[c]}
    /\ Goto(c, "decide")
    /\ UNCHANGED <<owner, rx_ws, client>>

(* handle_tcp for any other message: it is answered, or not.               *)
HandleOther(c) ==
    /\ pc[c] = "handle"
    /\ Goto(c, "loop")
    /\ UNCHANGED <<owner, ws_peers, rx_ws, known, client>>

(* handle_tcp for a RegisterPk that is refused: the loop ends.             *)
Refuse(c) ==
    /\ pc[c] = "handle"
    /\ Goto(c, "guard")
    /\ UNCHANGED <<owner, ws_peers, rx_ws, known, client>>

(* A pushed message is taken from the channel and written to the socket.   *)
Deliver(c) ==
    /\ pc[c] = "loop" /\ rx_ws[c] # <<>>
    /\ rx_ws' = [rx_ws EXCEPT ![c] = Tail(@)]
    /\ Goto(c, "write")
    /\ UNCHANGED <<owner, ws_peers, known, client>>

(* The write is over; an error is ignored.                                 *)
Written(c) ==
    /\ pc[c] = "write"
    /\ Goto(c, "loop")
    /\ UNCHANGED <<owner, ws_peers, rx_ws, known, client>>

(* Faulty variant: an error of the stream is skipped.                      *)
StreamEndsSkipped(c) == pc[c] = "loop" /\ client[c] = "gone" /\ UNCHANGED wsVars

(* The stream ended or broke.                                              *)
StreamEnds(c) ==
    /\ pc[c] = "loop" /\ client[c] = "gone"
    /\ Goto(c, "guard")
    /\ UNCHANGED <<owner, ws_peers, rx_ws, known, client>>

(***************************************************************************)
(* Nothing was read for the idle timeout, and neither a frame nor a pushed *)
(* message came for the last poll interval.  WsIdle has the clock; here a  *)
(* client that is there may be idle too, as it is if the timeout is short. *)
(***************************************************************************)
IdleClose(c) ==
    /\ pc[c] = "loop" /\ rx_ws[c] = <<>>
    /\ Goto(c, "guard")
    /\ UNCHANGED <<owner, ws_peers, rx_ws, known, client>>

(* Faulty variant: the guard does not look at the serial number.           *)
DropGuardAny(c) ==
    /\ pc[c] = "guard"
    /\ ws_peers' = [ws_peers EXCEPT ![ConnKey(c)] = NoConn]
    /\ Goto(c, "rx")
    /\ UNCHANGED <<owner, rx_ws, known, client>>

(* WsPeerGuard::drop: remove the entry, if it is this connection's.        *)
DropGuard(c) ==
    /\ pc[c] = "guard"
    /\ ws_peers' = [ws_peers EXCEPT ![ConnKey(c)] = IF @ = c THEN NoConn ELSE @]
    /\ Goto(c, "rx")
    /\ UNCHANGED <<owner, rx_ws, known, client>>

(* The receiver is dropped after the guard, with what was still in it.     *)
DropRx(c) ==
    /\ pc[c] = "rx"
    /\ rx_ws' = [rx_ws EXCEPT ![c] = <<>>]
    /\ Goto(c, "closed")
    /\ UNCHANGED <<owner, ws_peers, known, client>>

RxOpen(c) == pc[c] # "closed"

(* Faulty variant: the entry is taken out, as a sink is from tcp_punch.    *)
PushToTakes(k, m) ==
    LET c == ws_peers[KeyOf[k]] IN
    /\ c # NoConn => Len(rx_ws[c]) < MaxQueue
    /\ rx_ws' = IF c = NoConn THEN rx_ws ELSE [rx_ws EXCEPT ![c] = Append(@, [for |-> k, msg |-> m])]
    /\ ws_peers' = [ws_peers EXCEPT ![KeyOf[k]] = NoConn]

(***************************************************************************)
(* push_to_ws_peer, from any task: a message for client k goes to the      *)
(* connection registered for k's address; if its receiver is gone the      *)
(* entry is removed, and the caller falls back to another way.             *)
(***************************************************************************)
PushTo(k, m) ==
    LET c == ws_peers[KeyOf[k]] IN
    \/ c = NoConn /\ UNCHANGED <<rx_ws, ws_peers>>
    \/ /\ c # NoConn
       /\ RxOpen(c) => Len(rx_ws[c]) < MaxQueue
       /\ rx_ws' = IF RxOpen(c) THEN [rx_ws EXCEPT ![c] = Append(@, [for |-> k, msg |-> m])]
                                ELSE rx_ws
       /\ ws_peers' = IF RxOpen(c) THEN ws_peers ELSE [ws_peers EXCEPT ![KeyOf[k]] = NoConn]

(* What it returns.                                                        *)
Reaches(k) == ws_peers[KeyOf[k]] # NoConn /\ RxOpen(ws_peers[KeyOf[k]])

(* A push of no further interest: other questions, refusals, answers.      *)
Push(k) ==
    /\ k \in known /\ ws_peers[KeyOf[k]] # NoConn
    /\ PushTo(k, "other")
    /\ UNCHANGED <<owner, pc, known, client>>

(* The client closes the connection or vanishes.                           *)
Vanish(c) ==
    /\ pc[c] # "new" /\ client[c] = "here"
    /\ \E s \in {"gone", "dead"} : client' = [client EXCEPT ![c] = s]
    /\ UNCHANGED <<owner, pc, ws_peers, rx_ws, known>>

(* The steps of a connection's task in which no message changes hands.     *)
WsStep(c) ==
    \/ Open(c) \/ Recv(c) \/ Register(c) \/ HandleOther(c) \/ Refuse(c)
    \/ Written(c) \/ StreamEnds(c) \/ IdleClose(c) \/ DropGuard(c) \/ DropRx(c) \/ Vanish(c)

-----------------------------------------------------------------------------
(* Every entry of ws_peers names a connection from that very address whose *)
(* channel still exists: its task is in its loop or, in "guard", has just  *)
(* left it and will remove the entry next.  So push_to_ws_peer never meets *)
(* a receiver that is gone, and when all websockets are closed the registry*)
(* is empty.  What is pushed to a task in "guard" goes down with its       *)
(* channel, as does what a task in its loop has not taken when that ends.  *)
EntryIsOpen ==
    \A k \in Key : ws_peers[k] # NoConn =>
        /\ pc[ws_peers[k]] \in {"loop", "handle", "decide", "write", "guard"}
        /\ ConnKey(ws_peers[k]) = k

(* An entry is removed only by the end of the very connection it names: a  *)
(* connection that ends leaves the entry of a reconnect alone.             *)
OnlyOwnerRemoves ==
    [][\A k \in Key : ws_peers[k] # NoConn /\ ws_peers'[k] = NoConn =>
            /\ pc[ws_peers[k]] = "guard"
            /\ pc'[ws_peers[k]] # "guard"]_wsVars

(* A pushed message waits only in a channel of a websocket that comes from *)
(* the address of the client it is for: its own, where no two clients have *)
(* the same.  The comment on push_to_ws_peer: "Hand a message to the task  *)
(* that owns this peer's websocket."                                       *)
PushReachesItsPeer ==
    \A c \in Conn : \A i \in 1..Len(rx_ws[c]) : KeyOf[rx_ws[c][i].for] = ConnKey(c)

(* Both: where push_to_ws_peer finds an entry, the message goes into an    *)
(* open channel of a websocket from the address that is meant.             *)
PushesSound == EntryIsOpen /\ PushReachesItsPeer

(* No task is for ever stuck in handle_tcp or in a write to a client that  *)
(* does not read: hbbs has no timeout for that.                            *)
ReadersRead == \A c \in Conn : []<>(pc[c] \notin {"handle", "decide", "write"})

(* The task of a websocket ends, and its entry and its channel go with it, *)
(* when its client closed it, whatever is pushed meanwhile, and when its   *)
(* client vanished without closing it, once nothing more is pushed.        *)
GoneIsClosed ==
    ReadersRead =>
        /\ []<>(\A c \in Conn : client[c] = "gone" => pc[c] = "closed")
        /\ \A c \in Conn :
               <>[](rx_ws[c] = <<>>) => []<>(client[c] = "dead" => pc[c] = "closed")

(* A connection that keeps registering ends up as the one its client is    *)
(* reached through, whatever the earlier ones of that client still do      *)
(* before they close.                                                      *)
KeepsItsEntry ==
    \A c \in Conn :
        /\ []<><<Register(c) \/ AskOnWs(c)>>_wsVars
        /\ \A d \in Conn \ {c} :
               ConnKey(d) = ConnKey(c) => <>[](pc[d] \in {"new", "closed"})
        => <>[](ws_peers[ConnKey(c)] = c)
=============================================================================

------------------------------ MODULE TcpPunch ------------------------------
(***************************************************************************)
(* The plain TCP connections of hbbs (src/rendezvous_server.rs): the key   *)
(* exchange that opens one, the requests and answers on it, and tcp_punch, *)
(* which keeps the write half ("sink") of a connection whose client waits  *)
(* for an answer that another client's connection will bring.              *)
(*                                                                         *)
(* Each connection is a task; a step is what a task does between two       *)
(* awaits.  tcp_punch is keyed by the client's address, and an address can *)
(* be that of a later connection once the socket of the earlier one is     *)
(* closed, which is when both halves of it are dropped, or once the client *)
(* has reset it, whether hbbs has noticed or not.                          *)
(***************************************************************************)
EXTENDS Naturals, FiniteSets

CONSTANTS TcpConn,     \* the connections, numbered as they are accepted
          NoSink,
          Addr,
          AddrOf       \* the client's address of each connection

ASSUME PunchAssumption ==
    /\ TcpConn \subseteq Nat /\ NoSink \notin TcpConn
    /\ AddrOf \in [TcpConn -> Addr]

VARIABLES
    task,        \* "new", "closing", "done", or a place of Live
    cut,         \* the connections that their clients have reset
    secret,      \* handshake_sk is there
    recvKey,     \* recv_encrypt is set
    sinkKey,     \* the sink encrypts
    sink,        \* where the sink is: "own", "map", "sending", "dropped"
    tcp_punch,
    requests,    \* requests read
    waiting      \* history: asked, alone under its address, not reset, and
                 \* the route back has not been used

tcpVars == <<task, cut, secret, recvKey, sinkKey, sink, tcp_punch, requests, waiting>>
keys == <<secret, recvKey, sinkKey>>

(* Where a task is that has a read half; in "quiet" it has waited for a    *)
(* frame for 30 seconds.                                                   *)
Live == {"read", "quiet", "decide", "refuse", "refusing"}
Reading(c) == task[c] \in {"read", "quiet"}

(* The connections of a set are going to be accepted.                      *)
TcpInit(active) ==
    /\ task = [c \in TcpConn |-> IF c \in active THEN "new" ELSE "done"]
    /\ cut = {}
    /\ secret = [c \in TcpConn |-> FALSE]
    /\ recvKey = [c \in TcpConn |-> FALSE] /\ sinkKey = [c \in TcpConn |-> FALSE]
    /\ sink = [c \in TcpConn |-> "dropped"]
    /\ tcp_punch = [a \in Addr |-> NoSink]
    /\ requests = [c \in TcpConn |-> 0]
    /\ waiting = [c \in TcpConn |-> FALSE]

(* The key in tcp_punch: the address after try_into_v4.                    *)
PunchKey(c) == AddrOf[c]

(* The socket is open while either half of it exists.                      *)
SocketOpen(c) == task[c] \in Live \/ sink[c] # "dropped"

(* A connection is accepted and, if hbbs has a key, key_exchange_phase1 is *)
(* sent; keyed is the set of connections where it does.                    *)
Accept(c, keyed) ==
    /\ task[c] = "new" /\ \A d \in TcpConn : d < c => task[d] # "new"
    /\ \A d \in TcpConn : AddrOf[d] = AddrOf[c] => ~ SocketOpen(d) \/ d \in cut
    /\ task' = [task EXCEPT ![c] = "read"]
    /\ sink' = [sink EXCEPT ![c] = "own"]
    /\ secret' = [secret EXCEPT ![c] = c \in keyed]
    /\ UNCHANGED <<cut, recvKey, sinkKey, tcp_punch, requests, waiting>>

(* Faulty variant: the secret is kept until a key exchange comes.          *)
SpendSecretNot(c) == UNCHANGED secret

(* "the secret is spent on it whatever it turns out to be".                *)
SpendSecret(c) == secret' = [secret EXCEPT ![c] = FALSE]

(* Phase 2 of the key exchange, good: both directions are encrypted.       *)
ExchangeKeys(c) ==
    /\ Reading(c) /\ secret[c]
    /\ task' = [task EXCEPT ![c] = "read"]
    /\ secret' = [secret EXCEPT ![c] = FALSE]
    /\ recvKey' = [recvKey EXCEPT ![c] = TRUE]
    /\ sinkKey' = [sinkKey EXCEPT ![c] = @ \/ sink[c] = "own"]
    /\ UNCHANGED <<cut, sink, tcp_punch, requests, waiting>>

(* The loop is left, and the read half dropped.                            *)
Leave(c) == task' = [task EXCEPT ![c] = "closing"]

(* A frame that ends the connection: a key exchange that is wrong or comes *)
(* late, one that cannot be decrypted, or any message for which handle_tcp *)
(* returns false once it has been answered on the connection's own sink.   *)
LastFrame(c) ==
    /\ Reading(c) /\ SpendSecret(c) /\ Leave(c)
    /\ UNCHANGED <<cut, recvKey, sinkKey, sink, tcp_punch, requests, waiting>>

(* RegisterPk that is answered OK: the connection stays, and so does one   *)
(* whose client goes on sending such messages.                             *)
RegisterOk(c) ==
    /\ Reading(c) /\ SpendSecret(c)
    /\ task' = [task EXCEPT ![c] = "read"]
    /\ UNCHANGED <<cut, recvKey, sinkKey, sink, tcp_punch, requests, waiting>>

(* The sink kept for an address is dropped.                                *)
DropKept(a, s) == IF tcp_punch[a] = NoSink THEN s ELSE [s EXCEPT ![tcp_punch[a]] = "dropped"]

(* History: no task of an earlier connection from c's address is left.     *)
Alone(c) == \A d \in TcpConn \ {c} : PunchKey(d) = PunchKey(c) => task[d] \in {"new", "done"}

(* Faulty variant: the sink is taken and goes nowhere.                     *)
AskDrops(c, max_asks) ==
    /\ Reading(c) /\ SpendSecret(c)
    /\ requests[c] < max_asks /\ requests' = [requests EXCEPT ![c] = @ + 1]
    /\ task' = [task EXCEPT ![c] = "decide"]
    /\ sink' = [sink EXCEPT ![c] = IF @ = "own" THEN "dropped" ELSE @]
    /\ waiting' = [waiting EXCEPT ![c] = @ \/ (sink[c] = "own" /\ Alone(c))]
    /\ UNCHANGED <<cut, recvKey, sinkKey, tcp_punch>>

(* PunchHoleRequest or RequestRelay: the sink goes to tcp_punch, unless an *)
(* earlier request took it there.  max_asks bounds the model.              *)
Ask(c, max_asks) ==
    /\ Reading(c) /\ SpendSecret(c)
    /\ requests[c] < max_asks /\ requests' = [requests EXCEPT ![c] = @ + 1]
    /\ task' = [task EXCEPT ![c] = "decide"]
    /\ \/ /\ sink[c] = "own"
          /\ sink' = [DropKept(PunchKey(c), sink) EXCEPT ![c] = "map"]
          /\ tcp_punch' = [tcp_punch EXCEPT ![PunchKey(c)] = c]
          /\ waiting' = [waiting EXCEPT ![c] = Alone(c) /\ c \notin cut]
       \/ sink[c] # "own" /\ UNCHANGED <<sink, tcp_punch, waiting>>
    /\ UNCHANGED <<cut, recvKey, sinkKey>>

(* handle_punch_hole_request refuses (key, login, offline, unknown id); a  *)
(* RequestRelay for a peer not in memory is dropped.                       *)
Dismiss(c) ==
    /\ task[c] = "decide"
    /\ task' = [task EXCEPT ![c] = "refuse"] \/ task' = [task EXCEPT ![c] = "read"]
    /\ UNCHANGED <<cut, keys, sink, tcp_punch, requests, waiting>>

(* The sink kept for an address is taken out, to be sent on.               *)
TakeKept(a) ==
    /\ tcp_punch' = [tcp_punch EXCEPT ![a] = NoSink]
    /\ sink' = IF tcp_punch[a] = NoSink THEN sink ELSE [sink EXCEPT ![tcp_punch[a]] = "sending"]
    /\ waiting' = IF tcp_punch[a] = NoSink THEN waiting ELSE [waiting EXCEPT ![tcp_punch[a]] = FALSE]

(* It is written, and the connection is read again.                        *)
RefusalSent(c) ==
    /\ task[c] = "refusing" /\ sink[c] # "sending"
    /\ task' = [task EXCEPT ![c] = "read"]
    /\ UNCHANGED <<cut, keys, sink, tcp_punch, requests, waiting>>

(* A message is written, or cannot be, and the sink is dropped with the    *)
(* task that sent it.  There is no timeout on a write.                     *)
Sent(c) ==
    /\ sink[c] = "sending"
    /\ sink' = [sink EXCEPT ![c] = "dropped"]
    /\ UNCHANGED <<task, cut, keys, tcp_punch, requests, waiting>>

(* Time: no frame has come for 30 seconds, which begin anew at each frame. *)
Silence(c) ==
    /\ task[c] = "read"
    /\ task' = [task EXCEPT ![c] = "quiet"]
    /\ UNCHANGED <<cut, keys, sink, tcp_punch, requests, waiting>>

(* The client resets the connection, which hbbs learns when it next reads, *)
(* after the frames that came before.                                      *)
Reset(c) ==
    /\ SocketOpen(c) /\ c \notin cut
    /\ cut' = cut \union {c}
    /\ waiting' = [waiting EXCEPT ![c] = FALSE]
    /\ UNCHANGED <<task, keys, sink, tcp_punch, requests>>

(* The stream is at its end, or the wait for a frame has timed out.        *)
Hangup(c) ==
    /\ Reading(c)
    /\ Leave(c)
    /\ UNCHANGED <<cut, keys, sink, tcp_punch, requests, waiting>>

(* Faulty variant: tcp_punch is left as it is.                             *)
FinishKeeps(c) ==
    /\ task[c] = "closing"
    /\ task' = [task EXCEPT ![c] = "done"]
    /\ sink' = [sink EXCEPT ![c] = IF @ = "own" THEN "dropped" ELSE @]
    /\ UNCHANGED <<cut, keys, tcp_punch, requests, waiting>>

(* The task ends: if its sink was moved to tcp_punch, the entry of its     *)
(* address goes.                                                           *)
Finish(c) ==
    /\ task[c] = "closing"
    /\ task' = [task EXCEPT ![c] = "done"]
    /\ \/ /\ sink[c] = "own"
          /\ sink' = [sink EXCEPT ![c] = "dropped"]
          /\ UNCHANGED tcp_punch
       \/ /\ sink[c] # "own"
          /\ sink' = DropKept(PunchKey(c), sink)
          /\ tcp_punch' = [tcp_punch EXCEPT ![PunchKey(c)] = NoSink]
    /\ UNCHANGED <<cut, keys, requests, waiting>>

(* The steps of a connection's task that concern no other part of hbbs.    *)
TcpStep(c, keyed, max_asks) ==
    \/ Accept(c, keyed) \/ ExchangeKeys(c) \/ RegisterOk(c) \/ Ask(c, max_asks)
    \/ Dismiss(c) \/ RefusalSent(c) \/ Sent(c) \/ Silence(c) \/ Finish(c)

-----------------------------------------------------------------------------
(* Once the keys are exchanged both directions are encrypted, wherever the *)
(* sink has gone ("the peer's next frame is still encrypted"); and neither *)
(* is before.                                                              *)
SameMode == \A c \in TcpConn : recvKey[c] = sinkKey[c]

(* A sink is in tcp_punch or with whoever took it out to send on, never    *)
(* both: no two tasks write to one connection, and no kept sink is dead.   *)
KeptOnce == \A c \in TcpConn : sink[c] = "map" <=> \E a \in Addr : tcp_punch[a] = c

(* The sink ends with the task, wherever it has gone ("if sink.is_none"):  *)
(* none is left in tcp_punch, and the socket closes with the message that  *)
(* is being written, if any.                                               *)
NoneLeft == \A c \in TcpConn : task[c] \in {"new", "done"} => sink[c] \in {"dropped", "sending"}

(* Whoever writes on a sink is alone and in the mode of its reader, and no *)
(* sink outlives its task.                                                 *)
SinkSound == SameMode /\ KeptOnce /\ NoneLeft

(* "the caller needs a route back to this one ...; over TCP it is          *)
(* tcp_punch": until an answer has been sent to it, a connection that asked*)
(* is found under its address; unless it was reset, or the task of an      *)
(* earlier connection from that address had not ended when it asked.       *)
AskerHasRoute ==
    \A c \in TcpConn : waiting[c] /\ task[c] \in Live => tcp_punch[AddrOf[c]] = c

(* No write of an answer is for ever pending because a client that is still*)
(* there does not read.                                                    *)
SinksDrain == \A c \in TcpConn : []<>(sink[c] # "sending" \/ c \in cut)

(* The 30 s timeout, and the removal of a kept sink at the end of its task:*)
(* a connection on which nothing came for 30 seconds, or whose loop was    *)
(* left, is closed unless another frame is read after all; and one that    *)
(* its client has reset is closed.  A client that keeps sending keeps its  *)
(* connection.                                                             *)
SocketsClose ==
    SinksDrain => \A c \in TcpConn :
        task[c] \in {"quiet", "closing"} \/ c \in cut
            ~> (task[c] \in {"read", "decide"} /\ c \notin cut) \/ ~ SocketOpen(c)
=============================================================================

----------------------------- MODULE Rendezvous -----------------------------
(***************************************************************************)
(* A question and its answer (src/rendezvous_server.rs).  A client asks    *)
(* hbbs for Peer, on a websocket (WsPeers) or a plain TCP connection       *)
(* (TcpPunch); hbbs passes the question on, on the websocket Peer has open *)
(* or by UDP; Peer answers on a connection of its own, and hbbs sends the  *)
(* answer the way the question came: into the channel of the asker's       *)
(* websocket, or on the sink kept in tcp_punch.  PunchLog records it.      *)
(***************************************************************************)
EXTENDS WsPeers, TcpPunch, PunchLog

CONSTANTS Peer,    \* the client that is asked for
          Scenes   \* what happens, one of: see Scene

ASSUME RendezvousAssumption ==
    /\ Addr = Key /\ From \subseteq Key /\ Id = Client /\ Peer \in Client
    /\ NoSink \notin Conn /\ NoConn \notin TcpConn
    /\ \A s \in Scenes : s.owners \subseteq [Conn -> Client] /\ s.max \in Nat

VARIABLES
    scene,  \* the scene that is played
    asked,  \* the askers' addresses in the questions that reached Peer
    open    \* history: addresses whose question was given to Peer's
            \* websocket and that nothing was sent to since

vars == <<wsVars, tcpVars, logVars, scene, asked, open>>
questions == <<scene, asked, open>>

WsOnly == UNCHANGED <<tcpVars, logVars, questions>>
TcpOnly == UNCHANGED <<wsVars, logVars, questions>>

(* The websockets that are opened, by whom, and those on which questions   *)
(* are asked (else arbitrary pushes stand for them); the TCP connections   *)
(* that are opened, and those with a key exchange (all of them if hbbs has *)
(* a key, none if not), and how many requests come on each at most;        *)
(* whether Peer answers what it is asked; MAX_PUNCH_REQUESTS.              *)
Scene(ws, owners, ask, tcp, keyed, max_asks, answers, max_reqs) ==
    [ws |-> ws, owners |-> owners, ask |-> ask, tcp |-> tcp, keyed |-> keyed,
     asks |-> max_asks, answers |-> answers, max |-> max_reqs]

Init ==
    /\ scene \in Scenes
    /\ WsInit(scene.ws, scene.owners) /\ TcpInit(scene.tcp) /\ LogInit(scene.max)
    /\ asked = {} /\ open = {}

(***************************************************************************)
(* push_to_ws_peer and, if that fails, tx.send(Data::Msg): the datagram    *)
(* arrives or is lost.  a is the address Peer is to answer to; routed says *)
(* that an answer will find the asker.                                     *)
(***************************************************************************)
PassTo(a, routed) ==
    /\ PushTo(Peer, a)
    /\ \/ /\ Reaches(Peer)
          /\ open' = IF routed THEN open \union {a} ELSE open
          /\ UNCHANGED asked
       \/ /\ ~ Reaches(Peer)
          /\ asked' \in {asked, asked \union {a}}
          /\ UNCHANGED open

(* handle_punch_hole_request records what it passes on; RequestRelay is    *)
(* passed on unrecorded.                                                   *)
Recorded(a) == Record(<<a, Peer>>) \/ UNCHANGED logVars

(* A question that came on a TCP connection.                               *)
PassOn(c) ==
    /\ task[c] = "decide"
    /\ task' = [task EXCEPT ![c] = "read"]
    /\ PassTo(PunchKey(c), waiting[c]) /\ Recorded(PunchKey(c))
    /\ UNCHANGED <<cut, keys, sink, tcp_punch, requests, waiting>>
    /\ UNCHANGED <<owner, pc, known, client, scene>>

(* A question that came on a websocket.                                    *)
PassOnWs(c) ==
    /\ pc[c] = "decide"
    /\ Goto(c, "loop")
    /\ PassTo(ConnKey(c), ws_peers[ConnKey(c)] = c) /\ Recorded(ConnKey(c))
    /\ UNCHANGED <<owner, known, client, tcpVars, scene>>

(* The kept sink is used, if there is one.                                 *)
OnSink(a) ==
    /\ TakeKept(a)
    /\ open' = IF tcp_punch[a] = NoSink THEN open ELSE open \ {a}
    /\ UNCHANGED <<ws_peers, rx_ws>>

(* Faulty variant: push_to_ws_peer is not tried.                           *)
SendToTcpOnly(a) == OnSink(a)

(* send_to_tcp, send_to_tcp_sync: push_to_ws_peer, or else the kept sink.  *)
SendToTcp(a) ==
    \/ \E k \in Client :
          /\ KeyOf[k] = a /\ Reaches(k) /\ PushTo(k, "answer")
          /\ UNCHANGED <<sink, tcp_punch, waiting, open>>
    \/ (\A k \in Client : KeyOf[k] = a => ~ Reaches(k)) /\ OnSink(a)

(* A refusal goes the way an answer would.                                 *)
RefuseAsker(c) ==
    /\ task[c] = "refuse"
    /\ SendToTcp(PunchKey(c))
    /\ task' = [task EXCEPT ![c] = IF sink'[c] = "sending" THEN "refusing" ELSE "read"]
    /\ UNCHANGED <<cut, keys, requests, owner, pc, known, client, logVars, scene, asked>>

RefuseOnWs(c) ==
    /\ pc[c] = "decide"
    /\ Goto(c, "loop")
    /\ SendToTcp(ConnKey(c))
    /\ UNCHANGED <<task, cut, keys, requests, owner, known, client, logVars, scene, asked>>

(* RequestRelay for a peer not in memory: nothing is said.                 *)
DropOnWs(c) ==
    /\ pc[c] = "decide"
    /\ Goto(c, "loop")
    /\ UNCHANGED <<owner, ws_peers, rx_ws, known, client, tcpVars, logVars, questions>>

(* A message is taken from a websocket's channel: Peer learns of a         *)
(* question, an asker of its answer, if they are still there.              *)
Forward(c) ==
    /\ Deliver(c)
    /\ LET m == Head(rx_ws[c]).msg IN
       /\ asked' = IF m \in Key /\ client[c] = "here" THEN asked \union {m} ELSE asked
       /\ open' = IF m = "answer" THEN open \ {ConnKey(c)} ELSE open
    /\ UNCHANGED <<tcpVars, logVars, scene>>

(* PunchHoleSent, LocalAddr or RelayResponse of Peer.                      *)
Answer(a) ==
    /\ a \in asked
    /\ asked' = asked \ {a}
    /\ SendToTcp(a)
    /\ UNCHANGED <<task, cut, keys, requests, owner, pc, known, client, logVars, scene>>

(* It comes twice, or not at all.                                          *)
AnswerAgain(a) ==
    /\ a \in asked /\ ~ scene.answers
    /\ SendToTcp(a)
    /\ UNCHANGED <<task, cut, keys, requests, owner, pc, known, client, logVars, scene, asked>>

AnswerLost(a) ==
    /\ a \in asked /\ ~ scene.answers
    /\ asked' = asked \ {a}
    /\ UNCHANGED <<wsVars, tcpVars, logVars, scene, open>>

(* The client of a TCP connection sends a frame that ends it, or closes it,*)
(* or resets it.                                                           *)
Closes(c) ==
    /\ LastFrame(c) \/ Hangup(c) \/ Reset(c)
    /\ open' = open \ {PunchKey(c)}
    /\ UNCHANGED <<wsVars, logVars, scene, asked>>

(* Peer has the question of a or will have it, and answers.                *)
Awaited(a) ==
    \/ a \in asked
    \/ \E c \in Conn : RxOpen(c) /\ \E i \in 1..Len(rx_ws[c]) : rx_ws[c][i].msg = a

(* It was quiet for 30 seconds; an answer under way comes too late.        *)
TimesOut(c) ==
    /\ task[c] = "quiet" /\ Hangup(c)
    /\ open' = IF Awaited(PunchKey(c)) THEN open \ {PunchKey(c)} ELSE open
    /\ UNCHANGED <<wsVars, logVars, scene, asked>>

(* What else happens.                                                      *)
Noise == /\ ~ scene.answers /\ \E k \in Client : Push(k)
         /\ WsOnly

Logged == /\ max > 0
          /\ Tick \/ ClearLog \/ \E r \in From \X Id : Record(r)
          /\ UNCHANGED <<wsVars, tcpVars, questions>>

Next ==
    \/ \E c \in Conn :
          \/ WsStep(c) /\ WsOnly
          \/ c \in scene.ask /\ AskOnWs(c) /\ WsOnly
          \/ PassOnWs(c) \/ RefuseOnWs(c) \/ DropOnWs(c) \/ Forward(c)
    \/ \E c \in TcpConn :
          \/ TcpStep(c, scene.keyed, scene.asks) /\ TcpOnly
          \/ PassOn(c) \/ RefuseAsker(c) \/ Closes(c) \/ TimesOut(c)
    \/ \E a \in Key : Answer(a) \/ AnswerAgain(a) \/ AnswerLost(a)
    \/ Noise \/ Logged

(***************************************************************************)
(* select! picks one of the ready branches at random, so neither the       *)
(* channel nor the stream is passed over for ever; the timer of a task     *)
(* that is left alone fires; a loop that ended is unwound; a task that can *)
(* run does; what is read from or written to a connection that was reset   *)
(* fails; and Peer answers.                                                *)
(***************************************************************************)
Fairness ==
    /\ \A c \in Conn :
          /\ SF_vars(Forward(c))
          /\ SF_vars(StreamEnds(c) /\ WsOnly)
          /\ WF_vars(((client[c] = "dead" /\ IdleClose(c)) \/ DropGuard(c) \/ DropRx(c)) /\ WsOnly)
    /\ \A c \in TcpConn :
          WF_vars(\/ PassOn(c) \/ RefuseAsker(c) \/ TimesOut(c)
                  \/ (Dismiss(c) \/ RefusalSent(c) \/ Finish(c)) /\ TcpOnly
                  \/ c \in cut /\ (Closes(c) \/ (Sent(c) /\ TcpOnly)))
    /\ WF_vars(\E a \in Key : Answer(a))

Spec == Init /\ [][Next]_vars /\ Fairness

-----------------------------------------------------------------------------
(***************************************************************************)
(* "The reply may arrive on a different connection, so the caller needs a  *)
(* route back to this one": a question that hbbs gave to the websocket of  *)
(* the peer is followed by a message to the one who asked, on whichever    *)
(* kind of connection they asked, as long as both websockets stay and a    *)
(* TCP connection is not timed out while the answer is under way.          *)
(***************************************************************************)
QuestionAnswered ==
    ReadersRead => \A a \in Key \ {KeyOf[Peer]} : a \in open ~>
        \/ a \notin open
        \/ \E c \in scene.ws : client[c] # "here" \/ pc[c] \in {"guard", "rx", "closed"}
=============================================================================

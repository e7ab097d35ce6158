---------------------------- MODULE RelayProofs -----------------------------
(***************************************************************************)
(* Proofs about RelayPairing, for any number of connections, sessions and  *)
(* addresses: the inductive invariant, the safety properties that follow   *)
(* from it, and that the relay implements Matchmaker.  And about           *)
(* RelayHealth: what parse_relay_list keeps of a list, and that every list *)
(* hbbs hands out is sound, for any relays, any number of checks that      *)
(* overlap and any commands between them.                                  *)
(***************************************************************************)
EXTENDS RelayHealth, RelayPairing, FiniteSetTheorems, TLAPS

(* The provers are given time: SMT first, then Zenon.                      *)
USE SMTT(40), ZenonT(40)

-----------------------------------------------------------------------------
(* The tables are empty and no task has begun: the invariant holds.        *)
LEMMA InitInv == Init => PairingInv
BY PairingAssumption DEF Init, PairingInv, TypeOK, WaiterHasTimer, PairSound,
     NoLeakedSocket, UsageSound, Relaying, PcTypes, BeforeWait, Waits

(* A relay that runs, or begins to, moves within its loop or leaves it.    *)
LEMMA RelayMoves ==
    ASSUME PairingInv, NEW c \in Conn, pc[c] \in {"pair", "relay", "sendown", "sendpeer"},
           NEW l \in {"relay", "sendown", "sendpeer", "cleanup"}, pc' = [pc EXCEPT ![c] = l],
           USAGE' = USAGE \/ USAGE' = USAGE \union {UsageId[c]},
           quiet' = quiet \/ quiet' = quiet \ {c},
           UNCHANGED <<req, PEERS, peer, closed, BLOCKLIST, hungup>>
    PROVE  PairingInv'
<1>1. pc \in [Conn -> PcTypes] /\ \A d \in Conn : Relaying(d)' <=> Relaying(d)
  BY DEF PairingInv, TypeOK, Relaying
<1>2. TypeOK'
  BY DEF PairingInv, TypeOK, PcTypes
<1>3. WaiterHasTimer' /\ NoLeakedSocket'
  BY <1>1 DEF PairingInv, TypeOK, WaiterHasTimer, NoLeakedSocket
<1>4. PairSound'
  BY <1>1 DEF PairingInv, TypeOK, PairSound
<1>5. UsageSound'
  BY <1>1 DEF PairingInv, UsageSound, Relaying
<1>6. Relaying(c)
  BY DEF Relaying
<1> QED
  BY <1>1, <1>2, <1>3, <1>4, <1>5, <1>6 DEF PairingInv, BeforeWait, Waits

(* Every step of a task, of a client or of the console keeps it.           *)
LEMMA NextInv == PairingInv /\ [Next]_vars => PairingInv'
<1> SUFFICES ASSUME PairingInv, [Next]_vars PROVE PairingInv'
  OBVIOUS
<1> USE PairingAssumption DEF Goto, PairingInv, TypeOK, WaiterHasTimer, PairSound,
     NoLeakedSocket, UsageSound, Relaying, PcTypes, BeforeWait, Waits
<1>1. ASSUME NEW c \in Conn, Accept(c) PROVE PairingInv'
  BY <1>1 DEF Accept
<1>2. ASSUME NEW c \in Conn, GiveUp(c) PROVE PairingInv'
  BY <1>2 DEF GiveUp
<1>3. ASSUME NEW c \in Conn, NEW u \in Uuid, RecvRequest(c, u) PROVE PairingInv'
  BY <1>3 DEF RecvRequest
<1>4. ASSUME NEW c \in Conn, TakePeer(c) PROVE PairingInv'
  BY <1>4 DEF TakePeer
<1>5. ASSUME NEW c \in Conn, InsertSelf(c) PROVE PairingInv'
  BY <1>5 DEF InsertSelf
<1>6. ASSUME NEW c \in Conn, Expire(c) PROVE PairingInv'
  BY <1>6 DEF Expire
<1>7. ASSUME NEW c \in Conn, Cleanup(c) PROVE PairingInv'
  BY <1>7 DEF Cleanup
<1>8. ASSUME NEW c \in Conn, Silence(c) PROVE PairingInv'
  BY <1>8 DEF Sending, Silence
<1>9. ASSUME NEW c \in Conn, HangUp(c) PROVE PairingInv'
  BY <1>9 DEF HangUp
<1>10. CASE Console
  BY <1>10 DEF Console
<1>11. CASE UNCHANGED vars
  BY <1>11 DEF vars
<1>13. ASSUME NEW c \in Conn, Handshake(c) PROVE PairingInv'
  BY <1>13 DEF Handshake
<1> HIDE DEF Goto, PairingInv, TypeOK, WaiterHasTimer, PairSound,
     NoLeakedSocket, UsageSound, Relaying, PcTypes, BeforeWait, Waits
<1>12. ASSUME NEW c \in Conn,
              StartRelay(c) \/ Frame(c) \/ Sent(c) \/ SendFails(c) \/ TimerTick(c) \/ StreamEnds(c)
       PROVE  PairingInv'
  <2>1. /\ pc[c] \in {"pair", "relay", "sendown", "sendpeer"}
        /\ \E l \in {"relay", "sendown", "sendpeer", "cleanup"} : pc' = [pc EXCEPT ![c] = l]
        /\ USAGE' = USAGE \/ USAGE' = USAGE \union {UsageId[c]}
        /\ quiet' = quiet \/ quiet' = quiet \ {c}
        /\ UNCHANGED <<req, PEERS, peer, closed, BLOCKLIST, hungup>>
    BY <1>12, ZenonT(40) DEF StartRelay, Frame, Sent, SendFails, TimerTick, StreamEnds, LoopEnd, Bookkeep,
                 Sending, Goto
  <2> QED BY <2>1, RelayMoves, Zenon
<1> QED
  BY <1>1, <1>2, <1>3, <1>4, <1>5, <1>6, <1>7, <1>8, <1>9, <1>10, <1>11, <1>12, <1>13, ZenonT(40)
     DEF Next

(* The invariant holds in every reachable state.                           *)
THEOREM InvariantHolds == Spec => []PairingInv
BY InitInv, NextInv, PTL DEF Spec

(* Every variable keeps its type.                                          *)
THEOREM TypeCorrect == Spec => []TypeOK
<1>1. PairingInv => TypeOK
  BY DEF PairingInv
<1> QED
  BY <1>1, InvariantHolds, PTL

(* An entry of PEERS always has a task asleep that will remove it, though  *)
(* lookup and insertion are two steps and the timer removes by uuid.       *)
THEOREM WaitersExpire == Spec => []WaiterHasTimer
<1>1. PairingInv => WaiterHasTimer
  BY DEF PairingInv
<1> QED
  BY <1>1, InvariantHolds, PTL

(* A relay joins two open streams of one session, and a stream is in one   *)
(* relay at most.                                                          *)
THEOREM RelaysAreSound == Spec => []PairSound
<1>1. PairingInv => PairSound
  BY DEF PairingInv
<1> QED
  BY <1>1, InvariantHolds, PTL

(* No socket is left open without an owner that will close it.             *)
THEOREM NoSocketLeaks == Spec => []NoLeakedSocket
<1>1. PairingInv => NoLeakedSocket
  BY DEF PairingInv
<1> QED
  BY <1>1, InvariantHolds, PTL

(* The USAGE table lists running relays only, whichever of them share keys.*)
THEOREM UsageIsSound == Spec => []UsageSound
<1>1. PairingInv => UsageSound
  BY DEF PairingInv
<1> QED
  BY <1>1, InvariantHolds, PTL

(* All of that at once: of the entry a task leaves in PEERS, of the streams*)
(* of a relay, of the sockets nobody owns and of the relays in USAGE.      *)
THEOREM PairingSoundHolds == Spec => []PairingSound
<1>1. PairingInv => PairingSound
  BY DEF PairingInv, PairingSound
<1> QED
  BY <1>1, InvariantHolds, PTL

-----------------------------------------------------------------------------
(* A stream was joined with at most one other: the one its task took, or   *)
(* the one whose task took it.                                             *)
LEMMA PartnerOfTaken ==
    ASSUME PairingInv, NEW c \in Conn, NEW d \in Conn, peer[c] = d
    PROVE  PartnerOf(c) = d /\ PartnerOf(d) = c
<1>1. d # NoConn /\ peer[d] = NoConn
  BY PairingAssumption DEF PairingInv
<1>2. \A e \in Conn : peer[e] = d => e = c
  BY PairingAssumption DEF PairingInv
<1> QED
  BY <1>1, <1>2 DEF PartnerOf

(* The initial states are initial states of Matchmaker.                    *)
LEMMA InitMatch == Init => M!MatchInit
BY PairingAssumption DEF Init, M!MatchInit, StageOf, PartnerOf, Relaying

(* A step that leaves the partners and the stages alone is a stutter.      *)
LEMMA StutterMatch ==
    ASSUME req' = req, peer' = peer, closed' = closed,
           \A c \in Conn : Relaying(c)' = Relaying(c),
           \A c \in Conn : (pc[c] = "sleep")' = (pc[c] = "sleep")
    PROVE  [M!MatchNext]_(M!absVars)
<1> USE PairingAssumption
<1> DEFINE st == [e \in Conn |-> StageOf(e)]
           pt == [e \in Conn |-> PartnerOf(e)]
<1>1. st' = st
  BY DEF StageOf
<1>2. pt' = pt
  BY DEF PartnerOf
<1> QED
  BY <1>1, <1>2 DEF M!absVars

(* A step that closes an open or waiting stream, and changes no other, is  *)
(* a Drop.                                                                 *)
LEMMA DropMatch ==
    ASSUME NEW d \in Conn, StageOf(d) \in {"open", "waiting"},
           req' = req, peer' = peer, closed' = closed \union {d},
           \A c \in Conn : Relaying(c)' = Relaying(c),
           \A c \in Conn \ closed' : StageOf(c) # "joined" =>
                                ((pc[c] = "sleep")' = (pc[c] = "sleep"))
    PROVE  M!MatchNext
<1> USE PairingAssumption
<1> DEFINE st == [e \in Conn |-> StageOf(e)]
           pt == [e \in Conn |-> PartnerOf(e)]
<1>1. st' = [st EXCEPT ![d] = "closed"]
  BY ZenonT(40) DEF StageOf
<1>2. pt' = pt
  BY DEF PartnerOf
<1>3. M!Drop(d)
  BY <1>1, <1>2 DEF M!Drop
<1> QED
  BY <1>3 DEF M!MatchNext

(* Taking the stream that waits is a Join; finding none is not seen.       *)
LEMMA TakeMatch ==
    ASSUME PairingInv, NEW c \in Conn, TakePeer(c)
    PROVE  [M!MatchNext]_(M!absVars)
<1> USE PairingAssumption
<1> DEFINE st == [e \in Conn |-> StageOf(e)]
           pt == [e \in Conn |-> PartnerOf(e)]
<1>1. CASE PEERS[req[c]] = NoConn
  <2>1. peer' = peer
    BY <1>1 DEF TakePeer, PairingInv, TypeOK, BeforeWait
  <2> QED
    BY StutterMatch, <1>1, <2>1 DEF TakePeer, Goto, Relaying, PairingInv, TypeOK
<1>2. CASE PEERS[req[c]] # NoConn
  <2>1. PICK d \in Conn :
        /\ d = PEERS[req[c]] /\ req[c] \in Uuid /\ d # c
        /\ pc[d] = "sleep" /\ req[d] = req[c] /\ {c, d} \cap closed = {}
        /\ peer[c] = NoConn /\ peer[d] = NoConn
    BY <1>2 DEF TakePeer, PairingInv, TypeOK, WaiterHasTimer, BeforeWait
  <2>2. \A e \in Conn : peer[e] # c
    BY DEF TakePeer, PairingInv, TypeOK, Waits
  <2>3. \A e \in Conn : peer[e] # d
    BY <2>1 DEF PairingInv, TypeOK
  <2>4. StageOf(c) = "open" /\ StageOf(d) = "waiting"
    BY <2>1, <2>2, <2>3, ZenonT(40) DEF TakePeer, StageOf, Relaying
  <2>5. peer' = [peer EXCEPT ![c] = d] /\ pc' = [pc EXCEPT ![c] = "pair"]
        /\ closed' = closed /\ req' = req
    BY <1>2, <2>1 DEF TakePeer, Goto
  <2>6. st' = [st EXCEPT ![c] = "joined", ![d] = "joined"]
    <3> SUFFICES ASSUME NEW e \in Conn
                 PROVE  StageOf(e)' = [st EXCEPT ![c] = "joined", ![d] = "joined"][e]
      BY <2>1, Zenon
    <3>1. CASE e \in {c, d}
      BY <2>1, <2>5, <3>1, ZenonT(40) DEF StageOf, Relaying, PairingInv, TypeOK
    <3>2. CASE e \notin {c, d}
      <4>1. ~ Relaying(c)
        BY DEF TakePeer, Relaying
      <4>2. pc'[e] = pc[e] /\ Relaying(e)' = Relaying(e)
        BY <2>5, <3>2 DEF Relaying, PairingInv, TypeOK
      <4>3. \A f \in Conn : (Relaying(f) /\ peer[f] = e)' <=> (Relaying(f) /\ peer[f] = e)
        BY <2>5, <3>2, <4>1, ZenonT(40) DEF Relaying, PairingInv, TypeOK
      <4>4. StageOf(e)' = StageOf(e)
        BY <2>5, <4>2, <4>3 DEF StageOf
      <4> QED
        BY <3>2, <4>4, Zenon
    <3> QED
      BY <3>1, <3>2
  <2>7. pt' = [pt EXCEPT ![c] = d, ![d] = c]
    <3>1. PartnerOf(c)' = d /\ PartnerOf(d)' = c
      <4>1. peer'[c] = d /\ peer'[d] = NoConn
        BY <2>1, <2>5 DEF PairingInv, TypeOK
      <4>2. \A e \in Conn : peer'[e] = d => e = c
        BY <2>1, <2>3, <2>5, ZenonT(40) DEF PairingInv, TypeOK
      <4> QED
        BY <2>1, <4>1, <4>2, ZenonT(40) DEF PartnerOf
    <3>2. ASSUME NEW e \in Conn, e \notin {c, d} PROVE PartnerOf(e)' = PartnerOf(e)
      <4>1. peer'[e] = peer[e] /\ \A f \in Conn : (peer'[f] = e) <=> (peer[f] = e)
        BY <2>1, <2>5, <3>2 DEF PairingInv, TypeOK
      <4>2. (CHOOSE f \in Conn : peer'[f] = e) = (CHOOSE f \in Conn : peer[f] = e)
        BY <4>1
      <4> QED
        BY <4>1, <4>2, Zenon DEF PartnerOf
    <3> QED
      BY <2>1, <3>1, <3>2, Zenon
  <2>8. M!Join(c, d)
    BY <2>1, <2>4, <2>5, <2>6, <2>7, ZenonT(40) DEF M!Join
  <2> QED
    BY <2>1, <2>8 DEF M!MatchNext
<1> QED
  BY <1>1, <1>2

(* Entering PEERS is a Wait, or a Displace of a stream that got there      *)
(* meanwhile.                                                              *)
LEMMA InsertMatch ==
    ASSUME PairingInv, NEW c \in Conn, InsertSelf(c)
    PROVE  [M!MatchNext]_(M!absVars)
<1> USE PairingAssumption
<1> DEFINE st == [e \in Conn |-> StageOf(e)]
           pt == [e \in Conn |-> PartnerOf(e)]
<1>1. /\ req[c] \in Uuid /\ c \notin closed /\ peer[c] = NoConn
      /\ \A e \in Conn : peer[e] # c
      /\ StageOf(c) = "open"
  BY DEF InsertSelf, PairingInv, TypeOK, PairSound, Relaying, StageOf, BeforeWait, Waits
<1>2. pt' = pt
  BY DEF InsertSelf, PartnerOf
<1>3. \A e \in Conn : Relaying(e)' = Relaying(e)
  BY DEF InsertSelf, Goto, Relaying, PairingInv, TypeOK
<1>4. /\ ~ Relaying(c) /\ pc'[c] = "sleep"
      /\ \A e \in Conn : e # c => pc'[e] = pc[e]
  BY DEF InsertSelf, Goto, Relaying, PairingInv, TypeOK
<1>5. CASE PEERS[req[c]] = NoConn
  <2>1. closed' = closed
    BY <1>5 DEF InsertSelf
  <2>2. st' = [st EXCEPT ![c] = "waiting"]
    BY <1>1, <1>3, <1>4, <2>1, ZenonT(40) DEF InsertSelf, StageOf
  <2>3. \A e \in Conn : ~ (StageOf(e) = "waiting" /\ req[e] = req[c])
    BY <1>1, <1>5 DEF StageOf, PairingInv, TypeOK, NoLeakedSocket, WaiterHasTimer
  <2>4. M!Wait(c)
    BY <1>1, <1>2, <2>2, <2>3, ZenonT(40) DEF InsertSelf, M!Wait
  <2> QED
    BY <2>4 DEF M!MatchNext
<1>6. CASE PEERS[req[c]] # NoConn
  <2>1. PICK d \in Conn :
        /\ d = PEERS[req[c]] /\ d # c /\ pc[d] = "sleep" /\ d \notin closed
        /\ req[d] = req[c] /\ closed' = closed \union {d}
    BY <1>1, <1>6 DEF InsertSelf, PairingInv, TypeOK, WaiterHasTimer
  <2>2. \A e \in Conn : peer[e] = d => ~ Relaying(e)
    BY <1>1, <2>1, ZenonT(40) DEF PairingInv
  <2>3. StageOf(d) = "waiting"
    BY <2>1, <2>2 DEF StageOf, Relaying
  <2>4. st' = [st EXCEPT ![c] = "waiting", ![d] = "closed"]
    BY <1>1, <1>3, <1>4, <2>1, ZenonT(40) DEF InsertSelf, StageOf
  <2>5. M!Displace(c, d)
    BY <1>1, <1>2, <2>1, <2>3, <2>4, ZenonT(40) DEF InsertSelf, M!Displace
  <2> QED
    BY <2>1, <2>5 DEF M!MatchNext
<1> QED
  BY <1>5, <1>6

(* A timer that fires drops whatever stream it finds, or nothing.          *)
LEMMA ExpireMatch ==
    ASSUME PairingInv, NEW c \in Conn, Expire(c)
    PROVE  [M!MatchNext]_(M!absVars)
<1> USE PairingAssumption
<1> DEFINE st == [e \in Conn |-> StageOf(e)]
           pt == [e \in Conn |-> PartnerOf(e)]
<1>1. req[c] \in Uuid /\ \A e \in Conn : Relaying(e)' = Relaying(e)
  BY DEF Expire, Goto, Relaying, PairingInv, TypeOK
(* Once c's timer has fired c's stream is closed or joined.              *)
<1>2. c \in closed' \/ StageOf(c) = "joined"
  BY <1>1 DEF Expire, StageOf, PairingInv, TypeOK, NoLeakedSocket, WaiterHasTimer
<1>3. \A e \in Conn : e # c => ((pc[e] = "sleep")' = (pc[e] = "sleep"))
  BY DEF Expire, Goto, PairingInv, TypeOK
<1>4. CASE PEERS[req[c]] = NoConn
  <2>1. closed' = closed
    BY <1>4 DEF Expire
  <2>2. st' = st
    BY <1>1, <1>2, <1>3, <2>1, ZenonT(40) DEF Expire, StageOf
  <2>3. pt' = pt
    BY DEF Expire, PartnerOf
  <2> QED
    BY <2>2, <2>3 DEF Expire, M!absVars
<1>5. CASE PEERS[req[c]] # NoConn
  <2>1. PICK d \in Conn :
        /\ d = PEERS[req[c]] /\ pc[d] = "sleep"
        /\ d \notin closed /\ closed' = closed \union {d}
    BY <1>1, <1>5 DEF Expire, PairingInv, TypeOK, WaiterHasTimer
  <2>2. \A e \in Conn : peer[e] = d => ~ Relaying(e)
    BY <1>1, <2>1, ZenonT(40) DEF PairingInv
  <2>3. StageOf(d) = "waiting"
    BY <2>1, <2>2 DEF StageOf, Relaying
  <2> QED
    BY DropMatch, <1>1, <1>2, <1>3, <2>1, <2>3, ZenonT(40) DEF Expire
<1> QED
  BY <1>4, <1>5

(* The end of a relay is a Part.                                           *)
LEMMA CleanupMatch ==
    ASSUME PairingInv, NEW c \in Conn, Cleanup(c)
    PROVE  [M!MatchNext]_(M!absVars)
<1> USE PairingAssumption
<1> DEFINE st == [e \in Conn |-> StageOf(e)]
           pt == [e \in Conn |-> PartnerOf(e)]
<1>1. PICK d \in Conn :
      /\ d = peer[c] /\ d # c /\ {c, d} \cap closed = {}
      /\ closed' = closed \union {c, d}
  <2>1. Relaying(c)
    BY DEF Cleanup, Relaying
  <2>2. peer[c] \in Conn /\ {c, peer[c]} \cap closed = {} /\ ~ Relaying(peer[c])
    BY <2>1 DEF PairingInv, PairSound
  <2>3. closed' = closed \union {c, peer[c]}
    BY DEF Cleanup
  <2> QED
    BY <2>1, <2>2, <2>3
<1>2. StageOf(c) = "joined" /\ PartnerOf(c) = d
  BY <1>1, PartnerOfTaken DEF Cleanup, StageOf, Relaying
<1>3. \A e \in Conn : e # c => (Relaying(e)' = Relaying(e) /\ pc'[e] = pc[e])
  BY DEF Cleanup, Goto, Relaying, PairingInv, TypeOK
<1>4. st' = [st EXCEPT ![c] = "closed", ![d] = "closed"]
  <2> SUFFICES ASSUME NEW e \in Conn
               PROVE  StageOf(e)' = [st EXCEPT ![c] = "closed", ![d] = "closed"][e]
    BY <1>1, Zenon
  <2>1. CASE e \in {c, d}
    BY <1>1, <2>1 DEF StageOf
  <2>2. CASE e \notin {c, d}
    BY <1>1, <1>3, <2>2, ZenonT(40) DEF Cleanup, StageOf
  <2> QED
    BY <2>1, <2>2
<1>5. pt' = pt
  BY DEF Cleanup, PartnerOf
<1>6. M!Part(c)
  BY <1>1, <1>2, <1>4, <1>5, ZenonT(40) DEF Cleanup, M!Part
<1> QED
  BY <1>6 DEF M!MatchNext

(* Every step is a step of Matchmaker, or none.                            *)
LEMMA StepMatch ==
    PairingInv /\ [Next]_vars => [M!MatchNext]_(M!absVars)
<1> SUFFICES ASSUME PairingInv, [Next]_vars
             PROVE  [M!MatchNext]_(M!absVars)
  OBVIOUS
<1> USE PairingAssumption
<1> DEFINE st == [c \in Conn |-> StageOf(c)]
           pt == [c \in Conn |-> PartnerOf(c)]
<1>1. ASSUME NEW c \in Conn, Accept(c) PROVE [M!MatchNext]_(M!absVars)
  <2>1. CASE closed' = closed
    BY <1>1, StutterMatch, <2>1 DEF Accept, Goto, Relaying, PairingInv, TypeOK
  <2>2. CASE closed' = closed \union {c}
    <3>1. StageOf(c) = "open"
      BY <1>1 DEF Accept, StageOf, PairingInv, TypeOK, PairSound, Relaying, Waits, BeforeWait
    <3> QED
      BY <1>1, DropMatch, <2>2, <3>1 DEF Accept, Goto, Relaying, PairingInv, TypeOK
  <2> QED
    BY <1>1, <2>1, <2>2 DEF Accept
<1>2. ASSUME NEW c \in Conn, GiveUp(c) PROVE [M!MatchNext]_(M!absVars)
  <2>1. StageOf(c) = "open"
    BY <1>2 DEF GiveUp, StageOf, PairingInv, TypeOK, PairSound, Relaying, Waits, BeforeWait
  <2> QED
    BY <1>2, DropMatch, <2>1 DEF GiveUp, Goto, Relaying, PairingInv, TypeOK
<1>3. ASSUME NEW c \in Conn, NEW u \in Uuid, RecvRequest(c, u)
      PROVE  [M!MatchNext]_(M!absVars)
  <2>1. StageOf(c) = "open" /\ req[c] = NoUuid
    BY <1>3 DEF RecvRequest, StageOf, PairingInv, TypeOK, PairSound, Relaying, Waits, BeforeWait
  <2>2. st' = st
    BY <1>3, ZenonT(40) DEF RecvRequest, Goto, StageOf, Relaying, PairingInv, TypeOK
  <2>3. pt' = pt
    BY <1>3 DEF RecvRequest, PartnerOf
  <2>4. M!Ask(c, u)
    BY <1>3, <2>1, <2>2, <2>3 DEF RecvRequest, M!Ask
  <2> QED
    BY <2>4, ZenonT(40) DEF M!MatchNext
<1>4. ASSUME NEW c \in Conn, TakePeer(c) PROVE [M!MatchNext]_(M!absVars)
  BY <1>4, TakeMatch
<1>5. ASSUME NEW c \in Conn, InsertSelf(c) PROVE [M!MatchNext]_(M!absVars)
  BY <1>5, InsertMatch
<1>6. ASSUME NEW c \in Conn, Expire(c) PROVE [M!MatchNext]_(M!absVars)
  BY <1>6, ExpireMatch
<1>7. ASSUME NEW c \in Conn, Cleanup(c) PROVE [M!MatchNext]_(M!absVars)
  BY <1>7, CleanupMatch
(* What a relay does while it runs is not seen at this level.              *)
<1>8. ASSUME NEW c \in Conn,
             StartRelay(c) \/ Frame(c) \/ Sent(c) \/ SendFails(c) \/ TimerTick(c)
               \/ StreamEnds(c)
      PROVE  [M!MatchNext]_(M!absVars)
  <2>1. /\ req' = req /\ peer' = peer /\ closed' = closed
        /\ Relaying(c) /\ \E l \in {"relay", "sendown", "sendpeer", "cleanup"} : Goto(c, l)
    BY <1>8 DEF StartRelay, Frame, Sent, SendFails, TimerTick, StreamEnds, LoopEnd,
                Bookkeep, Sending, Relaying
  <2> QED
    BY StutterMatch, <2>1 DEF Goto, Relaying, PairingInv, TypeOK
<1>9. ASSUME NEW c \in Conn, Silence(c) \/ HangUp(c) PROVE [M!MatchNext]_(M!absVars)
  BY StutterMatch, <1>9 DEF Silence, HangUp, Relaying
<1>10. CASE Console
  BY StutterMatch, <1>10 DEF Console, Relaying
<1>11. CASE UNCHANGED vars
  BY StutterMatch, <1>11 DEF vars, Relaying
<1>12. ASSUME NEW c \in Conn, Handshake(c) PROVE [M!MatchNext]_(M!absVars)
  BY <1>12, StutterMatch DEF Handshake, Goto, Relaying, PairingInv, TypeOK
<1> QED
  BY <1>1, <1>2, <1>3, <1>4, <1>5, <1>6, <1>7, <1>8, <1>9, <1>10, <1>11, <1>12, ZenonT(40)
     DEF Next

(* The relay, whose tasks look a partner up and enter themselves in two    *)
(* steps and whose timers remove whatever they find, implements Matchmaker.*)
THEOREM Refinement == Spec => ImplementsMatchmaker
BY InitMatch, StepMatch, InvariantHolds, PTL DEF Spec, ImplementsMatchmaker, M!MatchSpec

-----------------------------------------------------------------------------
(* Positions of a list can be put in ascending order: one goes where as    *)
(* many are not behind it.                                                 *)
Ascends(at, S) ==
    /\ at \in [1..Cardinality(S) -> S]
    /\ \A i, j \in 1..Cardinality(S) : i < j => at[i] < at[j]

LEMMA CountUpTo ==
    ASSUME NEW n \in Nat, NEW S \in SUBSET (1..n)
    PROVE  /\ IsFiniteSet(S) /\ Cardinality(S) \in Nat
           /\ IsFiniteSet(1..Cardinality(S)) /\ Cardinality(1..Cardinality(S)) = Cardinality(S)
<1>1. IsFiniteSet(1..n)
  <2>1. 1 \in Int /\ n \in Int
    OBVIOUS
  <2> QED BY <2>1, FS_Interval, Zenon
<1>2. IsFiniteSet(S) /\ Cardinality(S) \in Nat
  BY <1>1, FS_Subset, FS_CardinalityType, Zenon
<1> DEFINE m == Cardinality(S)
<1>3. m \in Nat /\ m \in Int /\ 1 \in Int
  BY <1>2
<1> HIDE DEF m
<1>4. IsFiniteSet(1..m) /\ Cardinality(1..m) = IF 1 > m THEN 0 ELSE m - 1 + 1
  BY <1>3, FS_Interval, Zenon
<1>5. Cardinality(1..m) = m
  BY <1>3, <1>4
<1> QED BY <1>2, <1>4, <1>5 DEF m

LEMMA CanBeOrdered ==
    ASSUME NEW n \in Nat, NEW S \in SUBSET (1..n)
    PROVE  \E at : Ascends(at, S)
<1> DEFINE N == 1..Cardinality(S)
           D(i) == {j \in S : j <= i}
           rank == [i \in S |-> Cardinality(D(i))]
<1>1. /\ IsFiniteSet(S) /\ Cardinality(S) \in Nat
      /\ IsFiniteSet(N) /\ Cardinality(N) = Cardinality(S)
  BY CountUpTo, Zenon
<1>0. \A k \in S : k \in Nat
  OBVIOUS
<1>2. ASSUME NEW i \in S
      PROVE  IsFiniteSet(D(i)) /\ Cardinality(D(i)) \in Nat /\ rank[i] \in N
  <2>1. D(i) \in SUBSET S /\ i \in D(i)
    OBVIOUS
  <2> HIDE DEF D
  <2>2. /\ IsFiniteSet(D(i)) /\ Cardinality(D(i)) \in Nat
        /\ Cardinality(D(i)) <= Cardinality(S) /\ Cardinality(D(i)) # 0
    BY <1>1, <2>1, FS_Subset, FS_EmptySet, FS_CardinalityType
  <2> QED BY <1>1, <2>2
<1>3. ASSUME NEW i \in S, NEW j \in S, i < j PROVE rank[i] < rank[j]
  <2>1. D(i) \in SUBSET D(j) /\ j \in D(j) /\ j \notin D(i)
    <3>1. i \in Nat /\ j \in Nat
      BY <1>0
    <3>2. \A k \in S : k <= i => k <= j
      BY <1>0, <1>3, <3>1
    <3>3. j <= j /\ ~ (j <= i)
      BY <1>3, <3>1
    <3> QED BY <3>2, <3>3, Zenon
  <2> HIDE DEF D
  <2>2. IsFiniteSet(D(j)) /\ Cardinality(D(i)) \in Nat /\ Cardinality(D(j)) \in Nat
    BY <1>2
  <2>3. Cardinality(D(i)) <= Cardinality(D(j)) /\ Cardinality(D(j)) # Cardinality(D(i))
    BY <2>1, <2>2, FS_Subset
  <2> QED BY <2>2, <2>3
<1> HIDE DEF D, rank
<1>4. rank \in [S -> N]
  BY <1>2 DEF rank
<1>5. ASSUME NEW i \in S, NEW j \in S, rank[i] = rank[j] PROVE i = j
  <2>1. i \in Nat /\ j \in Nat /\ rank[i] \in Nat
    BY <1>4
  <2> QED BY <1>3, <1>5, <2>1
<1>6. \A r \in N : \E i \in S : rank[i] = r
  <2> HIDE DEF N
  <2>1. rank \in Injection(S, N)
    BY <1>4, <1>5 DEF Injection, IsInjective
  <2>2. rank \in Surjection(S, N)
    BY <1>1, <2>1, FS_Injection
  <2> QED BY <2>2 DEF Surjection
<1> DEFINE at == [r \in N |-> CHOOSE i \in S : rank[i] = r]
<1>7. at \in [N -> S] /\ \A r \in N : rank[at[r]] = r
  BY <1>6, Zenon
<1> HIDE DEF at
<1>8. ASSUME NEW i \in N, NEW j \in N, i < j PROVE at[i] < at[j]
  <2>1. at[i] \in S /\ at[j] \in S /\ rank[at[i]] = i /\ rank[at[j]] = j
    BY <1>7
  <2>2. i \in Nat /\ j \in Nat /\ at[i] \in Nat /\ at[j] \in Nat
    <3>1. i \in Nat /\ j \in Nat
      BY <1>1
    <3> QED BY <1>0, <2>1, <3>1, Zenon
  <2>3. at[i] # at[j]
    BY <1>8, <2>1, <2>2
  <2>4. ~ (at[j] < at[i])
    BY <1>3, <1>8, <2>1, <2>2
  <2> QED BY <2>2, <2>3, <2>4
<1>9. Ascends(at, S)
  BY <1>7, <1>8 DEF Ascends
<1> QED BY <1>9

(* InOrder lists all of the positions, in ascending order.                 *)
LEMMA InOrderIs ==
    ASSUME NEW n \in Nat, NEW S \in SUBSET (1..n)
    PROVE  /\ Ascends(InOrder(S), S)
           /\ \A k \in S : \E i \in 1..Cardinality(S) : InOrder(S)[i] = k
<1> DEFINE N == 1..Cardinality(S)
           at == InOrder(S)
<1>1. Ascends(at, S)
  BY CanBeOrdered, Zenon DEF InOrder, Ascends
<1>2. /\ IsFiniteSet(S) /\ Cardinality(S) \in Nat
      /\ IsFiniteSet(N) /\ Cardinality(N) = Cardinality(S)
  BY CountUpTo, Zenon
<1> HIDE DEF at
<1>3. \A i, j \in N : at[i] = at[j] => i = j
  <2> SUFFICES ASSUME NEW i \in N, NEW j \in N, at[i] = at[j], i # j PROVE FALSE
    OBVIOUS
  <2>1. i \in Nat /\ j \in Nat /\ at[i] \in Nat /\ at[j] \in Nat
    <3>1. i \in Nat /\ j \in Nat
      BY <1>2
    <3>2. \A k \in S : k \in Nat
      OBVIOUS
    <3>3. at[i] \in S /\ at[j] \in S
      BY <1>1, Zenon DEF Ascends
    <3> QED BY <3>1, <3>2, <3>3, Zenon
  <2> QED BY <1>1, <2>1 DEF Ascends
<1>4. \A k \in S : \E i \in N : at[i] = k
  <2>0. at \in [N -> S]
    BY <1>1 DEF Ascends
  <2> HIDE DEF N
  <2>1. at \in Injection(N, S)
    BY <1>3, <2>0 DEF Injection, IsInjective
  <2>2. at \in Surjection(N, S)
    BY <1>2, <2>1, FS_Injection
  <2> QED BY <2>2 DEF Surjection
<1> QED BY <1>1, <1>4 DEF at

-----------------------------------------------------------------------------
(* The elements of got stand in the order of their places in list, places  *)
(* of S, each at a place of its own.                                       *)
Orderly(got, list, S) ==
    \A i, j \in 1..Len(got) : i < j =>
        \E k, l \in S : k < l /\ list[k] = got[i] /\ list[l] = got[j]

LEMMA OrderlyIn ==
    ASSUME NEW got, NEW list, NEW S, NEW T, S \subseteq T, Orderly(got, list, S)
    PROVE  Orderly(got, list, T)
<1> SUFFICES ASSUME NEW i \in 1..Len(got), NEW j \in 1..Len(got), i < j
             PROVE  \E k, l \in T : k < l /\ list[k] = got[i] /\ list[l] = got[j]
  BY DEF Orderly
<1>1. PICK k \in S, l \in S : k < l /\ list[k] = got[i] /\ list[l] = got[j]
  BY ZenonT(40) DEF Orderly
<1>2. k \in T /\ l \in T
  OBVIOUS
<1> QED BY <1>1, <1>2, Zenon

LEMMA TakenIs ==
    ASSUME NEW E, NEW list \in Seq(E), NEW S \in SUBSET (1..Len(list))
    PROVE  /\ Taken(list, S) \in Seq(E)
           /\ Len(Taken(list, S)) = Cardinality(S)
           /\ Orderly(Taken(list, S), list, S)
           /\ RangeOf(Taken(list, S)) = {list[i] : i \in S}
           /\ S # {} => Taken(list, S) # <<>>
<1> DEFINE N == 1..Cardinality(S)
           at == InOrder(S)
           got == Taken(list, S)
<1>1. Len(list) \in Nat
  OBVIOUS
<1>2. Ascends(at, S) /\ \A k \in S : \E i \in N : at[i] = k
  BY <1>1, InOrderIs, Zenon
<1>3. IsFiniteSet(S) /\ Cardinality(S) \in Nat
  BY <1>1, CountUpTo, Zenon
<1>4. at \in [N -> S] /\ \A i, j \in N : i < j => at[i] < at[j]
  BY <1>2 DEF Ascends
<1>5. got = [j \in N |-> list[at[j]]]
  BY DEF Taken
<1> HIDE DEF at, got
<1>6. \A j \in N : at[j] \in 1..Len(list) /\ list[at[j]] \in E
  <2>1. \A k \in S : k \in 1..Len(list) /\ list[k] \in E
    OBVIOUS
  <2>2. \A j \in N : at[j] \in S
    BY <1>4, Zenon
  <2> QED BY <2>1, <2>2, Zenon
<1>7. got \in Seq(E) /\ Len(got) = Cardinality(S)
  <2>1. got \in [N -> E]
    BY <1>5, <1>6
  <2> QED BY <1>3, <2>1
<1>8. Orderly(got, list, S)
  <2> SUFFICES ASSUME NEW i \in N, NEW j \in N, i < j
               PROVE  \E k, l \in S : k < l /\ list[k] = got[i] /\ list[l] = got[j]
    BY <1>7 DEF Orderly
  <2>1. at[i] < at[j] /\ list[at[i]] = got[i] /\ list[at[j]] = got[j]
    BY <1>4, <1>5
  <2>2. at[i] \in S /\ at[j] \in S
    BY <1>4, Zenon
  <2> QED BY <2>1, <2>2, Zenon
<1>9. RangeOf(got) = {list[i] : i \in S}
  <2>1. RangeOf(got) = {got[j] : j \in N}
    BY <1>7 DEF RangeOf
  <2>2. \A j \in N : at[j] \in S /\ got[j] = list[at[j]]
    BY <1>4, <1>5
  <2>3. ASSUME NEW k \in S PROVE \E j \in N : list[k] = got[j]
    <3>1. PICK j \in N : at[j] = k
      BY <1>2, Zenon
    <3> QED BY <2>2, <3>1, Zenon
  <2> HIDE DEF N
  <2>4. \A x \in RangeOf(got) : \E k \in S : x = list[k]
    <3>1. ASSUME NEW j \in N PROVE \E k \in S : got[j] = list[k]
      BY <2>2, Zenon
    <3> QED BY <2>1, <3>1, ZenonT(40)
  <2>5. \A k \in S : list[k] \in RangeOf(got)
    BY <2>1, <2>3, Zenon
  <2> QED BY <2>4, <2>5
<1>10. S # {} => got # <<>>
  <2>1. S # {} => Cardinality(S) # 0
    BY <1>3, FS_EmptySet
  <2> QED BY <1>7, <2>1
<1> QED BY <1>7, <1>8, <1>9, <1>10 DEF got

(* A set of positions that is not empty has a first.                       *)
LEMMA FirstOfSome ==
    ASSUME NEW n \in Nat, NEW S \in SUBSET (1..n), S # {}
    PROVE  \E k \in S : \A j \in S : k <= j
<1> DEFINE N == 1..Cardinality(S)
           at == InOrder(S)
<1>1. /\ at \in [N -> S] /\ \A i, j \in N : i < j => at[i] < at[j]
      /\ \A k \in S : \E i \in N : at[i] = k
  BY InOrderIs, ZenonT(40) DEF Ascends
<1>2. IsFiniteSet(S) /\ Cardinality(S) \in Nat /\ Cardinality(S) # 0
  <2>1. IsFiniteSet(S) /\ Cardinality(S) \in Nat
    BY CountUpTo, Zenon
  <2> QED BY <2>1, FS_EmptySet, Zenon
<1>3. 1 \in N /\ \A i \in N : i = 1 \/ 1 < i
  BY <1>2
<1> HIDE DEF at, N
<1>4. \A k \in S : k \in Nat
  OBVIOUS
<1>5. ASSUME NEW j \in S PROVE at[1] <= j
  <2>1. PICK i \in N : at[i] = j
    BY <1>1
  <2>2. at[1] \in Nat /\ j \in Nat /\ (i = 1 \/ at[1] < at[i])
    BY <1>1, <1>3, <1>4, ZenonT(40)
  <2> QED BY <2>1, <2>2
<1> QED BY <1>1, <1>3, <1>5, Zenon

(* "Returns the entries to use": parse_relay_list keeps every entry that   *)
(* makes sense, each once, in the order of the list, and no other.         *)
THEOREM ParseKeepsEach ==
    ASSUME NEW E, NEW list \in Seq(E)
    PROVE  /\ parse_relay_list(list) \in Seq(E)
           /\ RangeOf(parse_relay_list(list)) = RangeOf(list) \ Junk
           /\ Orderly(parse_relay_list(list), list, 1..Len(list))
           /\ \A i, j \in 1..Len(parse_relay_list(list)) :
                 i # j => parse_relay_list(list)[i] # parse_relay_list(list)[j]
<1> DEFINE S == Keeps(list)
           got == Taken(list, S)
<1>0. Len(list) \in Nat
  OBVIOUS
<1>1. S \in SUBSET (1..Len(list))
  BY DEF Keeps
<1>2. /\ got \in Seq(E) /\ Orderly(got, list, S) /\ RangeOf(got) = {list[i] : i \in S}
  <2> HIDE DEF S
  <2> QED BY <1>1, TakenIs
<1>3. \A k, l \in S : k < l => list[k] # list[l]
  BY <1>0 DEF Keeps
<1>4. \A k \in S : k \in 1..Len(list) /\ list[k] \notin Junk
  BY DEF Keeps
<1>5. ASSUME NEW i \in 1..Len(list), list[i] \notin Junk
      PROVE  \E k \in S : list[k] = list[i]
  <2> DEFINE P == {j \in 1..Len(list) : list[j] = list[i]}
  <2>1. P \in SUBSET (1..Len(list)) /\ P # {}
    OBVIOUS
  <2> HIDE DEF P
  <2>2. PICK k \in P : \A j \in P : k <= j
    BY <1>0, <2>1, FirstOfSome, ZenonT(40)
  <2>3. k \in 1..Len(list) /\ list[k] = list[i]
    BY DEF P
  <2>4. ASSUME NEW j \in 1..(k - 1), list[j] = list[k] PROVE FALSE
    <3>1. j \in 1..Len(list) /\ ~ (k <= j)
      BY <1>0, <2>3
    <3> QED BY <2>2, <2>3, <2>4, <3>1, ZenonT(40) DEF P
  <2> QED BY <1>5, <2>3, <2>4 DEF Keeps
<1> HIDE DEF S, got
<1>6. RangeOf(got) = RangeOf(list) \ Junk
  <2>1. \A x \in RangeOf(got) : x \in RangeOf(list) /\ x \notin Junk
    BY <1>2, <1>4, Zenon DEF RangeOf
  <2>2. ASSUME NEW x \in RangeOf(list), x \notin Junk PROVE x \in RangeOf(got)
    <3>1. PICK i \in 1..Len(list) : x = list[i]
      BY Zenon DEF RangeOf
    <3>2. PICK k \in S : list[k] = list[i]
      BY <1>5, <2>2, <3>1, ZenonT(40)
    <3> QED BY <1>2, <3>1, <3>2, ZenonT(40)
  <2>3. \A x : x \in RangeOf(got) <=> x \in RangeOf(list) /\ x \notin Junk
    BY <2>1, <2>2, Zenon
  <2> QED BY <2>3
<1>7. Orderly(got, list, 1..Len(list))
  BY <1>1, <1>2, OrderlyIn, ZenonT(40)
<1>8. ASSUME NEW i \in 1..Len(got), NEW j \in 1..Len(got), i # j PROVE got[i] # got[j]
  <2>1. i \in Nat /\ j \in Nat
    BY <1>2
  <2>2. i < j \/ j < i
    BY <1>8, <2>1
  <2> QED BY <1>2, <1>3, <2>2 DEF Orderly
<1> QED BY <1>2, <1>6, <1>7, <1>8, ZenonT(40) DEF parse_relay_list, got, S

-----------------------------------------------------------------------------
(* Every list on its way to the io loop is sound: one to configure is a    *)
(* list of entries, and the result of a check is in the order of the list  *)
(* that was checked and not empty.                                         *)
Entry == Relay \union Junk \union YesNo
Lists == Seq(Entry)
Messages == [is : {"conf", "live"}, list : Lists, of : Lists]
InOrderOf(got, list) == Orderly(got, list, 1..Len(list))
SoundResult(m) == m.is = "live" => InOrderOf(m.list, m.of) /\ m.list # <<>>

(* A check probes the positions of its list.                               *)
CheckRecords == [on : BOOLEAN, list : Lists, todo : SUBSET Nat, found : Seq(Nat)]
InItsList(k) ==
    /\ k.todo \subseteq 1..Len(k.list)
    /\ \A j \in 1..Len(k.found) : k.found[j] \in 1..Len(k.list)

ListsGood == conf \in Lists /\ InOrderOf(live, liveOf) /\ NeverNone
ChecksGood == check \in [Checks -> CheckRecords] /\ \A c \in Checks : InItsList(check[c])
ChanGood == chan \in Seq(Messages) /\ \A i \in 1..Len(chan) : SoundResult(chan[i])

HealthInv == ListsGood /\ ChecksGood /\ ChanGood

LEMMA OrderOfItself == ASSUME NEW list \in Lists PROVE InOrderOf(list, list)
  BY DEF Lists, InOrderOf, Orderly

LEMMA ParsedIsList == ASSUME NEW list \in Lists PROVE parse_relay_list(list) \in Lists
  BY ParseKeepsEach DEF Lists

LEMMA IdleIsCheck == Idle \in CheckRecords /\ InItsList(Idle)
  BY DEF Idle, CheckRecords, InItsList, Lists

LEMMA HealthInitInv == HealthInit => HealthInv
<1> SUFFICES ASSUME HealthInit PROVE HealthInv
  OBVIOUS
<1>1. First \in Lists
  BY HealthAssumption DEF Lists, Entry
<1>2. conf \in Lists /\ live = conf /\ liveOf = conf
  BY <1>1, ParsedIsList DEF HealthInit
<1>3. InOrderOf(live, liveOf) /\ NeverNone
  BY <1>2, OrderOfItself DEF NeverNone
<1>4. check \in [Checks -> CheckRecords] /\ \A c \in Checks : InItsList(check[c])
  BY IdleIsCheck DEF HealthInit
<1>5. chan \in Seq(Messages) /\ \A i \in 1..Len(chan) : SoundResult(chan[i])
  BY DEF HealthInit
<1> QED BY <1>2, <1>3, <1>4, <1>5 DEF HealthInv, ListsGood, ChecksGood, ChanGood

(* A step that leaves a variable alone keeps what is said of it.           *)
LEMMA ListsStay == ASSUME ListsGood, UNCHANGED <<conf, live, liveOf>> PROVE ListsGood'
  BY DEF ListsGood, NeverNone

LEMMA ChecksStay == ASSUME ChecksGood, UNCHANGED check PROVE ChecksGood'
  BY DEF ChecksGood

LEMMA ChanStays == ASSUME ChanGood, UNCHANGED chan PROVE ChanGood'
  BY DEF ChanGood

(* A check moves on.                                                       *)
LEMMA CheckMoves ==
    ASSUME ChecksGood, NEW c \in Checks, NEW k \in CheckRecords, InItsList(k),
           check' = [check EXCEPT ![c] = k]
    PROVE  ChecksGood'
<1>1. check' \in [Checks -> CheckRecords] /\ check'[c] = k
      /\ \A d \in Checks \ {c} : check'[d] = check[d]
  BY DEF ChecksGood
<1>2. ASSUME NEW d \in Checks PROVE InItsList(check'[d])
  BY <1>1, Zenon DEF ChecksGood
<1> QED BY <1>1, <1>2 DEF ChecksGood

(* A message is put into the channel behind the others.                    *)
LEMMA SendKeeps ==
    ASSUME ChanGood, NEW m \in Messages, SoundResult(m), chan' = Append(chan, m)
    PROVE  ChanGood'
<1>1. chan \in Seq(Messages) /\ \A i \in 1..Len(chan) : SoundResult(chan[i])
  BY DEF ChanGood
<1>2. /\ chan' \in Seq(Messages) /\ Len(chan') = Len(chan) + 1 /\ Len(chan) \in Nat
      /\ \A i \in 1..Len(chan) : chan'[i] = chan[i]
      /\ chan'[Len(chan) + 1] = m
  BY <1>1
<1>3. ASSUME NEW i \in 1..Len(chan') PROVE SoundResult(chan'[i])
  <2>1. i \in 1..Len(chan) \/ i = Len(chan) + 1
    BY <1>2
  <2> QED BY <1>1, <1>2, <2>1, ZenonT(40)
<1> QED BY <1>2, <1>3 DEF ChanGood

(* A list of a command is put there.                                       *)
LEMMA CommandKeeps == ASSUME ChanGood, NEW list \in Lists, Send(list) PROVE ChanGood'
<1> DEFINE m == [is |-> "conf", list |-> list, of |-> <<>>]
<1>1. m \in Messages /\ SoundResult(m)
  BY DEF Messages, Lists, SoundResult
<1>2. chan' = Append(chan, m)
  BY DEF Send
<1> HIDE DEF m
<1> QED BY <1>1, <1>2, SendKeeps, ZenonT(40)

(* What a check found is taken from its list in the order of the list.     *)
LEMMA ReportIsSound ==
    ASSUME NEW k \in CheckRecords, InItsList(k)
    PROVE  /\ Report(k) \in Lists
           /\ InOrderOf(Report(k), k.list)
           /\ k.found # <<>> => Report(k) # <<>>
<1> DEFINE S == RangeOf(k.found)
<1>1. k.list \in Seq(Entry) /\ k.found \in Seq(Nat)
  BY DEF CheckRecords, Lists
<1>2. S \in SUBSET (1..Len(k.list))
  <2>1. \A x \in S : \E j \in 1..Len(k.found) : x = k.found[j]
    BY Zenon DEF RangeOf
  <2>2. \A x \in S : x \in 1..Len(k.list)
    BY <2>1, Zenon DEF InItsList
  <2> QED BY <2>2, Zenon
<1>3. k.found # <<>> => S # {}
  <2>1. k.found # <<>> => 1 \in 1..Len(k.found)
    BY <1>1
  <2> QED BY <2>1, Zenon DEF RangeOf
<1> HIDE DEF S
<1>4. /\ Taken(k.list, S) \in Seq(Entry) /\ Orderly(Taken(k.list, S), k.list, S)
      /\ S # {} => Taken(k.list, S) # <<>>
  BY <1>1, <1>2, TakenIs, ZenonT(40)
<1>5. Orderly(Taken(k.list, S), k.list, 1..Len(k.list))
  BY <1>2, <1>4, OrderlyIn, ZenonT(40)
<1>6. Report(k) = Taken(k.list, S)
  BY Zenon DEF Report, S
<1> QED BY <1>3, <1>4, <1>5, <1>6, ZenonT(40) DEF Lists, InOrderOf

(* A check begins with all the positions of the list that is configured.   *)
LEMMA TickKeeps == ASSUME HealthInv, NEW c \in Checks, Tick(c) PROVE HealthInv'
<1> DEFINE k == [on |-> TRUE, list |-> conf, todo |-> 1..Len(conf), found |-> <<>>]
<1>1. k \in CheckRecords /\ InItsList(k)
  BY DEF HealthInv, ListsGood, CheckRecords, InItsList, Lists
<1>2. check' = [check EXCEPT ![c] = k] /\ UNCHANGED <<conf, live, liveOf, chan>>
  BY DEF Tick
<1> HIDE DEF k
<1> QED BY <1>1, <1>2, ListsStay, CheckMoves, ChanStays, ZenonT(40) DEF HealthInv

(* A probe ends: its position is found, or is not.                         *)
LEMMA ProbeKeeps ==
    ASSUME HealthInv, NEW c \in Checks, NEW i \in check[c].todo, Probe(c, i)
    PROVE  HealthInv'
<1> DEFINE r == check[c]
           t == r.todo \ {i}
           f == IF r.list[i] \in up THEN Append(r.found, i) ELSE r.found
           k == [r EXCEPT !.todo = t, !.found = f]
<1>1. r \in CheckRecords /\ InItsList(r) /\ i \in r.todo
  BY Zenon DEF HealthInv, ChecksGood
<1>2. check' = [check EXCEPT ![c] = k] /\ UNCHANGED <<conf, live, liveOf, chan>>
  BY Zenon DEF Probe
<1> HIDE DEF r
<1>3. r.todo \subseteq 1..Len(r.list) /\ r.found \in Seq(Nat) /\ Len(r.list) \in Nat
      /\ \A j \in 1..Len(r.found) : r.found[j] \in 1..Len(r.list)
  BY <1>1 DEF CheckRecords, InItsList, Lists
<1>4. i \in 1..Len(r.list) /\ i \in Nat
  BY <1>1, <1>3
<1>5. t \in SUBSET Nat /\ t \subseteq 1..Len(r.list)
  BY <1>3
<1>6. f \in Seq(Nat) /\ \A j \in 1..Len(f) : f[j] \in 1..Len(r.list)
  BY <1>3, <1>4
<1> HIDE DEF t, f
<1>7. k \in CheckRecords /\ k.list = r.list /\ k.todo = t /\ k.found = f
  BY <1>1, <1>5, <1>6, ZenonT(40) DEF CheckRecords
<1> HIDE DEF k
<1>8. InItsList(k)
  BY <1>5, <1>6, <1>7, ZenonT(40) DEF InItsList
<1> QED BY <1>2, <1>7, <1>8, ListsStay, CheckMoves, ChanStays, ZenonT(40) DEF HealthInv

(* A check ends and sends what it found, if it found any.                  *)
LEMMA FinishKeeps == ASSUME HealthInv, NEW c \in Checks, Finish(c) PROVE HealthInv'
<1> DEFINE r == check[c]
           m == [is |-> "live", list |-> Report(r), of |-> r.list]
<1>1. r \in CheckRecords /\ InItsList(r)
  BY Zenon DEF HealthInv, ChecksGood
<1>2. check' = [check EXCEPT ![c] = Idle] /\ UNCHANGED <<conf, live, liveOf>>
  BY Zenon DEF Finish
<1>3. chan' = IF r.found # <<>> THEN Append(chan, m) ELSE chan
  BY DEF Finish, WorthSending
<1> HIDE DEF r
<1>4. r.list \in Lists
  BY <1>1 DEF CheckRecords
<1>5. ASSUME r.found # <<>> PROVE ChanGood'
  <2>1. m \in Messages /\ SoundResult(m)
    BY <1>1, <1>4, <1>5, ReportIsSound, ZenonT(40) DEF Messages, SoundResult
  <2> HIDE DEF m
  <2>2. chan' = Append(chan, m)
    BY <1>3, <1>5
  <2> QED BY <2>1, <2>2, SendKeeps, Zenon DEF HealthInv
<1> HIDE DEF m
<1>6. ASSUME r.found = <<>> PROVE ChanGood'
  <2>1. UNCHANGED chan
    BY <1>3, <1>6
  <2> QED BY <2>1, ChanStays, Zenon DEF HealthInv
<1>7. ChecksGood'
  BY <1>2, IdleIsCheck, CheckMoves, ZenonT(40) DEF HealthInv
<1>8. ListsGood'
  BY <1>2, ListsStay, Zenon DEF HealthInv
<1> QED BY <1>5, <1>6, <1>7, <1>8, ZenonT(40) DEF HealthInv

(* The io loop takes the first message: a list to configure or a result.   *)
LEMMA ReceiveKeeps == ASSUME HealthInv, Receive PROVE HealthInv'
<1> DEFINE m == Head(chan)
<1>1. /\ m \in Messages /\ SoundResult(m)
      /\ chan' \in Seq(Messages)
      /\ \A i \in 1..Len(chan') : \E j \in 1..Len(chan) : chan'[i] = chan[j]
  <2>1. chan \in Seq(Messages) /\ chan # <<>> /\ chan' = Tail(chan)
    BY DEF Receive, HealthInv, ChanGood
  <2>2. m = chan[1] /\ 1 \in 1..Len(chan) /\ m \in Messages
    BY <2>1
  <2>3. chan' \in Seq(Messages) /\ Len(chan') = Len(chan) - 1 /\ Len(chan) \in Nat
        /\ \A i \in 1..Len(chan') : chan'[i] = chan[i + 1]
    BY <2>1
  <2>4. \A i \in 1..Len(chan') : i + 1 \in 1..Len(chan)
    BY <2>3
  <2>5. SoundResult(chan[1])
    BY <2>2, Zenon DEF HealthInv, ChanGood
  <2> QED BY <2>2, <2>3, <2>4, <2>5, ZenonT(40)
<1>2. ChanGood'
  BY <1>1, Zenon DEF HealthInv, ChanGood
<1>3. ChecksGood'
  BY ChecksStay, Zenon DEF HealthInv, Receive
<1>4. \/ m.is = "conf" /\ conf' = parse_relay_list(m.list) /\ live' = conf' /\ liveOf' = conf'
      \/ m.is = "live" /\ live' = m.list /\ liveOf' = m.of /\ UNCHANGED conf
  BY Zenon DEF Receive
<1> HIDE DEF m
<1>5. ListsGood'
  <2>1. CASE m.is = "conf" /\ conf' = parse_relay_list(m.list) /\ live' = conf' /\ liveOf' = conf'
    <3>1. m.list \in Lists
      BY <1>1 DEF Messages
    <3>2. conf' \in Lists
      BY <2>1, <3>1, ParsedIsList
    <3>3. InOrderOf(conf', conf')
      BY <3>2, OrderOfItself
    <3> QED BY <2>1, <3>2, <3>3 DEF ListsGood, NeverNone
  <2>2. CASE m.is = "live" /\ live' = m.list /\ liveOf' = m.of /\ UNCHANGED conf
    <3>1. InOrderOf(m.list, m.of) /\ m.list # <<>>
      BY <1>1, <2>2, Zenon DEF SoundResult
    <3> QED BY <2>2, <3>1 DEF HealthInv, ListsGood, NeverNone
  <2> QED BY <1>4, <2>1, <2>2, ZenonT(40)
<1> QED BY <1>2, <1>3, <1>5, ZenonT(40) DEF HealthInv

(* Every step of the io loop, of a check, of an administrator and of the   *)
(* network keeps the lists sound.                                          *)
LEMMA HealthNextInv == ASSUME HealthInv, [HealthNext]_healthVars PROVE HealthInv'
<1>1. ASSUME NEW list \in Commands, RelayServers(list) PROVE HealthInv'
  <2>1. list \in Lists
    BY HealthAssumption DEF Lists, Entry
  <2>2. Send(list) /\ UNCHANGED <<conf, live, liveOf, check>>
    BY <1>1, Zenon DEF RelayServers
  <2> QED BY <2>1, <2>2, ListsStay, ChecksStay, CommandKeeps, ZenonT(40) DEF HealthInv
<1>2. ASSUME NEW yn \in YesNo, AlwaysUseRelay(yn) PROVE HealthInv'
  <2>1. <<yn>> \in Lists
    BY DEF Lists, Entry
  <2>2. Send(<<yn>>) /\ UNCHANGED <<conf, live, liveOf, check>>
    BY <1>2, Zenon DEF AlwaysUseRelay
  <2> QED BY <2>1, <2>2, ListsStay, ChecksStay, CommandKeeps, ZenonT(40) DEF HealthInv
<1>3. ASSUME NEW x \in Relay, Flip(x) PROVE HealthInv'
  BY <1>3, ListsStay, ChecksStay, ChanStays, ZenonT(40) DEF Flip, HealthInv
<1>4. CASE UNCHANGED healthVars
  <2>1. UNCHANGED <<conf, live, liveOf, chan, check>>
    BY <1>4 DEF healthVars
  <2> QED BY <2>1, ListsStay, ChecksStay, ChanStays, ZenonT(40) DEF HealthInv
<1> QED BY <1>1, <1>2, <1>3, <1>4, TickKeeps, ProbeKeeps, FinishKeeps, ReceiveKeeps, ZenonT(40)
        DEF HealthNext

(* The relays handed out are in the order of the list they come from, and  *)
(* while relays are configured there is one, for any lists, any number of  *)
(* overlapping checks and any order in which probes end                    *)
(* (check_relay_servers, parse_relay_servers).                             *)
THEOREM LiveListSoundHolds == HealthSpec => []LiveListSound
<1>1. HealthInv => LiveListSound
  BY Zenon DEF HealthInv, ListsGood, LiveListSound, OrderKept, InOrderOf, Orderly
<1>2. HealthInv /\ [HealthNext]_healthVars => HealthInv'
  BY HealthNextInv
<1> QED BY <1>1, <1>2, HealthInitInv, PTL DEF HealthSpec
=============================================================================

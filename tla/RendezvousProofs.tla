-------------------------- MODULE RendezvousProofs --------------------------
(***************************************************************************)
(* Proofs about WsIdle, and about Rendezvous: the log of requests, the     *)
(* registry of websockets and the sinks kept for answers, each under every *)
(* step of the composed system, for any number of clients, connections and *)
(* addresses.                                                              *)
(***************************************************************************)
EXTENDS Rendezvous, WsIdle, SequenceTheorems, NaturalsInduction, WellFoundedInduction, TLAPS

(* The provers are given time: SMT first, then Zenon.                      *)
USE SMTT(40), ZenonT(40)

-----------------------------------------------------------------------------
(* The idle timeout of a websocket (WsIdle), for every ping interval, idle *)
(* timeout and delay of pongs that fit together.                           *)

(* A ping that is sent after a poll interval of quiet is answered before   *)
(* the idle timeout.                                                       *)
PongInTime == PollInterval + PongDelay < IdleTimeout

(* Nothing was pushed since a frame was last read, so the polls came every *)
(* PollInterval: the last one was before the idle timeout, and a client    *)
(* that lives has a ping to answer since the first.                        *)
Unpushed == sincePush >= age

IdleInv ==
    /\ inLoop \in BOOLEAN /\ live \in BOOLEAN
    /\ age \in 0..MaxAge /\ sincePush \in 0..MaxAge /\ pinged \in Nat
    /\ wait \in 0..PollInterval /\ wait <= age
    /\ age = 0 => pinged = 0
    /\ live => pinged <= PongDelay + 1
    /\ inLoop /\ Unpushed => age < IdleTimeout + wait
    /\ live /\ Unpushed => /\ inLoop
                           /\ pinged = 0 => age = wait
                           /\ pinged # 0 => age + 1 = PollInterval + pinged

LEMMA PollPositive == PollInterval \in Nat \ {0} /\ PollInterval <= IdleTimeout
  BY IdleAssumption DEF PollInterval

LEMMA IdleInvNext == ASSUME PongInTime, IdleInv, [IdleNext]_idleVars PROVE IdleInv'
<1> USE IdleAssumption, PollPositive DEF IdleInv, Unpushed
<1>1. CASE TimePasses
  BY <1>1 DEF TimePasses
<1>2. CASE Heard
  BY <1>2 DEF Heard
<1>3. CASE Pushed
  BY <1>3 DEF Pushed
<1>4. CASE PollTimeout
  <2>0. inLoop /\ wait = PollInterval /\ age # 0 /\ UNCHANGED <<age, sincePush, live>>
    BY <1>4 DEF PollTimeout
  <2>1. CASE age >= IdleTimeout
    <3>0. ~ (age < IdleTimeout)
      BY <2>1
    <3>1. ~ inLoop' /\ inLoop' \in BOOLEAN /\ wait' = wait /\ pinged' = pinged
      BY <1>4, <3>0, Zenon DEF PollTimeout
    <3>2. ~ (live /\ sincePush >= age)
      BY <2>0, <2>1 DEF PongInTime
    <3> QED BY <2>0, <3>1, <3>2
  <2>2. CASE age < IdleTimeout
    <3>0. ~ (age >= IdleTimeout)
      BY <2>2
    <3>1. inLoop' /\ wait' = 0 /\ pinged' = IF pinged = 0 THEN 1 ELSE pinged
      BY <1>4, <3>0, Zenon DEF PollTimeout
    <3>2. pinged' \in Nat \ {0} /\ (live => pinged' <= PongDelay + 1)
      BY <3>1
    <3>3. live /\ sincePush >= age => age + 1 = PollInterval + pinged'
      BY <2>0, <3>1, Zenon
    <3> QED BY <2>0, <2>2, <3>1, <3>2, <3>3
  <2> QED BY <1>4, <2>1, <2>2
<1>5. CASE Die
  BY <1>5, Zenon DEF Die
<1>6. CASE UNCHANGED idleVars
  BY <1>6 DEF idleVars
<1> QED BY <1>1, <1>2, <1>3, <1>4, <1>5, <1>6, ZenonT(40) DEF IdleNext

(* Where pongs come in time, a websocket to which nothing is pushed is     *)
(* closed for being idle only if its client is gone, and then at most one  *)
(* poll interval late (handle_listener_inner).                             *)
THEOREM IdleTimeoutRightHolds == PongInTime => (IdleSpec => []IdleTimeoutRight)
<1> SUFFICES ASSUME PongInTime PROVE IdleSpec => []IdleTimeoutRight
  OBVIOUS
<1>1. IdleInit => IdleInv
  BY IdleAssumption, PollPositive DEF IdleInit, IdleInv, Unpushed
<1>2. IdleInv /\ [IdleNext]_idleVars => IdleInv'
  BY IdleInvNext
<1>3. IdleInv => IdleTimeoutRight
  BY IdleAssumption, PollPositive
     DEF IdleInv, Unpushed, IdleTimeoutRight, LiveStaysOpenUnpushed, IdleBoundUnpushed
<1> QED BY <1>1, <1>2, <1>3, PTL DEF IdleSpec

-----------------------------------------------------------------------------
(***************************************************************************)
(* The log.  No entry is younger than the clock; the log is in the order   *)
(* of time, so a request that is not a duplicate of its latest recent      *)
(* entry is not one of any recent entry.                                   *)
(***************************************************************************)
Entry == [req : Key \X Client, tm : Nat]

LogTypeOK ==
    /\ max \in Nat /\ clock \in Nat
    /\ punch_reqs \in Seq(Entry)
    /\ last \in [req : (Key \X Client) \union {NoRequest}, tm : Nat]

LogInv ==
    /\ LogTypeOK /\ LogSound
    /\ last.tm <= clock /\ \A i \in 1..Len(punch_reqs) : punch_reqs[i].tm <= clock

(* A set of positions in the log has a last one.                           *)
LEMMA LastOfSome ==
    ASSUME NEW n \in Nat, NEW S \in SUBSET (1..n), S # {}
    PROVE  \E m \in S : \A j \in S : j <= m
<1> DEFINE T == {n - i : i \in S}
           R == {ss \in Nat \X Nat : ss[1] < ss[2]}
<1>1. T \subseteq Nat /\ T # {} /\ \A j \in S : j \in 1..n /\ n - j \in Nat
  <2>1. \A j \in S : j \in 1..n /\ n - j \in Nat
    OBVIOUS
  <2> QED BY <2>1, Zenon
<1>2. IsWellFoundedOn(R, Nat)
  BY NatLessThanWellFounded DEF OpToRel
<1>3. ASSUME NEW x \in Nat, NEW y \in Nat, y < x PROVE <<y, x>> \in R
  <2>1. <<y, x>> \in Nat \X Nat /\ <<y, x>>[1] = y /\ <<y, x>>[2] = x
    OBVIOUS
  <2> QED BY <1>3, <2>1, Zenon
<1>4. \E x \in T : \A y \in T : ~ (<<y, x>> \in R)
  <2> HIDE DEF T, R
  <2> QED BY <1>1, <1>2, WFMin, Zenon
<1>5. PICK m \in S : \A j \in S : ~ (<<n - j, n - m>> \in R)
  <2> HIDE DEF R
  <2> QED BY <1>4
<1>6. \A j \in S : ~ (n - j < n - m)
  <2> HIDE DEF R
  <2> QED BY <1>1, <1>3, <1>5, Zenon
<1>7. \A j \in S : j <= m
  <2> HIDE DEF T, R
  <2>1. m \in 1..n /\ \A j \in S : j \in 1..n
    BY <1>1, Zenon
  <2> QED BY <1>6, <2>1
<1> QED BY <1>7, Zenon

LEMMA EntriesTyped ==
    ASSUME LogTypeOK
    PROVE  /\ Len(punch_reqs) \in Nat
           /\ \A i \in 1..Len(punch_reqs) : punch_reqs[i].tm \in Nat
<1>1. Len(punch_reqs) \in Nat
  BY LenProperties DEF LogTypeOK
<1>2. ASSUME NEW i \in 1..Len(punch_reqs) PROVE punch_reqs[i] \in Entry
  BY ElementOfSeq, Zenon DEF LogTypeOK
<1> QED BY <1>1, <1>2 DEF Entry

(* A recent entry for a request that is no duplicate is old.               *)
LEMMA NoDupIsOld ==
    ASSUME LogInv, NEW r, ~ Dup(r), NEW i \in Like(r)
    PROVE  clock - punch_reqs[i].tm >= DedupeSecs
<1>0. \A k \in 1..Len(punch_reqs) : punch_reqs[k].tm \in Nat
  BY EntriesTyped DEF LogInv
<1>1. Len(punch_reqs) \in Nat /\ Like(r) \in SUBSET (1..Len(punch_reqs))
  BY LenProperties DEF LogInv, LogTypeOK, Like, Recent
<1>2. PICK m \in Like(r) : \A j \in Like(r) : j <= m
  BY <1>1, LastOfSome, Zenon
<1>3. ~ (clock - punch_reqs[m].tm < DedupeSecs)
  BY <1>2, Zenon DEF Dup
<1>4. punch_reqs[i].tm <= punch_reqs[m].tm
  BY <1>0, <1>1, <1>2 DEF LogInv, LogSound
<1> QED BY <1>0, <1>1, <1>3, <1>4, LogAssumption, SMTT(30) DEF LogInv, LogTypeOK

LEMMA LogInitInv == Init => LogInv
  BY RendezvousAssumption, EmptySeq DEF Init, LogInit, LogInv, LogTypeOK, LogSound, Entry

(* The entry of a request is put behind the log q, the present one or its  *)
(* tail: q is the log from position d + 1 on.                              *)
LEMMA LogAppends ==
    ASSUME LogInv, NEW r \in Key \X Client, ~ Dup(r),
           NEW q \in Seq(Entry), NEW d \in Nat, Len(q) + d = Len(punch_reqs), Len(q) < max,
           \A i \in 1..Len(q) : q[i] = punch_reqs[i + d],
           punch_reqs' = Append(q, [req |-> r, tm |-> clock]),
           last' = [req |-> r, tm |-> clock], UNCHANGED <<max, clock>>
    PROVE  LogInv'
<1> DEFINE e == [req |-> r, tm |-> clock]
           n == Len(q)
<1>0. e \in Entry /\ n \in Nat /\ Len(punch_reqs) \in Nat
  BY LenProperties, Zenon DEF LogInv, LogTypeOK, Entry
<1>1. /\ punch_reqs' \in Seq(Entry) /\ Len(punch_reqs') = n + 1
      /\ \A i \in 1..n : punch_reqs'[i] = punch_reqs[i + d]
      /\ punch_reqs'[n + 1] = e
  BY <1>0, AppendProperties
<1>2. LogTypeOK'
  BY <1>0, <1>1, Zenon DEF LogInv, LogTypeOK
<1>3. \A i \in 1..n : i + d \in 1..Len(punch_reqs) /\ punch_reqs[i + d].tm \in Nat
  BY <1>0, EntriesTyped DEF LogInv
<1>4. last'.tm <= clock' /\ \A i \in 1..Len(punch_reqs') : punch_reqs'[i].tm <= clock'
  BY <1>0, <1>1, <1>3, SMTT(30) DEF LogInv, LogTypeOK
<1>5. ASSUME NEW i \in 1..Len(punch_reqs'), NEW j \in 1..Len(punch_reqs'), i < j
      PROVE  /\ punch_reqs'[i].tm <= punch_reqs'[j].tm
             /\ punch_reqs'[i].req = punch_reqs'[j].req =>
                   \/ punch_reqs'[j].tm - punch_reqs'[i].tm >= DedupeSecs
                   \/ j - i > LookBack
  <2>1. CASE j \in 1..n
    <3>1. i \in 1..n /\ i + d < j + d /\ (j + d) - (i + d) = j - i
      BY <1>0, <1>5, <2>1
    <3>2. punch_reqs'[i] = punch_reqs[i + d] /\ punch_reqs'[j] = punch_reqs[j + d]
      BY <1>1, <2>1, <3>1, ZenonT(40)
    <3>3. i + d \in 1..Len(punch_reqs) /\ j + d \in 1..Len(punch_reqs)
      BY <1>3, <2>1, <3>1, Zenon
    <3>4. /\ punch_reqs[i + d].tm <= punch_reqs[j + d].tm
          /\ punch_reqs[i + d].req = punch_reqs[j + d].req =>
                \/ punch_reqs[j + d].tm - punch_reqs[i + d].tm >= DedupeSecs
                \/ (j + d) - (i + d) > LookBack
      BY <3>1, <3>3, Zenon DEF LogInv, LogSound
    <3> QED BY <3>1, <3>2, <3>4, Zenon
  <2>2. CASE j = n + 1
    <3>1. i \in 1..n
      BY <1>0, <1>5, <2>2
    <3>2. punch_reqs'[i] = punch_reqs[i + d] /\ punch_reqs'[j] = e
      BY <1>1, <2>2, <3>1, ZenonT(40)
    <3>3. punch_reqs[i + d].tm <= clock
      BY <1>3, <3>1, Zenon DEF LogInv
    <3>4. ASSUME punch_reqs[i + d].req = r, ~ (j - i > LookBack)
          PROVE  clock - punch_reqs[i + d].tm >= DedupeSecs
      <4>1. (i + d) + LookBack > Len(punch_reqs)
        BY <1>0, <2>2, <3>1, <3>4, LogAssumption
      <4>2. i + d \in Like(r)
        BY <1>3, <3>1, <3>4, <4>1, ZenonT(40) DEF Like, Recent
      <4> QED BY <4>2, NoDupIsOld, Zenon
    <3>5. /\ punch_reqs'[j].tm = clock /\ punch_reqs'[j].req = r
          /\ punch_reqs'[i].tm = punch_reqs[i + d].tm /\ punch_reqs'[i].req = punch_reqs[i + d].req
      BY <3>2
    <3> QED BY <3>3, <3>4, <3>5, ZenonT(40)
  <2> QED BY <1>0, <1>1, <1>5, <2>1, <2>2
<1>6. \E i \in 1..Len(punch_reqs') :
        /\ punch_reqs'[i].req = last'.req
        /\ punch_reqs'[i].tm <= last'.tm
        /\ DedupeSecs > 0 => last'.tm - punch_reqs'[i].tm < DedupeSecs
  <2>1. n + 1 \in 1..Len(punch_reqs') /\ clock <= clock /\ clock - clock = 0
    BY <1>0, <1>1 DEF LogInv, LogTypeOK
  <2> QED BY <1>1, <2>1, LogAssumption
<1>7. Len(punch_reqs') <= max'
  BY <1>0, <1>1 DEF LogInv, LogTypeOK
<1>8. LogSound'
  BY <1>5, <1>6, <1>7, ZenonT(40) DEF LogSound
<1> QED BY <1>2, <1>4, <1>8, ZenonT(40) DEF LogInv

LEMMA LogUnchanged == ASSUME LogInv, UNCHANGED logVars PROVE LogInv'
  BY DEF LogInv, LogTypeOK, LogSound, logVars

LEMMA LogRecords == ASSUME LogInv, NEW r \in Key \X Client, Record(r) PROVE LogInv'
<1> DEFINE n == Len(punch_reqs)
<1>0. n \in Nat /\ \A i \in 1..n : punch_reqs[i].tm \in Nat
  BY EntriesTyped DEF LogInv
<1>1. CASE max = 0
  <2>1. UNCHANGED logVars
    BY <1>1, Zenon DEF Record, logVars
  <2> QED BY <2>1, LogUnchanged
<1>2. CASE max # 0 /\ Dup(r)
  <2>1. UNCHANGED <<punch_reqs, max, clock>> /\ last' = [req |-> r, tm |-> clock]
    BY <1>2, Zenon DEF Record
  <2>2. PICK i \in 1..n : punch_reqs[i].req = r /\ clock - punch_reqs[i].tm < DedupeSecs
    BY <1>2, Zenon DEF Dup, Like, Recent
  <2>3. LogTypeOK'
    BY <2>1, Zenon DEF LogInv, LogTypeOK
  <2>4. last'.req = r /\ last'.tm = clock /\ clock <= clock /\ punch_reqs[i].tm <= clock
    BY <2>1, <2>2 DEF LogInv, LogTypeOK
  <2>5. LogSound'
    <3>1. \E k \in 1..Len(punch_reqs) :
            /\ punch_reqs[k].req = last'.req /\ punch_reqs[k].tm <= last'.tm
            /\ DedupeSecs > 0 => last'.tm - punch_reqs[k].tm < DedupeSecs
      BY <2>2, <2>4, Zenon
    <3> QED BY <2>1, <3>1, ZenonT(40) DEF LogInv, LogSound
  <2> QED BY <2>1, <2>3, <2>4, <2>5, ZenonT(40) DEF LogInv
<1>3. CASE max # 0 /\ ~ Dup(r) /\ n >= max
  <2>0. n <= max /\ max \in Nat
    BY Zenon DEF LogInv, LogTypeOK, LogSound
  <2>1. n = max /\ n > 0 /\ max \in Nat
    BY <1>0, <1>3, <2>0
  <2>2. punch_reqs \in Seq(Entry) /\ punch_reqs # <<>>
    BY <2>1, EmptySeq DEF LogInv, LogTypeOK
  <2>3. /\ Tail(punch_reqs) \in Seq(Entry) /\ Len(Tail(punch_reqs)) = n - 1
        /\ \A i \in 1..Len(Tail(punch_reqs)) : Tail(punch_reqs)[i] = punch_reqs[i + 1]
    BY <2>2, HeadTailProperties
  <2>4. /\ punch_reqs' = Append(Tail(punch_reqs), [req |-> r, tm |-> clock])
        /\ last' = [req |-> r, tm |-> clock] /\ UNCHANGED <<max, clock>>
    BY <1>3 DEF Record
  <2>5. 1 \in Nat /\ Len(Tail(punch_reqs)) + 1 = n /\ Len(Tail(punch_reqs)) < max
    BY <1>0, <2>1, <2>3
  <2> QED BY <1>3, <2>3, <2>4, <2>5, LogAppends, ZenonT(40)
<1>4. CASE max # 0 /\ ~ Dup(r) /\ ~ (n >= max)
  <2>1. /\ punch_reqs' = Append(punch_reqs, [req |-> r, tm |-> clock])
        /\ last' = [req |-> r, tm |-> clock] /\ UNCHANGED <<max, clock>>
    BY <1>4, Zenon DEF Record
  <2>2. 0 \in Nat /\ n + 0 = n /\ n < max /\ punch_reqs \in Seq(Entry)
    BY <1>0, <1>4 DEF LogInv, LogTypeOK
  <2>3. \A i \in 1..n : punch_reqs[i] = punch_reqs[i + 0]
    BY <1>0
  <2> QED BY <1>4, <2>1, <2>2, <2>3, LogAppends, ZenonT(40)
<1> QED BY <1>1, <1>2, <1>3, <1>4

-----------------------------------------------------------------------------
(* Websockets.  Places in which a task still reads its channel, or will    *)
(* yet run the guard that removes its entry.                               *)
Serving == {"loop", "handle", "decide", "write", "guard"}
WsPlaces == Serving \union {"new", "rx", "closed"}
Message == [for : Client, msg : Key \union {"answer", "other"}]

WsTypeOK ==
    /\ owner \in [Conn -> Client]
    /\ pc \in [Conn -> WsPlaces]
    /\ ws_peers \in [Key -> Conn \union {NoConn}]
    /\ rx_ws \in [Conn -> Seq(Message)]

WsInv == WsTypeOK /\ EntryIsOpen
WsPushInv == WsInv /\ PushReachesItsPeer

LEMMA WsInitInv == Init => WsPushInv
  BY WsAssumption, RendezvousAssumption
     DEF Init, WsInit, WsPushInv, WsInv, WsTypeOK, WsPlaces, Serving, EntryIsOpen, PushReachesItsPeer

(* A task goes from one place to another, both places in which it serves   *)
(* or both places in which it does not, or it starts.                      *)
LEMMA WsMoves ==
    ASSUME WsInv, NEW c \in Conn, NEW l \in WsPlaces, Goto(c, l),
           l \in Serving \/ pc[c] \notin Serving,
           UNCHANGED <<owner, ws_peers, rx_ws>>
    PROVE  /\ WsInv'
           /\ PushReachesItsPeer => PushReachesItsPeer'
           /\ \A k \in Key : ws_peers'[k] = ws_peers[k]
  BY WsAssumption DEF WsInv, WsTypeOK, EntryIsOpen, Goto, Serving, ConnKey, PushReachesItsPeer

(* register_ws_peer, at a place where the task serves.                     *)
LEMMA WsRegisters ==
    ASSUME WsInv, NEW c \in Conn, NEW l \in Serving, Goto(c, l), pc[c] \in Serving,
           ws_peers' = [ws_peers EXCEPT ![ConnKey(c)] = c], UNCHANGED <<owner, rx_ws>>
    PROVE  /\ WsInv'
           /\ PushReachesItsPeer => PushReachesItsPeer'
           /\ \A k \in Key : ws_peers'[k] = NoConn => ws_peers[k] = NoConn
<1>1. ConnKey(c) \in Key /\ c # NoConn
  BY WsAssumption DEF WsInv, WsTypeOK, ConnKey
<1>2. WsTypeOK'
  BY <1>1 DEF WsInv, WsTypeOK, Goto, WsPlaces
<1>3. EntryIsOpen'
  BY <1>1 DEF WsInv, WsTypeOK, EntryIsOpen, ConnKey, Goto, Serving
<1> QED BY <1>1, <1>2, <1>3 DEF WsInv, WsTypeOK, PushReachesItsPeer, ConnKey

(* What an entry of a queue is once another has been appended.             *)
LEMMA AppendedAt ==
    ASSUME NEW S, NEW s \in Seq(S), NEW e \in S, NEW i \in 1..Len(Append(s, e))
    PROVE  \/ Append(s, e)[i] = e
           \/ i \in 1..Len(s) /\ Append(s, e)[i] = s[i]
  OBVIOUS

(* What is left of a queue once its head has been taken.                   *)
LEMMA LeftAt ==
    ASSUME NEW S, NEW s \in Seq(S), s # <<>>
    PROVE  /\ Tail(s) \in Seq(S)
           /\ \A i \in 1..Len(Tail(s)) : i + 1 \in 1..Len(s) /\ Tail(s)[i] = s[i + 1]
  OBVIOUS

(* The entries are good while they stay and no task they name stops serving. *)
LEMMA EntriesStay ==
    ASSUME WsInv, UNCHANGED <<owner, ws_peers>>,
           \A d \in Conn : pc[d] \in Serving => pc'[d] \in Serving
    PROVE  EntryIsOpen'
  BY DEF WsInv, WsTypeOK, EntryIsOpen, ConnKey, Serving

(* push_to_ws_peer, while tasks stay where they are or go on serving.  The *)
(* entry it finds is served, so it is never removed here.                  *)
LEMMA WsPushes ==
    ASSUME WsInv, NEW k \in Client, NEW m \in Key \union {"answer", "other"}, PushTo(k, m),
           UNCHANGED owner, pc' \in [Conn -> WsPlaces],
           \A c \in Conn : pc[c] \in Serving => pc'[c] \in Serving
    PROVE  /\ WsInv'
           /\ PushReachesItsPeer => PushReachesItsPeer'
           /\ ws_peers' = ws_peers
<1> DEFINE c == ws_peers[KeyOf[k]]
           msg == [for |-> k, msg |-> m]
<1>0. KeyOf[k] \in Key /\ c \in Conn \union {NoConn} /\ msg \in Message /\ msg.for = k
  BY WsAssumption DEF WsInv, WsTypeOK, Message
<1>1. CASE c = NoConn
  BY <1>1, WsAssumption DEF PushTo, WsInv, WsTypeOK, EntryIsOpen, ConnKey, PushReachesItsPeer, Serving
<1>2. CASE c # NoConn
  <2>1. c \in Conn /\ pc[c] \in Serving /\ KeyOf[owner[c]] = KeyOf[k]
    BY <1>0, <1>2, ZenonT(40) DEF WsInv, EntryIsOpen, Serving, ConnKey
  <2>2. RxOpen(c)
    BY <2>1 DEF RxOpen, Serving
  <2>3. ws_peers' = ws_peers /\ rx_ws' = [rx_ws EXCEPT ![c] = Append(@, msg)]
    BY <1>2, <2>2, ZenonT(40) DEF PushTo
  <2>4. WsTypeOK'
    BY <1>0, <2>1, <2>3 DEF WsInv, WsTypeOK
  <2>5. EntryIsOpen'
    BY <2>3, EntriesStay, ZenonT(40)
  <2>6. ASSUME PushReachesItsPeer PROVE PushReachesItsPeer'
    <3>1. KeyOf[k] = ConnKey(c)
      BY <2>1 DEF ConnKey
    <3> SUFFICES ASSUME NEW d \in Conn, NEW i \in 1..Len(rx_ws'[d])
                 PROVE  KeyOf[rx_ws'[d][i].for] = ConnKey(d)
      BY DEF PushReachesItsPeer, ConnKey
    <3>2. CASE d # c
      BY <2>3, <2>6, <3>2, ZenonT(40) DEF PushReachesItsPeer, WsInv, WsTypeOK
    <3>3. CASE d = c
      <4>1. rx_ws[c] \in Seq(Message) /\ rx_ws'[c] = Append(rx_ws[c], msg)
        BY <2>1, <2>3, ZenonT(40) DEF WsInv, WsTypeOK
      <4>2. i \in 1..Len(Append(rx_ws[c], msg))
        BY <3>3, <4>1, ZenonT(40)
      <4>3. CASE rx_ws'[c][i] = msg
        BY <1>0, <3>1, <3>3, <4>3
      <4>4. CASE i \in 1..Len(rx_ws[c]) /\ rx_ws'[c][i] = rx_ws[c][i]
        BY <2>1, <2>6, <3>3, <4>4, ZenonT(40) DEF PushReachesItsPeer
      <4> HIDE DEF msg, c
      <4>5. \/ Append(rx_ws[c], msg)[i] = msg
            \/ i \in 1..Len(rx_ws[c]) /\ Append(rx_ws[c], msg)[i] = rx_ws[c][i]
        BY <1>0, <4>1, <4>2, AppendedAt
      <4> QED BY <4>1, <4>3, <4>4, <4>5, ZenonT(40)
    <3> QED BY <3>2, <3>3
  <2> QED BY <2>3, <2>4, <2>5, <2>6, ZenonT(40) DEF WsInv
<1> QED BY <1>1, <1>2

(* What a step must keep, or not do, on the side of the websockets.        *)
WsGood ==
    /\ WsInv'
    /\ PushReachesItsPeer => PushReachesItsPeer'
    /\ \A k \in Key : ws_peers[k] # NoConn /\ ws_peers'[k] = NoConn =>
          pc[ws_peers[k]] = "guard" /\ pc'[ws_peers[k]] # "guard"

LEMMA WsUnchanged == ASSUME WsInv, UNCHANGED wsVars PROVE WsGood
  BY DEF WsGood, WsInv, WsTypeOK, EntryIsOpen, PushReachesItsPeer, ConnKey, wsVars

(* Tasks stay where they are, or go on serving, while a message is passed  *)
(* to Peer, an answer is sent, or nothing is.                              *)
LEMMA WsPasses ==
    ASSUME WsInv, UNCHANGED owner, pc' \in [Conn -> WsPlaces],
           \A c \in Conn : pc[c] \in Serving => pc'[c] \in Serving,
           NEW a \in Key,
           \/ \E r : PassTo(a, r)
           \/ SendToTcp(a)
           \/ UNCHANGED <<ws_peers, rx_ws>>
    PROVE  WsGood
<1>1. CASE UNCHANGED <<ws_peers, rx_ws>>
  BY <1>1, WsAssumption
     DEF WsGood, WsInv, WsTypeOK, EntryIsOpen, PushReachesItsPeer, ConnKey, Serving
<1>2. CASE \E r : PassTo(a, r)
  BY <1>2, WsPushes, RendezvousAssumption, ZenonT(40) DEF PassTo, WsGood
<1>3. CASE SendToTcp(a)
  <2>1. CASE OnSink(a)
    BY <1>1, <2>1 DEF OnSink
  <2>2. CASE \E k \in Client : PushTo(k, "answer")
    BY <2>2, WsPushes DEF WsGood
  <2> QED BY <1>3, <2>1, <2>2, ZenonT(40) DEF SendToTcp
<1> QED BY <1>1, <1>2, <1>3

LEMMA WsStepGood == ASSUME WsInv, NEW c \in Conn, WsStep(c) PROVE WsGood
<1>1. CASE Open(c) \/ Recv(c) \/ HandleOther(c) \/ Refuse(c) \/ Written(c) \/ StreamEnds(c) \/ IdleClose(c)
  <2>1. PICK l \in Serving : Goto(c, l) /\ UNCHANGED <<owner, ws_peers, rx_ws>>
    BY <1>1 DEF Open, Recv, HandleOther, Refuse, Written, StreamEnds, IdleClose, Serving
  <2> QED BY <2>1, WsMoves DEF WsGood, WsPlaces
<1>2. CASE Register(c)
  <2>1. Goto(c, "loop") /\ pc[c] \in Serving
    BY <1>2 DEF Register, Serving
  <2> QED BY <1>2, <2>1, WsRegisters, ZenonT(40) DEF Register, WsGood, Serving
<1>3. CASE DropGuard(c)
  <2>1. ConnKey(c) \in Key /\ c # NoConn
    BY WsAssumption DEF WsInv, WsTypeOK, ConnKey
  <2>2. WsTypeOK'
    BY <1>3, <2>1, ZenonT(40) DEF DropGuard, WsInv, WsTypeOK, Goto, WsPlaces
  <2>3. EntryIsOpen'
    <3> SUFFICES ASSUME NEW k \in Key, ws_peers'[k] # NoConn
                 PROVE  pc'[ws_peers'[k]] \in Serving /\ KeyOf[owner'[ws_peers'[k]]] = k
      BY ZenonT(40) DEF EntryIsOpen, ConnKey, Serving
    <3>1. ws_peers'[k] = ws_peers[k] /\ (ws_peers[k] = c => ConnKey(c) # k)
      BY <1>3, <2>1, ZenonT(40) DEF DropGuard, WsInv, WsTypeOK
    <3>2. ws_peers[k] \in Conn /\ pc[ws_peers[k]] \in Serving /\ ConnKey(ws_peers[k]) = k
      BY <3>1, ZenonT(40) DEF WsInv, WsTypeOK, EntryIsOpen, Serving
    <3>3. pc'[ws_peers[k]] = pc[ws_peers[k]]
      BY <1>3, <3>1, <3>2, ZenonT(40) DEF DropGuard, Goto, WsInv, WsTypeOK
    <3> QED BY <1>3, <3>1, <3>2, <3>3, ZenonT(40) DEF DropGuard, ConnKey
  <2> QED BY <1>3, <2>1, <2>2, <2>3, ZenonT(40)
          DEF DropGuard, WsGood, WsInv, WsTypeOK, PushReachesItsPeer, ConnKey, Goto
<1>4. CASE DropRx(c)
  <2>1. WsTypeOK'
    BY <1>4, EmptySeq DEF DropRx, WsInv, WsTypeOK, Goto, WsPlaces
  <2>2. EntryIsOpen'
    BY <1>4, WsAssumption DEF DropRx, WsInv, WsTypeOK, EntryIsOpen, ConnKey, Goto
  <2>3. PushReachesItsPeer => PushReachesItsPeer'
    BY <1>4 DEF DropRx, WsInv, WsTypeOK, PushReachesItsPeer, ConnKey
  <2> QED BY <1>4, <2>1, <2>2, <2>3 DEF DropRx, WsGood, WsInv
<1>5. CASE Vanish(c)
  BY <1>5 DEF Vanish, WsGood, WsInv, WsTypeOK, EntryIsOpen, PushReachesItsPeer, ConnKey
<1> QED BY <1>1, <1>2, <1>3, <1>4, <1>5, ZenonT(40) DEF WsStep

(* A pushed message is taken from the channel.                             *)
LEMMA WsForwards == ASSUME WsInv, NEW c \in Conn, Deliver(c) PROVE WsGood
<1>0. rx_ws[c] \in Seq(Message) /\ rx_ws[c] # <<>>
  BY DEF Deliver, WsInv, WsTypeOK
<1>1. /\ Tail(rx_ws[c]) \in Seq(Message)
      /\ \A i \in 1..Len(Tail(rx_ws[c])) : i + 1 \in 1..Len(rx_ws[c])
                                          /\ Tail(rx_ws[c])[i] = rx_ws[c][i + 1]
  BY <1>0, LeftAt, ZenonT(40)
<1>2. WsTypeOK'
  BY <1>1 DEF Deliver, WsInv, WsTypeOK, Goto, WsPlaces, Serving
<1>3. EntryIsOpen'
  <2>1. \A d \in Conn : pc[d] \in Serving => pc'[d] \in Serving
    BY DEF Deliver, WsInv, WsTypeOK, Goto, Serving
  <2> QED BY <2>1, EntriesStay, ZenonT(40) DEF Deliver
<1>4. PushReachesItsPeer => PushReachesItsPeer'
  BY <1>1, ZenonT(40) DEF Deliver, WsInv, WsTypeOK, PushReachesItsPeer, ConnKey
<1> QED BY <1>2, <1>3, <1>4 DEF Deliver, WsGood, WsInv

LEMMA WsNextGood == ASSUME WsInv, [Next]_vars PROVE WsGood
<1>1. ASSUME NEW c \in Conn, WsStep(c) \/ AskOnWs(c) PROVE WsGood
  <2>1. CASE AskOnWs(c)
    <3>1. Goto(c, "decide") /\ pc[c] \in Serving
      BY <2>1 DEF AskOnWs, Serving
    <3> QED BY <2>1, <3>1, WsRegisters, ZenonT(40) DEF AskOnWs, WsGood, Serving
  <2> QED BY <1>1, <2>1, WsStepGood
<1>2. ASSUME NEW c \in Conn, PassOnWs(c) \/ RefuseOnWs(c) \/ DropOnWs(c) PROVE WsGood
  <2>1. /\ UNCHANGED owner /\ pc' \in [Conn -> WsPlaces]
        /\ \A d \in Conn : pc[d] \in Serving => pc'[d] \in Serving
    BY <1>2, Zenon DEF PassOnWs, RefuseOnWs, DropOnWs, Goto, Serving, WsPlaces, WsInv, WsTypeOK
  <2>2. ConnKey(c) \in Key
    BY WsAssumption DEF WsInv, WsTypeOK, ConnKey
  <2> QED BY <1>2, <2>1, <2>2, WsPasses, ZenonT(40) DEF PassOnWs, RefuseOnWs, DropOnWs
<1>3. ASSUME NEW c \in Conn, Forward(c) PROVE WsGood
  BY <1>3, WsForwards, Zenon DEF Forward
<1>4. ASSUME NEW c \in TcpConn, PassOn(c) \/ RefuseAsker(c) PROVE WsGood
  <2>1. UNCHANGED owner /\ pc' \in [Conn -> WsPlaces] /\ pc' = pc
    BY <1>4 DEF PassOn, RefuseAsker, WsInv, WsTypeOK
  <2>2. PunchKey(c) \in Key
    BY PunchAssumption, RendezvousAssumption DEF PunchKey
  <2> QED BY <1>4, <2>1, <2>2, WsPasses, ZenonT(40) DEF PassOn, RefuseAsker
<1>5. ASSUME NEW a \in Key, Answer(a) \/ AnswerAgain(a) PROVE WsGood
  <2>1. UNCHANGED owner /\ pc' \in [Conn -> WsPlaces] /\ pc' = pc
    BY <1>5 DEF Answer, AnswerAgain, WsInv, WsTypeOK
  <2> QED BY <1>5, <2>1, WsPasses DEF Answer, AnswerAgain
<1>6. CASE Noise
  <2>1. PICK k \in Client : Push(k)
    BY <1>6 DEF Noise
  <2>2. UNCHANGED owner /\ pc' \in [Conn -> WsPlaces] /\ pc' = pc
    BY <2>1 DEF Push, WsInv, WsTypeOK
  <2> QED BY <2>1, <2>2, WsPushes DEF Push, WsGood
<1>7. ASSUME NEW c \in TcpConn, TcpOnly \/ Closes(c) \/ TimesOut(c) PROVE WsGood
  BY <1>7, WsUnchanged DEF TcpOnly, Closes, TimesOut
<1>8. ASSUME Logged \/ UNCHANGED vars \/ \E a \in Key : AnswerLost(a) PROVE WsGood
  BY <1>8, WsUnchanged DEF Logged, vars, AnswerLost
<1> QED BY <1>1, <1>2, <1>3, <1>4, <1>5, <1>6, <1>7, <1>8, ZenonT(40) DEF Next

(* Every entry of ws_peers names a connection from its address that has    *)
(* not run its guard and whose channel exists; and what is pushed waits    *)
(* only in channels of connections from the address of the client it is    *)
(* for (register_ws_peer, push_to_ws_peer, WsPeerGuard).                   *)
THEOREM PushesSoundHolds == Spec => []PushesSound
<1>1. Init => WsPushInv
  BY WsInitInv, ZenonT(40)
<1>2. WsPushInv /\ [Next]_vars => WsPushInv'
  BY WsNextGood DEF WsPushInv, WsGood
<1>3. WsPushInv => PushesSound
  BY DEF WsPushInv, WsInv, PushesSound
<1> QED BY <1>1, <1>2, <1>3, PTL DEF Spec

(* No task removes the entry of another: an entry goes only when the guard *)
(* of the connection it names is dropped, and push_to_ws_peer never meets  *)
(* a receiver that is gone.                                                *)
THEOREM OnlyOwnerRemovesHolds == Spec => OnlyOwnerRemoves
<1>1. Init => WsInv
  BY WsInitInv DEF WsPushInv
<1>2. WsInv /\ [Next]_vars => WsInv'
  BY WsNextGood DEF WsGood
<1>3. WsInv /\ [Next]_vars =>
        [\A k \in Key : ws_peers[k] # NoConn /\ ws_peers'[k] = NoConn =>
            /\ pc[ws_peers[k]] = "guard"
            /\ pc'[ws_peers[k]] # "guard"]_wsVars
  BY WsNextGood DEF WsGood
<1> QED BY <1>1, <1>2, <1>3, PTL DEF Spec, OnlyOwnerRemoves

-----------------------------------------------------------------------------
(***************************************************************************)
(* The TCP connections.  A sink is in tcp_punch exactly when the map has it*)
(* under the address of its connection; the secret of the key exchange is  *)
(* there only before the first request, when the sink cannot have moved;   *)
(* and while a connection waits alone, no other task can touch the entry.  *)
(***************************************************************************)
TcpPlaces == Live \union {"new", "closing", "done"}

TcpTypeOK ==
    /\ task \in [TcpConn -> TcpPlaces]
    /\ secret \in [TcpConn -> BOOLEAN] /\ recvKey \in [TcpConn -> BOOLEAN]
    /\ sinkKey \in [TcpConn -> BOOLEAN] /\ waiting \in [TcpConn -> BOOLEAN]
    /\ sink \in [TcpConn -> {"own", "map", "sending", "dropped"}]
    /\ tcp_punch \in [Addr -> TcpConn \union {NoSink}]

(* Both directions of KeptOnce, at the key the code uses.                  *)
KeptUnderKey ==
    /\ \A a \in Addr : tcp_punch[a] # NoSink =>
          PunchKey(tcp_punch[a]) = a /\ sink[tcp_punch[a]] = "map"
    /\ \A c \in TcpConn : sink[c] = "map" => tcp_punch[PunchKey(c)] = c

SecretIsEarly ==
    \A c \in TcpConn :
        /\ task[c] \in {"read", "quiet"} /\ secret[c] => sink[c] = "own"
        /\ task[c] \in {"decide", "refuse", "refusing"} => ~ secret[c]

WaitsAlone ==
    \A c \in TcpConn :
        /\ task[c] = "new" => ~ waiting[c]
        /\ waiting[c] /\ task[c] \in Live => tcp_punch[PunchKey(c)] = c /\ Alone(c) /\ c \notin cut

TcpInv == TcpTypeOK /\ KeptUnderKey /\ SecretIsEarly /\ SameMode /\ WaitsAlone /\ NoneLeft

LEMMA KeysAreAddresses == \A c \in TcpConn : PunchKey(c) \in Addr
  BY PunchAssumption DEF PunchKey

LEMMA NoSinkApart == NoSink \notin TcpConn
  BY PunchAssumption

LEMMA TcpInitInv == Init => TcpInv
<1> SUFFICES ASSUME Init PROVE TcpInv
  OBVIOUS
<1> USE DEF Init, TcpInit
<1>1. TcpTypeOK
  BY DEF TcpTypeOK, TcpPlaces, Live
<1> QED BY <1>1, KeysAreAddresses, NoSinkApart
        DEF TcpInv, KeptUnderKey, SecretIsEarly, SameMode, WaitsAlone, NoneLeft, Live

(* A task goes from one place of its loop to another, or leaves it; the    *)
(* secret may be spent on the way.                                         *)
LEMMA TcpMoves ==
    ASSUME TcpInv, NEW c \in TcpConn, task[c] \in Live,
           NEW l \in Live \union {"closing"}, task' = [task EXCEPT ![c] = l],
           \/ secret' = [secret EXCEPT ![c] = FALSE]
           \/ secret' = secret /\ (task[c] \notin {"read", "quiet"} \/ l \in {"quiet", "closing"}),
           task[c] = "read" \/ l # "quiet",
           UNCHANGED <<cut, recvKey, sinkKey, sink, tcp_punch, waiting>>
    PROVE  TcpInv'
<1>1. TcpTypeOK'
  BY ZenonT(40) DEF TcpInv, TcpTypeOK, TcpPlaces
<1>2. KeptUnderKey' /\ SameMode'
  BY DEF TcpInv, KeptUnderKey, SameMode, PunchKey
<1>3. SecretIsEarly'
  BY DEF TcpInv, TcpTypeOK, SecretIsEarly, Live
<1>4. WaitsAlone'
  BY DEF TcpInv, TcpTypeOK, WaitsAlone, Alone, Live, PunchKey
<1>5. NoneLeft'
  BY DEF TcpInv, TcpTypeOK, NoneLeft, Live
<1> QED BY <1>1, <1>2, <1>3, <1>4, <1>5, ZenonT(40) DEF TcpInv

(* Only tasks that have spent their secret move, within their loop.        *)
StaysInLoop ==
    /\ task' \in [TcpConn -> TcpPlaces]
    /\ \A c \in TcpConn : \/ task'[c] = task[c]
                          \/ task[c] \in Live /\ task'[c] \in Live /\ ~ secret[c]

(* The kept sink is taken out.                                             *)
LEMMA TcpTakes ==
    ASSUME TcpInv, NEW a \in Addr, TakeKept(a), StaysInLoop, UNCHANGED <<cut, keys>>
    PROVE  TcpInv'
<1> USE DEF StaysInLoop
<1>1. CASE tcp_punch[a] = NoSink
  <2>1. tcp_punch' = tcp_punch /\ UNCHANGED <<sink, waiting>>
    BY <1>1 DEF TakeKept, TcpInv, TcpTypeOK
  <2> QED BY <2>1, ZenonT(40) DEF TcpInv, TcpTypeOK, KeptUnderKey, SecretIsEarly, SameMode, WaitsAlone,
                      NoneLeft, Alone, PunchKey, keys, Live
<1>2. CASE tcp_punch[a] # NoSink
  <2>1. PICK d \in TcpConn : tcp_punch[a] = d /\ PunchKey(d) = a /\ sink[d] = "map"
    BY <1>2 DEF TcpInv, TcpTypeOK, KeptUnderKey
  <2>2. /\ sink' = [sink EXCEPT ![d] = "sending"]
        /\ waiting' = [waiting EXCEPT ![d] = FALSE]
        /\ tcp_punch' = [tcp_punch EXCEPT ![a] = NoSink]
    BY <1>2, <2>1 DEF TakeKept
  <2>3. TcpTypeOK'
    BY <2>2 DEF TcpInv, TcpTypeOK, keys
  <2>4. KeptUnderKey'
    BY <2>1, <2>2, KeysAreAddresses, NoSinkApart DEF TcpInv, TcpTypeOK, KeptUnderKey, PunchKey
  <2>5. SecretIsEarly' /\ SameMode'
    BY <2>1, <2>2, ZenonT(40) DEF TcpInv, TcpTypeOK, SecretIsEarly, SameMode, keys, Live
  <2>6. WaitsAlone'
    BY <2>1, <2>2, KeysAreAddresses, ZenonT(40) DEF TcpInv, TcpTypeOK, WaitsAlone, Alone, PunchKey, Live
  <2>7. NoneLeft'
    BY <2>1, <2>2, ZenonT(40) DEF TcpInv, TcpTypeOK, NoneLeft, Live
  <2> QED BY <2>3, <2>4, <2>5, <2>6, <2>7, ZenonT(40) DEF TcpInv
<1> QED BY <1>1, <1>2, ZenonT(40)

LEMMA TcpUnchanged == ASSUME TcpInv, UNCHANGED tcpVars PROVE TcpInv'
  BY DEF TcpInv, TcpTypeOK, KeptUnderKey, SecretIsEarly, SameMode, WaitsAlone, NoneLeft, Alone,
         PunchKey, tcpVars

LEMMA TcpAccepts == ASSUME TcpInv, NEW c \in TcpConn, NEW keyed, Accept(c, keyed) PROVE TcpInv'
<1>1. sink[c] # "map"
  BY DEF Accept, TcpInv, NoneLeft
<1>2. TcpTypeOK'
  BY NoSinkApart DEF Accept, TcpInv, TcpTypeOK, TcpPlaces, Live
<1>3. KeptUnderKey'
  BY <1>1, KeysAreAddresses DEF Accept, TcpInv, TcpTypeOK, KeptUnderKey, PunchKey
<1>4. SecretIsEarly' /\ SameMode'
  BY ZenonT(40) DEF Accept, TcpInv, TcpTypeOK, SecretIsEarly, SameMode
<1>5. WaitsAlone'
  BY DEF Accept, SocketOpen, TcpInv, TcpTypeOK, WaitsAlone, Alone, PunchKey, Live
<1>6. NoneLeft'
  BY DEF Accept, TcpInv, TcpTypeOK, NoneLeft
<1> QED BY <1>2, <1>3, <1>4, <1>5, <1>6, ZenonT(40) DEF TcpInv

LEMMA TcpAsks == ASSUME TcpInv, NEW c \in TcpConn, NEW n, Ask(c, n) PROVE TcpInv'
<1>1. CASE sink[c] # "own"
  BY <1>1, TcpMoves, ZenonT(40) DEF Ask, Reading, SpendSecret, Live
<1>2. CASE sink[c] = "own"
  <2> DEFINE k == PunchKey(c)
  <2>1. /\ k \in Addr
        /\ sink' = [DropKept(k, sink) EXCEPT ![c] = "map"]
        /\ tcp_punch' = [tcp_punch EXCEPT ![k] = c]
        /\ waiting' = [waiting EXCEPT ![c] = Alone(c) /\ c \notin cut]
        /\ task[c] \in {"read", "quiet"} /\ task' = [task EXCEPT ![c] = "decide"]
        /\ secret' = [secret EXCEPT ![c] = FALSE] /\ UNCHANGED <<cut, recvKey, sinkKey>>
    BY <1>2, KeysAreAddresses DEF Ask, Reading, SpendSecret
  <2>2. \A d \in TcpConn : sink'[d] = IF d = c THEN "map"
                                     ELSE IF tcp_punch[k] = d THEN "dropped" ELSE sink[d]
    BY <2>1, NoSinkApart, ZenonT(40) DEF DropKept, TcpInv, TcpTypeOK
  <2>3. sink' \in [TcpConn -> {"own", "map", "sending", "dropped"}]
    BY <2>1, NoSinkApart DEF DropKept, TcpInv, TcpTypeOK
  <2>4. Alone(c) \in BOOLEAN
    BY DEF Alone
  <2>5. TcpTypeOK'
    BY <2>1, <2>3, <2>4, ZenonT(40) DEF TcpInv, TcpTypeOK, TcpPlaces, Live
  <2>6. KeptUnderKey'
    BY <1>2, <2>1, <2>2, KeysAreAddresses, NoSinkApart DEF TcpInv, TcpTypeOK, KeptUnderKey, PunchKey
  <2>7. SecretIsEarly' /\ SameMode'
    <3>1. \A d \in TcpConn : tcp_punch[k] = d => sink[d] = "map"
      BY <2>1, NoSinkApart, ZenonT(40) DEF TcpInv, KeptUnderKey
    <3> HIDE DEF k
    <3> QED BY <2>1, <2>2, <3>1, ZenonT(40) DEF TcpInv, TcpTypeOK, SecretIsEarly, SameMode
  <2>8. WaitsAlone'
    <3> SUFFICES ASSUME NEW d \in TcpConn
                 PROVE  /\ task'[d] = "new" => ~ waiting'[d]
                        /\ waiting'[d] /\ task'[d] \in Live => tcp_punch'[PunchKey(d)] = d /\ Alone(d)' /\ d \notin cut'
      BY DEF WaitsAlone, PunchKey
    <3>1. CASE d = c
      BY <2>1, <3>1, ZenonT(40) DEF TcpInv, TcpTypeOK, Alone, PunchKey
    <3>2. CASE d # c
      BY <2>1, <3>2, KeysAreAddresses, ZenonT(40) DEF TcpInv, TcpTypeOK, WaitsAlone, Alone, PunchKey, Live
    <3> QED BY <3>1, <3>2
  <2>9. NoneLeft'
    BY <2>1, <2>2 DEF TcpInv, TcpTypeOK, NoneLeft
  <2> QED BY <2>5, <2>6, <2>7, <2>8, <2>9, ZenonT(40) DEF TcpInv
<1> QED BY <1>1, <1>2

LEMMA TcpFinishes == ASSUME TcpInv, NEW c \in TcpConn, Finish(c) PROVE TcpInv'
<1> DEFINE k == PunchKey(c)
<1>0. k \in Addr /\ task[c] = "closing" /\ task' = [task EXCEPT ![c] = "done"]
      /\ UNCHANGED <<cut, keys, waiting>>
  BY KeysAreAddresses DEF Finish
<1>1. CASE sink[c] = "own"
  <2>1. sink' = [sink EXCEPT ![c] = "dropped"] /\ UNCHANGED tcp_punch
    BY <1>1 DEF Finish
  <2>2. TcpTypeOK'
    BY <1>0, <2>1, ZenonT(40) DEF TcpInv, TcpTypeOK, TcpPlaces, keys
  <2>3. KeptUnderKey'
    BY <1>0, <1>1, <2>1 DEF TcpInv, TcpTypeOK, KeptUnderKey, PunchKey
  <2>4. SecretIsEarly' /\ SameMode'
    BY <1>0, <2>1 DEF TcpInv, TcpTypeOK, SecretIsEarly, SameMode, keys
  <2>5. WaitsAlone'
    BY <1>0, <2>1 DEF TcpInv, TcpTypeOK, WaitsAlone, Alone, PunchKey, Live
  <2>6. NoneLeft'
    BY <1>0, <2>1 DEF TcpInv, TcpTypeOK, NoneLeft
  <2> QED BY <2>2, <2>3, <2>4, <2>5, <2>6, ZenonT(40) DEF TcpInv
<1>2. CASE sink[c] # "own"
  <2>1. sink' = DropKept(k, sink) /\ tcp_punch' = [tcp_punch EXCEPT ![k] = NoSink]
    BY <1>2 DEF Finish
  <2>2. /\ sink' \in [TcpConn -> {"own", "map", "sending", "dropped"}]
        /\ \A d \in TcpConn : sink'[d] = IF tcp_punch[k] = d THEN "dropped" ELSE sink[d]
    BY <1>0, <2>1, NoSinkApart DEF DropKept, TcpInv, TcpTypeOK
  <2>3. TcpTypeOK'
    BY <1>0, <2>1, <2>2, ZenonT(40) DEF TcpInv, TcpTypeOK, TcpPlaces, keys
  <2>4. KeptUnderKey'
    BY <1>0, <2>1, <2>2, KeysAreAddresses, NoSinkApart DEF TcpInv, TcpTypeOK, KeptUnderKey, PunchKey
  <2>5. SecretIsEarly' /\ SameMode'
    <3>1. \A d \in TcpConn : tcp_punch[k] = d => sink[d] = "map"
      BY <1>0, NoSinkApart, ZenonT(40) DEF TcpInv, KeptUnderKey
    <3> HIDE DEF k
    <3> QED BY <1>0, <2>2, <3>1, ZenonT(40) DEF TcpInv, TcpTypeOK, SecretIsEarly, SameMode, keys
  <2>6. WaitsAlone'
    BY <1>0, <2>1, KeysAreAddresses, ZenonT(40) DEF TcpInv, TcpTypeOK, WaitsAlone, Alone, PunchKey, Live
  <2>7. NoneLeft'
    <3>1. sink'[c] \in {"sending", "dropped"}
      BY <1>2, <2>2 DEF TcpInv, TcpTypeOK, KeptUnderKey
    <3> HIDE DEF k
    <3> QED BY <1>0, <2>2, <3>1, ZenonT(40) DEF TcpInv, TcpTypeOK, NoneLeft
  <2> QED BY <2>3, <2>4, <2>5, <2>6, <2>7, ZenonT(40) DEF TcpInv
<1> QED BY <1>1, <1>2

(* The client resets its connection.                                       *)
LEMMA TcpResets == ASSUME TcpInv, NEW c \in TcpConn, Reset(c) PROVE TcpInv'
<1>1. /\ UNCHANGED <<task, secret, recvKey, sinkKey, sink, tcp_punch>>
      /\ cut' = cut \union {c} /\ waiting' = [waiting EXCEPT ![c] = FALSE]
  BY DEF Reset, keys
<1>2. TcpTypeOK'
  BY <1>1 DEF TcpInv, TcpTypeOK
<1>3. KeptUnderKey' /\ SecretIsEarly' /\ SameMode' /\ NoneLeft'
  BY <1>1 DEF TcpInv, KeptUnderKey, SecretIsEarly, SameMode, NoneLeft, PunchKey
<1>4. WaitsAlone'
  BY <1>1 DEF TcpInv, TcpTypeOK, WaitsAlone, Alone, PunchKey
<1> QED BY <1>2, <1>3, <1>4, ZenonT(40) DEF TcpInv

LEMMA TcpNextInv == ASSUME WsInv, TcpInv, [Next]_vars PROVE TcpInv'
<1>1. ASSUME NEW c \in TcpConn, NEW keyed, NEW n, TcpStep(c, keyed, n) PROVE TcpInv'
  <2>1. CASE ExchangeKeys(c)
    <3>1. sink[c] = "own" /\ sinkKey' = [sinkKey EXCEPT ![c] = TRUE]
      BY <2>1, ZenonT(40) DEF ExchangeKeys, Reading, TcpInv, SecretIsEarly, TcpTypeOK
    <3>2. TcpTypeOK'
      BY <2>1, <3>1 DEF ExchangeKeys, TcpInv, TcpTypeOK, TcpPlaces, Live
    <3>3. SameMode'
      BY <2>1, <3>1, ZenonT(40) DEF ExchangeKeys, TcpInv, TcpTypeOK, SameMode
    <3>4. KeptUnderKey' /\ WaitsAlone' /\ NoneLeft'
      BY <2>1 DEF ExchangeKeys, Reading, TcpInv, TcpTypeOK, KeptUnderKey, WaitsAlone, NoneLeft, Alone, PunchKey, Live
    <3>5. SecretIsEarly'
      BY <2>1 DEF ExchangeKeys, TcpInv, TcpTypeOK, SecretIsEarly
    <3> QED BY <3>2, <3>3, <3>4, <3>5 DEF TcpInv
  <2>2. CASE RegisterOk(c)
    BY <2>2, TcpMoves, ZenonT(40) DEF RegisterOk, Reading, SpendSecret, Live
  <2>3. CASE Dismiss(c) \/ RefusalSent(c)
    BY <2>3, TcpMoves, ZenonT(40) DEF Dismiss, RefusalSent, Live, keys
  <2>5. CASE Silence(c)
    BY <2>5, TcpMoves, ZenonT(40) DEF Silence, Live, keys
  <2>4. CASE Sent(c)
    <3>1. TcpTypeOK'
      BY <2>4 DEF Sent, TcpInv, TcpTypeOK, keys
    <3>2. \A d \in TcpConn : sink'[d] = sink[d] \/ (sink[d] = "sending" /\ sink'[d] = "dropped")
      BY <2>4, ZenonT(40) DEF Sent, TcpInv, TcpTypeOK
    <3>3. UNCHANGED <<task, cut, secret, recvKey, sinkKey, tcp_punch, waiting>>
      BY <2>4, ZenonT(40) DEF Sent, keys
    <3>4. KeptUnderKey'
      <4>1. ASSUME NEW a \in Addr, tcp_punch'[a] # NoSink
            PROVE  PunchKey(tcp_punch[a]) = a /\ sink'[tcp_punch[a]] = "map"
        BY <3>2, <3>3, <4>1 DEF TcpInv, TcpTypeOK, KeptUnderKey
      <4>2. ASSUME NEW d \in TcpConn, sink'[d] = "map" PROVE tcp_punch[PunchKey(d)] = d
        BY <3>2, <4>2 DEF TcpInv, KeptUnderKey
      <4> QED BY <3>3, <4>1, <4>2, ZenonT(40) DEF KeptUnderKey, PunchKey
    <3>5. SecretIsEarly'
      BY <3>2, <3>3 DEF TcpInv, SecretIsEarly
    <3>6. SameMode' /\ WaitsAlone'
      BY <3>3, ZenonT(40) DEF TcpInv, SameMode, WaitsAlone, Alone, PunchKey
    <3>7. NoneLeft'
      BY <3>2, <3>3 DEF TcpInv, NoneLeft
    <3> QED BY <3>1, <3>4, <3>5, <3>6, <3>7, ZenonT(40) DEF TcpInv
  <2> QED BY <1>1, <2>1, <2>2, <2>3, <2>4, <2>5, TcpAccepts, TcpAsks, TcpFinishes, ZenonT(40) DEF TcpStep
<1>2. ASSUME NEW c \in TcpConn, PassOn(c) \/ Closes(c) \/ TimesOut(c) PROVE TcpInv'
  <2>1. CASE Reset(c)
    BY <2>1, TcpResets
  <2> QED BY <1>2, <2>1, TcpMoves, ZenonT(40)
          DEF PassOn, Closes, TimesOut, LastFrame, Hangup, Reading, SpendSecret, Leave, Live, keys
<1>3. ASSUME NEW a \in Addr, SendToTcp(a), StaysInLoop, UNCHANGED <<cut, keys>> PROVE TcpInv'
  <2>1. CASE OnSink(a)
    BY <1>3, <2>1, TcpTakes, ZenonT(40) DEF OnSink
  <2>2. CASE UNCHANGED <<sink, tcp_punch, waiting>>
    BY <1>3, <2>2, ZenonT(40) DEF StaysInLoop, TcpInv, TcpTypeOK, KeptUnderKey, SecretIsEarly, SameMode,
                      WaitsAlone, NoneLeft, Alone, PunchKey, keys, Live
  <2> QED BY <1>3, <2>1, <2>2 DEF SendToTcp
<1>4. ASSUME UNCHANGED task PROVE StaysInLoop
  BY <1>4 DEF StaysInLoop, TcpInv, TcpTypeOK
<1>5. ASSUME NEW c \in TcpConn, RefuseAsker(c) PROVE TcpInv'
  <2>1. StaysInLoop
    BY <1>5, Zenon DEF RefuseAsker, StaysInLoop, TcpInv, TcpTypeOK, SecretIsEarly, TcpPlaces, Live
  <2> QED BY <1>3, <1>5, <2>1, KeysAreAddresses, ZenonT(40) DEF RefuseAsker
<1>6. ASSUME NEW a \in Key, Answer(a) \/ AnswerAgain(a) PROVE TcpInv'
  BY <1>3, <1>4, <1>6, RendezvousAssumption, ZenonT(40) DEF Answer, AnswerAgain
<1>7. ASSUME NEW c \in Conn, RefuseOnWs(c) PROVE TcpInv'
  <2>1. ConnKey(c) \in Addr
    BY WsAssumption, RendezvousAssumption DEF WsInv, WsTypeOK, ConnKey
  <2> QED BY <1>3, <1>4, <1>7, <2>1, ZenonT(40) DEF RefuseOnWs
<1>8. ASSUME \/ \E c \in Conn : \/ (WsStep(c) \/ AskOnWs(c)) /\ WsOnly
                                \/ PassOnWs(c) \/ DropOnWs(c) \/ Forward(c)
             \/ \E a \in Key : AnswerLost(a)
             \/ Noise \/ Logged \/ UNCHANGED vars
      PROVE  TcpInv'
  <2>1. UNCHANGED tcpVars
    BY <1>8, Zenon DEF WsOnly, PassOnWs, DropOnWs, Forward, AnswerLost, Noise, Logged, vars
  <2> QED BY <2>1, TcpUnchanged, ZenonT(40)
<1> QED BY <1>1, <1>2, <1>5, <1>6, <1>7, <1>8, ZenonT(40) DEF Next

LEMMA TcpInvariant == Spec => [](WsInv /\ TcpInv)
<1>1. Init => WsInv /\ TcpInv
  BY WsInitInv, TcpInitInv, ZenonT(40) DEF WsPushInv
<1>2. WsInv /\ TcpInv /\ [Next]_vars => WsInv' /\ TcpInv'
  BY WsNextGood, TcpNextInv DEF WsGood
<1> QED BY <1>1, <1>2, PTL DEF Spec

(* Whoever writes to a TCP connection is alone with its sink, and encrypts *)
(* exactly when the reader of the connection decrypts; and no sink is left *)
(* in tcp_punch by a task that ended: for any number of connections,       *)
(* addresses and requests (handle_listener_inner, handle_tcp, send_to_tcp).*)
THEOREM SinkSoundHolds == Spec => []SinkSound
<1>1. TcpInv => SinkSound
  BY KeysAreAddresses, NoSinkApart DEF TcpInv, TcpTypeOK, KeptUnderKey, SinkSound, KeptOnce
<1> QED BY <1>1, TcpInvariant, PTL

(* A connection that asked, with no task of an earlier connection left at  *)
(* its address, keeps its route in tcp_punch until it is used or the task  *)
(* ends.                                                                   *)
THEOREM AskerHasRouteHolds == Spec => []AskerHasRoute
<1>1. TcpInv => AskerHasRoute
  BY DEF TcpInv, WaitsAlone, AskerHasRoute, PunchKey, Live
<1> QED BY <1>1, TcpInvariant, PTL

-----------------------------------------------------------------------------
(* The log again, under every step of the composed system.                 *)
LEMMA LogNextInv == ASSUME WsInv, LogInv, [Next]_vars PROVE LogInv'
<1>1. ASSUME NEW a \in Key, Recorded(a) PROVE LogInv'
  BY <1>1, LogRecords, LogUnchanged, RendezvousAssumption, ZenonT(40) DEF Recorded
<1>2. ASSUME NEW c \in TcpConn, PassOn(c) PROVE LogInv'
  BY <1>1, <1>2, KeysAreAddresses, RendezvousAssumption, ZenonT(40) DEF PassOn
<1>3. ASSUME NEW c \in Conn, PassOnWs(c) PROVE LogInv'
  <2>1. ConnKey(c) \in Key
    BY WsAssumption DEF WsInv, WsTypeOK, ConnKey
  <2> QED BY <1>1, <1>3, <2>1, ZenonT(40) DEF PassOnWs
<1>4. CASE Logged
  <2>1. CASE Tick
    <3>1. \A x \in Nat : x <= clock => x <= clock + 1
      BY DEF LogInv, LogTypeOK
    <3>2. LogTypeOK' /\ LogSound'
      <4>1. clock' = clock + 1 /\ UNCHANGED <<max, punch_reqs, last>>
        BY <2>1, Zenon DEF Tick
      <4>2. LogTypeOK'
        BY <4>1 DEF LogInv, LogTypeOK
      <4>3. LogSound'
        BY <4>1, ZenonT(40) DEF LogInv, LogSound
      <4> QED BY <4>2, <4>3
    <3>3. last.tm \in Nat
      BY DEF LogInv, LogTypeOK
    <3> QED BY <2>1, <3>1, <3>2, <3>3, EntriesTyped, ZenonT(40) DEF Tick, LogInv
  <2>2. CASE ClearLog
    <3>1. LogTypeOK' /\ last'.tm = last.tm /\ last'.req = NoRequest
      BY <2>2, EmptySeq DEF ClearLog, LogInv, LogTypeOK
    <3>2. Len(punch_reqs') = 0 /\ max' = max /\ max \in Nat /\ clock' = clock
      BY <2>2, EmptySeq DEF ClearLog, LogInv, LogTypeOK
    <3>3. Len(punch_reqs') <= max' /\ \A i \in 1..Len(punch_reqs') : FALSE
      BY <3>2
    <3>4. last.tm <= clock
      BY Zenon DEF LogInv
    <3>5. LogSound'
      BY <3>1, <3>3, ZenonT(40) DEF LogSound
    <3> QED BY <3>1, <3>2, <3>3, <3>4, <3>5, ZenonT(40) DEF LogInv
  <2>3. CASE \E r \in From \X Id : Record(r)
    BY <2>3, LogRecords, RendezvousAssumption
  <2> QED BY <1>4, <2>1, <2>2, <2>3, ZenonT(40) DEF Logged
<1>5. ASSUME \/ UNCHANGED vars \/ Noise
             \/ \E c \in Conn : WsOnly \/ RefuseOnWs(c) \/ DropOnWs(c) \/ Forward(c)
             \/ \E c \in TcpConn : TcpOnly \/ RefuseAsker(c) \/ Closes(c) \/ TimesOut(c)
             \/ \E a \in Key : Answer(a) \/ AnswerAgain(a) \/ AnswerLost(a)
      PROVE  LogInv'
  <2>1. UNCHANGED logVars
    BY <1>5, ZenonT(40) DEF vars, Noise, WsOnly, RefuseOnWs, DropOnWs, Forward, TcpOnly, RefuseAsker, Closes,
                TimesOut, Answer, AnswerAgain, AnswerLost
  <2> QED BY <2>1, LogUnchanged, ZenonT(40)
<1> QED BY <1>2, <1>3, <1>4, <1>5, ZenonT(40) DEF Next

(* The log of punch hole requests keeps its bound and the order of time,   *)
(* and leaves out repetitions and nothing else, for any MAX_PUNCH_REQUESTS,*)
(* look back and age (record_punch_req).                                   *)
THEOREM LogSoundHolds == Spec => []LogSound
<1>1. Init => WsInv /\ LogInv
  BY WsInitInv, LogInitInv, ZenonT(40) DEF WsPushInv
<1>2. WsInv /\ LogInv /\ [Next]_vars => WsInv' /\ LogInv'
  BY WsNextGood, LogNextInv DEF WsGood
<1>3. LogInv => LogSound
  BY DEF LogInv
<1> QED BY <1>1, <1>2, <1>3, PTL DEF Spec
=============================================================================

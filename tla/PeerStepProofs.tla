--------------------------- MODULE PeerStepProofs ---------------------------
(***************************************************************************)
(* Proofs about the limits on registrations (IpBlocker), for every limit,  *)
(* duration and set of ids; then what the steps of a task of PeerRegistry  *)
(* do to the table, the map and the Peers, which the proofs of             *)
(* PeerRegistryProofs are made of.                                         *)
(***************************************************************************)
EXTENDS PeerRegistry, IpBlocker, FiniteSetTheorems, TLAPS

(* The provers are given time: SMT first, then Zenon.                      *)
USE SMTT(40), ZenonT(40)

(* The ages of the two counters are the times of quiet, and a missing      *)
(* entry means both have passed.  The requests of a burst were counted but *)
(* for the first, and so were its ids noted.                               *)
BlockerInv ==
    /\ entry \in BOOLEAN /\ count \in Nat /\ burst \in Nat
    /\ quiet \in 0..Horizon /\ idQuiet \in 0..Horizon
    /\ IF entry THEN age = quiet /\ idAge = idQuiet
       ELSE quiet > BlockDur /\ idQuiet > Day
    /\ burst <= MaxRequests + 2
    /\ entry /\ quiet <= BlockDur => burst <= count + 1

IdsInv ==
    /\ IsFiniteSet(ids) /\ Cardinality(ids) <= MaxIds + 1
    /\ entry /\ idQuiet <= Day => \E f : burstIds \subseteq ids \union {f}
    /\ IsFiniteSet(burstIds) /\ Cardinality(burstIds) <= MaxIds + 2

LEMMA BlockerInvNext == ASSUME BlockerInv, [BlockerNext]_blockerVars PROVE BlockerInv'
<1> USE BlockerAssumption DEF BlockerInv
<1>1. ASSUME NEW id \in Id, FirstRequest(id) PROVE BlockerInv'
  BY <1>1 DEF FirstRequest, Passed
<1>2. ASSUME NEW id \in Id, RefuseRequest(id) PROVE BlockerInv'
  BY <1>2 DEF RefuseRequest
<1>3. ASSUME NEW id \in Id, AtIdLimit(id) PROVE BlockerInv'
  BY <1>3 DEF AtIdLimit, Passed, Count, Expired, OverLimit
<1>4. ASSUME NEW id \in Id, LetThrough(id) PROVE BlockerInv'
  BY <1>4 DEF LetThrough, Passed, Count, Expired, OverLimit
<1>5. CASE Tick
  BY <1>5 DEF Tick, Older
<1>6. CASE Retain
  <2>1. quiet > BlockDur /\ idQuiet > Day /\ count' = 0 /\ UNCHANGED <<burst, quiet, idQuiet>>
    BY <1>6 DEF Retain, Outdated, Expired, IdsExpired
  <2>2. ~ entry' /\ entry' \in BOOLEAN
    BY <1>6, Zenon DEF Retain
  <2> QED BY <2>1, <2>2
<1>8. CASE Remove
  <2>1. ~ entry' /\ entry' \in BOOLEAN /\ count' = 0 /\ burst' = 0 /\ quiet' = Horizon /\ idQuiet' = Horizon
    BY <1>8, Zenon DEF Remove
  <2> QED BY <2>1
<1>7. CASE UNCHANGED blockerVars
  BY <1>7 DEF blockerVars
<1> QED BY <1>1, <1>2, <1>3, <1>4, <1>5, <1>6, <1>7, <1>8, ZenonT(40) DEF BlockerNext, Request

(* One id more.                                                            *)
LEMMA OneMore ==
    ASSUME NEW S, IsFiniteSet(S), NEW n \in Nat, Cardinality(S) <= n, NEW x
    PROVE  IsFiniteSet(S \union {x}) /\ Cardinality(S \union {x}) <= n + 1
<1>1. IsFiniteSet(S \cup {x}) /\ Cardinality(S) \in Nat
      /\ Cardinality(S \cup {x}) = IF x \in S THEN Cardinality(S) ELSE Cardinality(S) + 1
  BY FS_AddElement, FS_CardinalityType
<1> QED BY <1>1

LEMMA IdsInvNext == ASSUME BlockerInv, IdsInv, [BlockerNext]_blockerVars PROVE IdsInv'
<1> USE BlockerAssumption DEF IdsInv
<1>0. \A x : IsFiniteSet({x}) /\ Cardinality({x}) <= MaxIds + 1 /\ Cardinality({x}) <= MaxIds + 2
  <2>1. \A x : IsFiniteSet({x}) /\ Cardinality({x}) = 1
    BY FS_Singleton, Zenon
  <2>2. 1 <= MaxIds + 1 /\ 1 <= MaxIds + 2
    OBVIOUS
  <2> QED BY <2>1, <2>2, Zenon
<1>00. IsFiniteSet({}) /\ Cardinality({}) <= MaxIds + 1 /\ Cardinality({}) <= MaxIds + 2
  BY FS_EmptySet
<1>1. ASSUME NEW id \in Id, FirstRequest(id) PROVE IdsInv'
  <2>1. entry' /\ ids' = {} /\ burstIds' = {id}
    BY <1>1 DEF FirstRequest, Passed, BlockerInv
  <2> QED BY <1>0, <1>00, <2>1, Zenon
<1>2. ASSUME NEW id \in Id, RefuseRequest(id) PROVE IdsInv'
  BY <1>2 DEF RefuseRequest
<1>3. ASSUME NEW id \in Id, AtIdLimit(id) PROVE IdsInv'
  <2>1. UNCHANGED <<entry, ids, idQuiet>> /\ entry /\ idQuiet <= Day
    BY <1>3 DEF AtIdLimit, Count, IdsExpired, BlockerInv
  <2>2. CASE id \in ids /\ Passed(id)
    <3>1. burstIds' = burstIds \union {id}
      BY <2>1, <2>2 DEF Passed, BlockerInv
    <3>2. PICK f : burstIds' \subseteq ids \union {f}
      BY <2>1, <2>2, <3>1
    <3>3. IsFiniteSet(burstIds') /\ Cardinality(burstIds') <= MaxIds + 2
      <4>1. IsFiniteSet(ids \union {f}) /\ Cardinality(ids \union {f}) <= (MaxIds + 1) + 1
        <5>1. MaxIds + 1 \in Nat
          OBVIOUS
        <5> QED BY <5>1, OneMore, Zenon
      <4> QED BY <3>2, <4>1, FS_Subset, FS_CardinalityType
    <3> QED BY <2>1, <3>2, <3>3
  <2>3. CASE UNCHANGED burstIds
    BY <2>1, <2>3
  <2> QED BY <1>3, <2>2, <2>3 DEF AtIdLimit
<1>4. ASSUME NEW id \in Id, LetThrough(id) PROVE IdsInv'
  <2>1. CASE idQuiet > Day
    <3>1. ids' = {id} \ ids /\ burstIds' = {id} /\ IdsExpired
      BY <1>4, <2>1 DEF LetThrough, Passed, IdsExpired, Noted, BlockerInv
    <3>2. ids' = {} \/ ids' = {id}
      BY <3>1
    <3> QED BY <1>0, <1>00, <3>1, <3>2, Zenon
  <2>2. CASE ~ (idQuiet > Day)
    <3>1. /\ ids' = ids \union {id} /\ burstIds' = burstIds \union {id}
          /\ entry /\ idQuiet <= Day /\ Cardinality(ids) <= MaxIds
      BY <1>4, <2>2 DEF LetThrough, Passed, IdsExpired, Noted, BlockerInv
    <3>2. PICK f : burstIds \subseteq ids \union {f}
      BY <3>1
    <3>3. burstIds' \subseteq ids' \union {f}
      BY <3>1, <3>2
    <3>4. IsFiniteSet(ids') /\ Cardinality(ids') <= MaxIds + 1
      BY <3>1, OneMore, Zenon
    <3>5. IsFiniteSet(burstIds') /\ Cardinality(burstIds') <= MaxIds + 2
      <4>1. IsFiniteSet(ids' \union {f}) /\ Cardinality(ids' \union {f}) <= (MaxIds + 1) + 1
        <5>1. MaxIds + 1 \in Nat
          OBVIOUS
        <5> QED BY <3>4, <5>1, OneMore, Zenon
      <4> QED BY <3>3, <4>1, FS_Subset, FS_CardinalityType
    <3> QED BY <3>3, <3>4, <3>5
  <2> QED BY <2>1, <2>2
<1>5. CASE Tick
  <2>1. UNCHANGED <<entry, ids, burstIds>> /\ (idQuiet' <= Day => idQuiet <= Day)
    BY <1>5 DEF Tick, Older, BlockerInv
  <2> QED BY <2>1
<1>6. CASE Retain \/ Remove
  BY <1>00, <1>6, ZenonT(40) DEF Retain, Remove
<1>7. CASE UNCHANGED blockerVars
  BY <1>7 DEF blockerVars
<1> QED BY <1>1, <1>2, <1>3, <1>4, <1>5, <1>6, <1>7, ZenonT(40) DEF BlockerNext, Request

LEMMA BlockerInvariant == BlockerSpec => [](BlockerInv /\ IdsInv)
<1>1. BlockerInit => BlockerInv /\ IdsInv
  <2> SUFFICES ASSUME BlockerInit PROVE BlockerInv /\ IdsInv
    OBVIOUS
  <2>1. BlockerInv
    <3>1. ~ entry /\ entry \in BOOLEAN /\ count = 0 /\ burst = 0 /\ quiet = Horizon /\ idQuiet = Horizon
      BY Zenon DEF BlockerInit
    <3> QED BY <3>1, BlockerAssumption DEF BlockerInv
  <2>2. ids = {} /\ burstIds = {} /\ ~ entry
    BY DEF BlockerInit
  <2> QED BY <2>1, <2>2, BlockerAssumption, FS_EmptySet DEF IdsInv
<1>2. BlockerInv /\ IdsInv /\ [BlockerNext]_blockerVars => BlockerInv' /\ IdsInv'
  BY BlockerInvNext, IdsInvNext
<1> QED BY <1>1, <1>2, PTL DEF BlockerSpec

(* An address is let through at most two times more than the limits say,   *)
(* without the pause that resets them, whatever the console removes.       *)
THEOREM LimitsHoldAlways == BlockerSpec => []LimitsHold
<1>1. BlockerInv /\ IdsInv => LimitsHold
  BY DEF BlockerInv, IdsInv, LimitsHold, BurstBounded, IdsBounded
<1> QED BY <1>1, BlockerInvariant, PTL

(* Being refused does not prolong a block.                                 *)
THEOREM BlockEndsHolds == BlockerSpec => BlockEnds
<1> DEFINE A == \A id \in Id : RefuseRequest(id) => quiet <= BlockDur
<1>1. BlockerInv /\ IdsInv /\ [BlockerNext]_blockerVars => [A]_blockerVars
  BY BlockerAssumption DEF BlockerInv, RefuseRequest, Expired
<1> QED BY <1>1, BlockerInvariant, PTL DEF BlockerSpec, BlockEnds

-----------------------------------------------------------------------------
(* A task that holds no Peer yet, one that holds one, and one of those     *)
(* that is in handle_register_pk.                                          *)
Early == {"idle", "map", "db", "insert", "or"}
Registering == {"check", "rate", "count", "memory", "table", "guid"}
Holding == Registering \union {"addr"}

Fields == {"uuid", "pk", "ip", "addr", "online", "guid", "reg", "recent"}
MsgFields == {"uuid", "pk", "ip", "ws"}
Rows == [uuid : Uuid, pk : Pk, ip : Ip]
IsMsg(m) == m = [f \in MsgFields |-> m[f]] /\ RowOf(m) \in Rows

TaskOK(w) ==
    /\ pc[w] \in Early => peer[w] = None
    /\ pc[w] \in Holding => peer[w] \in Ref /\ map # None
    /\ pc[w] \in Early => msg[w] = None \/ IsMsg(msg[w])
    /\ pc[w] \in Registering => IsMsg(msg[w])
    /\ pc[w] = "insert" => row[w] \in Rows

StoreOK ==
    /\ heap = [r \in Ref |-> heap[r]]
    /\ \A r \in Ref : heap[r] = [f \in Fields |-> heap[r][f]]
    /\ map \in Ref \union {None}
    /\ db \in Rows \union {None}

TypeInv ==
    /\ traffic \in Traffic
    /\ StoreOK
    /\ pc \in [Worker -> Early \union Holding]
    /\ peer \in [Worker -> Ref \union {None}]
    /\ msg = [w \in Worker |-> msg[w]]
    /\ row = [w \in Worker |-> row[w]]
    /\ guid = [w \in Worker |-> guid[w]]
    /\ \A w \in Worker : TaskOK(w)

(* An id with a row when hbbs started: every Peer, every row that was read *)
(* and every registration past the check has the uuid of the row.          *)
Owned ==
    /\ db # None
    /\ \A r \in Ref : Held(r) => heap[r].uuid = db.uuid
    /\ \A w \in Worker :
          /\ pc[w] # "or"
          /\ pc[w] = "insert" => row[w].uuid = db.uuid
          /\ pc[w] \in {"rate", "count", "memory"} => msg[w].uuid = db.uuid

OwnerInv == known => Owned

(* There is at most one Peer without a guid: while the id has no row it    *)
(* has no owner or a task is about to insert the row, and then a task is   *)
(* about to write its guid.                                                *)
Settling(r) ==
    \/ db = None /\ (heap[r].uuid = None \/ \E w \in Worker : pc[w] = "table" /\ peer[w] = r)
    \/ \E w \in Worker : pc[w] = "guid" /\ peer[w] = r

GuidInv ==
    /\ \A r \in Ref : Held(r) /\ heap[r].guid => db # None
    /\ \A r \in Ref : Held(r) /\ ~ heap[r].guid => Settling(r)
    /\ \A r, s \in Ref : Held(r) /\ Held(s) /\ ~ heap[r].guid /\ ~ heap[s].guid => r = s
    /\ \A w \in Worker :
          /\ pc[w] = "table" /\ guid[w] => db # None
          /\ pc[w] \in {"insert", "guid"} => db # None
          /\ pc[w] = "or" /\ map = None => db = None

-----------------------------------------------------------------------------
(* A step of w: it is at l then, with the Peer p, the message m, the row x *)
(* and the copy g.                                                         *)
Moves(w, l, p, m, x, g) ==
    /\ pc' = [pc EXCEPT ![w] = l]
    /\ peer' = [peer EXCEPT ![w] = p]
    /\ msg' = [msg EXCEPT ![w] = m]
    /\ row' = [row EXCEPT ![w] = x]
    /\ guid' = [guid EXCEPT ![w] = g]

Done(w) == Moves(w, "idle", None, None, None, FALSE)

LEMMA Unmoved ==
    ASSUME TypeInv, NEW w \in Worker
    PROVE  /\ peer = [peer EXCEPT ![w] = peer[w]]
           /\ msg = [msg EXCEPT ![w] = msg[w]]
           /\ row = [row EXCEPT ![w] = row[w]]
           /\ guid = [guid EXCEPT ![w] = guid[w]]
<1>1. peer = [peer EXCEPT ![w] = peer[w]]
  BY DEF TypeInv
<1>2. msg = [msg EXCEPT ![w] = msg[w]]
  BY DEF TypeInv
<1>3. row = [row EXCEPT ![w] = row[w]]
  BY DEF TypeInv
<1>4. guid = [guid EXCEPT ![w] = guid[w]]
  BY DEF TypeInv
<1> QED BY <1>1, <1>2, <1>3, <1>4

LEMMA FinishMoves == ASSUME NEW w, Finish(w) PROVE Done(w)
  BY DEF Finish, Done, Moves, Goto

LEMMA GotMoves ==
    ASSUME TypeInv, NEW w \in Worker, NEW p, Got(w, p)
    PROVE  Done(w) \/ (msg[w] # None /\ Moves(w, "check", p, msg[w], None, guid[w]))
  BY FinishMoves, Unmoved DEF Got, Moves, Goto

(* What is written of the Peers: p has the uuid u and the guid g then.     *)
Writes(p, u, g) ==
    /\ heap' = [r \in Ref |-> heap'[r]]
    /\ \A r \in Ref :
          /\ heap'[r] = [f \in Fields |-> heap'[r][f]]
          /\ heap'[r].uuid = IF r = p THEN u ELSE heap[r].uuid
          /\ heap'[r].guid = IF r = p THEN g ELSE heap[r].guid

(* ... or nothing that the table has, and no guid.                         *)
WritesElse ==
    /\ heap' = [r \in Ref |-> heap'[r]]
    /\ \A r \in Ref :
          /\ heap'[r] = [f \in Fields |-> heap'[r][f]]
          /\ heap'[r].uuid = heap[r].uuid
          /\ heap'[r].guid = heap[r].guid
          /\ heap'[r].pk = heap[r].pk /\ heap'[r].ip = heap[r].ip

LEMMA UnchangedWrites == ASSUME StoreOK, UNCHANGED heap PROVE WritesElse
  BY DEF StoreOK, WritesElse

LEMMA PeerWrites ==
    ASSUME StoreOK, NEW p, NEW d, heap' = [heap EXCEPT ![p] = d], d = [f \in Fields |-> d[f]]
    PROVE  Writes(p, d.uuid, d.guid)
<1>1. \A r \in Ref : heap'[r] = IF r = p THEN d ELSE heap[r]
  BY Zenon DEF StoreOK
<1>2. heap' = [r \in Ref |-> heap'[r]]
  BY Zenon DEF StoreOK
<1>3. ASSUME NEW r \in Ref PROVE heap'[r] = [f \in Fields |-> heap'[r][f]]
  BY <1>1, Zenon DEF StoreOK
<1>4. ASSUME NEW r \in Ref
      PROVE  /\ heap'[r].uuid = IF r = p THEN d.uuid ELSE heap[r].uuid
             /\ heap'[r].guid = IF r = p THEN d.guid ELSE heap[r].guid
  BY <1>1
<1> QED BY <1>2, <1>3, <1>4, ZenonT(40) DEF Writes

-----------------------------------------------------------------------------
(* The store after a step of w, and what w has then, fit each other.       *)
LEMMA TypeStep ==
    ASSUME TypeInv, NEW w \in Worker, NEW l \in Early \union Holding,
           NEW p, NEW m, NEW x, NEW g, Moves(w, l, p, m, x, g),
           StoreOK', UNCHANGED traffic, map # None => map' # None,
           l \in Early => p = None /\ (m = None \/ IsMsg(m)),
           l \in Holding => p \in Ref /\ map' # None,
           l \in Registering => IsMsg(m),
           l = "insert" => x \in Rows
    PROVE  TypeInv'
<1>1. p \in Ref \union {None}
  OBVIOUS
<1>2. /\ pc' \in [Worker -> Early \union Holding]
      /\ peer' \in [Worker -> Ref \union {None}]
  BY <1>1 DEF TypeInv, Moves
<1>3. msg' = [v \in Worker |-> msg'[v]] /\ row' = [v \in Worker |-> row'[v]] /\ guid' = [v \in Worker |-> guid'[v]]
  BY Zenon DEF TypeInv, Moves
<1>4. /\ pc'[w] = l /\ peer'[w] = p /\ msg'[w] = m /\ row'[w] = x
      /\ \A v \in Worker : v # w => /\ pc'[v] = pc[v] /\ peer'[v] = peer[v]
                                     /\ msg'[v] = msg[v] /\ row'[v] = row[v]
  BY DEF TypeInv, Moves
<1>5. TaskOK(w)'
  BY <1>4 DEF TaskOK, IsMsg, RowOf
<1>6. ASSUME NEW v \in Worker, v # w PROVE TaskOK(v)'
  BY <1>4, <1>6, ZenonT(40) DEF TypeInv, TaskOK, IsMsg, RowOf
<1> QED BY <1>2, <1>3, <1>5, <1>6, ZenonT(40) DEF TypeInv

(* Who holds what after it.                                                *)
LEMMA HeldStep ==
    ASSUME TypeInv, NEW w \in Worker, NEW l, NEW p, NEW m, NEW x, NEW g, Moves(w, l, p, m, x, g),
           NEW r \in Ref, Held(r)'
    PROVE  r = map' \/ r = p \/ \E v \in Worker : v # w /\ peer[v] = r
  BY DEF TypeInv, Moves, Held

(***************************************************************************)
(* A step that changes neither the map, the table nor who owns a Peer, and *)
(* is not one of the last of a registration.                               *)
(***************************************************************************)
Quiet(w, l, p, m, x, g) ==
    /\ Moves(w, l, p, m, x, g)
    /\ WritesElse /\ UNCHANGED <<map, db>>
    /\ pc[w] \notin {"table", "guid"} /\ l \in (Early \union Holding) \ {"table", "guid"}
    /\ p \in {None, peer[w], map}
    /\ l \in Early => p = None /\ (m = None \/ IsMsg(m))
    /\ l \in Holding => p \in Ref /\ map # None
    /\ l \in Registering => IsMsg(m)
    /\ l = "insert" => x \in Rows /\ x = db
    /\ l = "or" => db = None
    /\ l \in {"db", "insert", "or"} => map = None \/ pc[w] = "db"
    /\ l = "rate" => ~ Refused(heap[peer[w]], m) /\ peer[w] \in Ref
    /\ l \in {"count", "memory"} => m = msg[w] /\ pc[w] \in {"rate", "count"}

LEMMA QuietType ==
    ASSUME TypeInv, NEW w \in Worker, NEW l, NEW p, NEW m, NEW x, NEW g, Quiet(w, l, p, m, x, g),
           UNCHANGED traffic
    PROVE  TypeInv'
<1>1. StoreOK'
  BY DEF TypeInv, StoreOK, Quiet, WritesElse
<1> QED BY <1>1, TypeStep DEF Quiet

LEMMA QuietHeld ==
    ASSUME TypeInv, NEW w \in Worker, NEW l, NEW p, NEW m, NEW x, NEW g, Quiet(w, l, p, m, x, g),
           NEW r \in Ref, Held(r)'
    PROVE  Held(r)
<1>1. r = map' \/ r = p \/ \E v \in Worker : v # w /\ peer[v] = r
  BY HeldStep DEF Quiet
<1>2. r # None
  BY RegistryAssumption
<1> QED BY <1>1, <1>2, ZenonT(40) DEF Quiet, Held

LEMMA Tasks ==
    ASSUME TypeInv, NEW w \in Worker, NEW l, NEW p, NEW m, NEW x, NEW g, Moves(w, l, p, m, x, g)
    PROVE  /\ pc'[w] = l /\ peer'[w] = p /\ msg'[w] = m /\ row'[w] = x /\ guid'[w] = g
           /\ \A v \in Worker : v # w => /\ pc'[v] = pc[v] /\ peer'[v] = peer[v]
                                          /\ msg'[v] = msg[v] /\ row'[v] = row[v]
                                          /\ guid'[v] = guid[v]
<1>1. /\ pc'[w] = l /\ peer'[w] = p /\ msg'[w] = m /\ row'[w] = x
      /\ \A v \in Worker : v # w => /\ pc'[v] = pc[v] /\ peer'[v] = peer[v]
                                     /\ msg'[v] = msg[v] /\ row'[v] = row[v]
  BY DEF TypeInv, Moves
<1>2. guid'[w] = g /\ \A v \in Worker : v # w => guid'[v] = guid[v]
  BY Zenon DEF TypeInv, Moves
<1> QED BY <1>1, <1>2, ZenonT(40)

LEMMA UuidIsNone == ASSUME NEW d \in Rows PROVE d # None /\ d.uuid # None
  BY RegistryAssumption DEF Rows

(* An id with an owner keeps it.                                           *)
LEMMA QuietOwner ==
    ASSUME TypeInv, Owned, NEW w \in Worker, NEW l, NEW p, NEW m, NEW x, NEW g,
           Quiet(w, l, p, m, x, g)
    PROVE  Owned'
<1>1. db # None /\ db' = db /\ db \in Rows
  BY Zenon DEF Owned, Quiet, TypeInv, StoreOK
<1>2. ASSUME NEW r \in Ref, Held(r)' PROVE heap'[r].uuid = db'.uuid
  BY <1>1, <1>2, QuietHeld, ZenonT(40) DEF Owned, Quiet, WritesElse
<1>3. ASSUME NEW v \in Worker
      PROVE  /\ pc'[v] # "or"
             /\ pc'[v] = "insert" => row'[v].uuid = db'.uuid
             /\ pc'[v] \in {"rate", "count", "memory"} => msg'[v].uuid = db'.uuid
  <2>1. CASE v # w
    <3>1. pc'[v] = pc[v] /\ row'[v] = row[v] /\ msg'[v] = msg[v]
      BY <2>1, Tasks DEF Quiet
    <3> QED BY <1>1, <3>1, ZenonT(40) DEF Owned
  <2>2. CASE v = w
    <3>1. pc'[v] = l /\ row'[v] = x /\ msg'[v] = m
      BY <2>2, Tasks DEF Quiet
    <3>2. l # "or" /\ (l = "insert" => x.uuid = db.uuid)
      BY <1>1 DEF Quiet
    <3>3. l \in {"count", "memory"} => m.uuid = db.uuid
      BY DEF Owned, Quiet
    <3>4. l = "rate" => m.uuid = db.uuid
      <4>1. peer[w] \in Ref => Held(peer[w])
        BY DEF Held
      <4>2. db.uuid # None
        BY <1>1, UuidIsNone, Zenon
      <4> QED BY <4>1, <4>2 DEF Owned, Quiet, Refused
    <3> QED BY <1>1, <3>1, <3>2, <3>3, <3>4, ZenonT(40)
  <2> QED BY <2>1, <2>2, ZenonT(40)
<1> QED BY <1>1, <1>2, <1>3 DEF Owned

(* A Peer without a guid goes on waiting for it.                           *)
LEMMA QuietGuid ==
    ASSUME TypeInv, GuidInv, NEW w \in Worker, NEW l, NEW p, NEW m, NEW x, NEW g,
           Quiet(w, l, p, m, x, g)
    PROVE  GuidInv'
<1>1. \A r \in Ref : Held(r)' => Held(r)
  BY QuietHeld
<1>2. \A r \in Ref : heap'[r].guid = heap[r].guid /\ heap'[r].uuid = heap[r].uuid
  BY Zenon DEF Quiet, WritesElse
<1>3. UNCHANGED <<map, db>> /\ pc[w] \notin {"table", "guid"} /\ l \notin {"table", "guid"}
  BY Zenon DEF Quiet
<1>4. \A v \in Worker :
         /\ pc[v] \in {"table", "guid"} => v # w /\ pc'[v] = pc[v] /\ peer'[v] = peer[v]
         /\ pc'[v] \in {"table", "guid"} => v # w /\ pc[v] = pc'[v] /\ guid'[v] = guid[v]
  <2> SUFFICES ASSUME NEW v \in Worker
               PROVE  /\ pc[v] \in {"table", "guid"} => v # w /\ pc'[v] = pc[v] /\ peer'[v] = peer[v]
                      /\ pc'[v] \in {"table", "guid"} => v # w /\ pc[v] = pc'[v] /\ guid'[v] = guid[v]
    OBVIOUS
  <2>1. v # w => pc'[v] = pc[v] /\ peer'[v] = peer[v] /\ guid'[v] = guid[v]
    BY Tasks DEF Quiet
  <2>2. v = w => pc[v] \notin {"table", "guid"} /\ pc'[v] \notin {"table", "guid"}
    BY <1>3, Tasks DEF Quiet
  <2> QED BY <2>1, <2>2, ZenonT(40)
<1>5. ASSUME NEW r \in Ref, Held(r)', heap'[r].guid PROVE db' # None
  <2>1. Held(r) /\ heap[r].guid
    BY <1>1, <1>2, <1>5, ZenonT(40)
  <2> QED BY <1>3, <2>1 DEF GuidInv
<1>6. ASSUME NEW r \in Ref, Held(r)', ~ heap'[r].guid PROVE Settling(r)'
  <2>1. Held(r) /\ ~ heap[r].guid
    BY <1>1, <1>2, <1>6, ZenonT(40)
  <2>2. Settling(r)
    BY <2>1 DEF GuidInv
  <2> QED BY <1>2, <1>3, <1>4, <2>2, ZenonT(40) DEF Settling
<1>7. ASSUME NEW r \in Ref, NEW s \in Ref, Held(r)', Held(s)', ~ heap'[r].guid, ~ heap'[s].guid
      PROVE  r = s
  <2>1. Held(r) /\ ~ heap[r].guid /\ Held(s) /\ ~ heap[s].guid
    BY <1>1, <1>2, <1>7, ZenonT(40)
  <2> QED BY <2>1 DEF GuidInv
<1>8. ASSUME NEW v \in Worker
      PROVE  /\ pc'[v] = "table" /\ guid'[v] => db' # None
             /\ pc'[v] \in {"insert", "guid"} => db' # None
             /\ pc'[v] = "or" /\ map' = None => db' = None
  <2>1. pc'[v] = "table" /\ guid'[v] => db' # None
    <3>1. pc'[v] = "table" => pc[v] = "table" /\ guid'[v] = guid[v]
      BY <1>4
    <3> QED BY <1>3, <3>1, ZenonT(40) DEF GuidInv
  <2>2. pc'[v] = "guid" => db' # None
    BY <1>3, <1>4, ZenonT(40) DEF GuidInv
  <2>3. CASE v = w
    <3>1. l = "insert" => db # None
      BY UuidIsNone DEF Quiet
    <3>2. l = "or" => db = None
      BY Zenon DEF Quiet
    <3>3. pc'[v] = l
      BY <2>3, Tasks DEF Quiet
    <3> QED BY <1>3, <2>1, <2>2, <3>1, <3>2, <3>3, ZenonT(40)
  <2>4. CASE v # w
    <3>1. pc'[v] = pc[v]
      BY <2>4, Tasks DEF Quiet
    <3> QED BY <1>3, <2>1, <2>2, <3>1, ZenonT(40) DEF GuidInv
  <2> QED BY <2>3, <2>4
<1> QED BY <1>5, <1>6, <1>7, <1>8, ZenonT(40) DEF GuidInv

-----------------------------------------------------------------------------
(* The steps that are quiet.                                               *)
SomeQuiet(w) == \E l, p, m, x, g : Quiet(w, l, p, m, x, g)

(* A task is done early, or PeerMap::get or get_or found a Peer.           *)
LEMMA QuietDone ==
    ASSUME NEW w \in Worker, Done(w), WritesElse, UNCHANGED <<map, db>>,
           pc[w] \notin {"table", "guid"}
    PROVE  SomeQuiet(w)
<1>1. Quiet(w, "idle", None, None, None, FALSE)
  BY Zenon DEF Quiet, Done, Early, Holding, Registering
<1> QED BY <1>1, Zenon DEF SomeQuiet

LEMMA QuietGot ==
    ASSUME TypeInv, NEW w \in Worker, map # None, Got(w, map), WritesElse, UNCHANGED <<map, db>>,
           pc[w] \in Early
    PROVE  SomeQuiet(w)
<1>1. pc[w] \notin {"table", "guid"}
  BY DEF Early
<1>2. CASE Done(w)
  BY <1>1, <1>2, QuietDone
<1>3. CASE msg[w] # None /\ Moves(w, "check", map, msg[w], None, guid[w])
  <2>1. IsMsg(msg[w]) /\ map \in Ref
    BY <1>3, Zenon DEF TypeInv, StoreOK, TaskOK
  <2>2. Quiet(w, "check", map, msg[w], None, guid[w])
    BY <1>1, <1>3, <2>1 DEF Quiet, Early, Holding, Registering
  <2> QED BY <2>2 DEF SomeQuiet
<1> QED BY <1>2, <1>3, GotMoves

LEMMA QuietReceive == ASSUME TypeInv, NEW w \in Worker, Receive(w) PROVE SomeQuiet(w)
<1>0. traffic.pks \subseteq [uuid : Uuid, pk : Pk, ip : Ip, ws : BOOLEAN]
  BY RegistryAssumption DEF TypeInv
<1>1. ASSUME UNCHANGED <<heap, map, db>>, pc[w] = "idle", NEW m,
             Moves(w, "map", peer[w], m, row[w], guid[w]), m = None \/ IsMsg(m)
      PROVE  SomeQuiet(w)
  <2>1. peer[w] = None
    BY <1>1 DEF TypeInv, TaskOK, Early
  <2>2. WritesElse
    BY <1>1, UnchangedWrites, Zenon DEF TypeInv
  <2>3. Quiet(w, "map", peer[w], m, row[w], guid[w])
    BY <1>1, <2>1, <2>2, ZenonT(40) DEF Quiet, Early, Holding, Registering
  <2> QED BY <2>3 DEF SomeQuiet
<1>2. CASE Lookup(w)
  <2>1. pc[w] = "idle" /\ Moves(w, "map", peer[w], msg[w], row[w], guid[w])
    BY <1>2, Unmoved DEF Lookup, Moves, Goto, locals
  <2>2. msg[w] = None \/ IsMsg(msg[w])
    BY <2>1 DEF TypeInv, TaskOK, Early
  <2> QED BY <1>1, <1>2, <2>1, <2>2, ZenonT(40) DEF Lookup
<1>3. ASSUME NEW m \in traffic.pks, RecvRegisterPk(w, m) PROVE SomeQuiet(w)
  <2>1. pc[w] = "idle" /\ Moves(w, "map", peer[w], m, row[w], guid[w])
    BY <1>3, Unmoved DEF RecvRegisterPk, Moves, Goto
  <2>2. m \in [uuid : Uuid, pk : Pk, ip : Ip, ws : BOOLEAN]
    BY <1>0
  <2>3. m = [f \in MsgFields |-> m[f]]
    BY <2>2, ZenonT(40) DEF MsgFields
  <2>4. RowOf(m) \in Rows
    BY <2>2 DEF RowOf, Rows
  <2> QED BY <1>1, <1>3, <2>1, <2>3, <2>4, ZenonT(40) DEF RecvRegisterPk, IsMsg
<1>4. ASSUME NEW i \in traffic.ips, RecvRegisterPeer(w, i) PROVE SomeQuiet(w)
  <2>1. /\ UNCHANGED <<heap, map, db>> /\ pc[w] = "idle" /\ map # None
        /\ Moves(w, "addr", map, i, row[w], guid[w])
    BY <1>4, Unmoved DEF RecvRegisterPeer, Moves, Goto
  <2>2. WritesElse /\ map \in Ref
    BY <2>1, UnchangedWrites, ZenonT(40) DEF TypeInv, StoreOK
  <2>3. Quiet(w, "addr", map, i, row[w], guid[w])
    BY <2>1, <2>2 DEF Quiet, Early, Holding, Registering
  <2> QED BY <2>3 DEF SomeQuiet
<1> QED BY <1>2, <1>3, <1>4 DEF Receive

LEMMA QuietMapRead == ASSUME TypeInv, NEW w \in Worker, MapRead(w) PROVE SomeQuiet(w)
<1>1. UNCHANGED <<heap, map, db>> /\ WritesElse /\ pc[w] = "map" /\ pc[w] \in Early
  BY UnchangedWrites DEF MapRead, TypeInv, Early
<1>2. CASE map # None /\ Got(w, map)
  BY <1>1, <1>2, QuietGot, ZenonT(40)
<1>3. CASE map = None /\ Goto(w, "db") /\ UNCHANGED locals
  <2>1. Moves(w, "db", peer[w], msg[w], row[w], guid[w])
    BY <1>3, Unmoved DEF Moves, Goto, locals
  <2>2. peer[w] = None /\ (msg[w] = None \/ IsMsg(msg[w]))
    BY <1>1, Zenon DEF TypeInv, TaskOK
  <2>3. Quiet(w, "db", peer[w], msg[w], row[w], guid[w])
    BY <1>1, <1>3, <2>1, <2>2, ZenonT(40) DEF Quiet, Early, Holding, Registering
  <2> QED BY <2>3 DEF SomeQuiet
<1> QED BY <1>2, <1>3 DEF MapRead

LEMMA QuietDbRead == ASSUME TypeInv, ~ DbFaults, NEW w \in Worker, DbRead(w) PROVE SomeQuiet(w)
<1>1. UNCHANGED <<heap, map, db>> /\ WritesElse /\ pc[w] = "db" /\ pc[w] \in Early
  BY UnchangedWrites DEF DbRead, TypeInv, Early
<1>2. peer[w] = None /\ (msg[w] = None \/ IsMsg(msg[w]))
  BY <1>1 DEF TypeInv, TaskOK
<1>3. CASE db # None /\ row' = [row EXCEPT ![w] = db] /\ Goto(w, "insert") /\ UNCHANGED <<msg, peer, cnt, guid>>
  <2>1. Moves(w, "insert", peer[w], msg[w], db, guid[w])
    BY <1>3, Unmoved DEF Moves, Goto
  <2>2. db \in Rows
    BY <1>3, Zenon DEF TypeInv, StoreOK
  <2>3. Quiet(w, "insert", peer[w], msg[w], db, guid[w])
    BY <1>1, <1>2, <2>1, <2>2, ZenonT(40) DEF Quiet, Early, Holding, Registering
  <2> QED BY <2>3, Zenon DEF SomeQuiet
<1>4. CASE Finish(w)
  BY <1>1, <1>4, FinishMoves, QuietDone
<1>5. CASE db = None /\ Goto(w, "or") /\ UNCHANGED locals
  <2>1. Moves(w, "or", peer[w], msg[w], row[w], guid[w])
    BY <1>5, Unmoved, Zenon DEF Moves, Goto, locals
  <2>2. Quiet(w, "or", peer[w], msg[w], row[w], guid[w])
    BY <1>1, <1>2, <1>5, <2>1, ZenonT(40) DEF Quiet, Early, Holding, Registering
  <2> QED BY <2>2 DEF SomeQuiet
<1> QED BY <1>3, <1>4, <1>5 DEF DbRead

(* A task that holds a Peer.                                               *)
LEMMA HoldsOne ==
    ASSUME TypeInv, NEW w \in Worker, pc[w] \in Holding
    PROVE  /\ peer[w] \in Ref /\ map # None /\ Held(peer[w])
           /\ pc[w] \in Registering => IsMsg(msg[w])
           /\ heap[peer[w]] = [f \in Fields |-> heap[peer[w]][f]]
<1>1. peer[w] \in Ref /\ map # None /\ (pc[w] \in Registering => IsMsg(msg[w]))
  BY DEF TypeInv, TaskOK
<1>2. heap[peer[w]] = [f \in Fields |-> heap[peer[w]][f]]
  BY <1>1 DEF TypeInv, StoreOK
<1> QED BY <1>1, <1>2 DEF Held

(* Fields of a Peer that the table does not have are written.              *)
LEMMA OtherFields ==
    ASSUME StoreOK, NEW p \in Ref, NEW d, heap' = [heap EXCEPT ![p] = d],
           d = [f \in Fields |-> d[f]], d.uuid = heap[p].uuid, d.guid = heap[p].guid,
           d.pk = heap[p].pk, d.ip = heap[p].ip
    PROVE  WritesElse
<1>1. Writes(p, d.uuid, d.guid)
  BY PeerWrites
<1>2. \A r \in Ref : heap'[r] = IF r = p THEN d ELSE heap[r]
  BY Zenon DEF StoreOK
<1>3. \A r \in Ref : heap'[r].pk = heap[r].pk /\ heap'[r].ip = heap[r].ip
  BY <1>2, ZenonT(40)
<1> QED BY <1>1, <1>3, ZenonT(40) DEF Writes, WritesElse

LEMMA QuietCheck == ASSUME TypeInv, NEW w \in Worker, Check(w) PROVE SomeQuiet(w)
<1>1. UNCHANGED <<heap, map, db>> /\ WritesElse /\ pc[w] = "check"
  BY UnchangedWrites DEF Check, TypeInv
<1>2. peer[w] \in Ref /\ map # None /\ IsMsg(msg[w])
  BY <1>1, HoldsOne, ZenonT(40) DEF Holding, Registering
<1>3. CASE Finish(w)
  BY <1>1, <1>3, FinishMoves, QuietDone
<1>4. CASE /\ ~ Refused(heap[peer[w]], msg[w])
           /\ msg' = [msg EXCEPT ![w].ws = @ \/ Changed(heap[peer[w]], msg[w])]
           /\ Goto(w, "rate")
           /\ UNCHANGED <<peer, row, cnt, guid>>
  <2> DEFINE b == msg[w].ws \/ Changed(heap[peer[w]], msg[w])
             m == [msg[w] EXCEPT !.ws = b]
  <2>1. msg' = [msg EXCEPT ![w] = m]
    BY <1>4, Zenon
  <2> HIDE DEF b
  <2>2. m = [f \in MsgFields |-> m[f]]
    BY <1>2, Zenon DEF IsMsg
  <2>3. m.uuid = msg[w].uuid /\ m.pk = msg[w].pk /\ m.ip = msg[w].ip
    BY <1>2, Zenon DEF IsMsg, MsgFields
  <2> HIDE DEF m
  <2>4. RowOf(m) = RowOf(msg[w])
    BY <2>3 DEF RowOf
  <2>5. IsMsg(m) /\ ~ Refused(heap[peer[w]], m)
    BY <1>2, <1>4, <2>2, <2>3, <2>4, ZenonT(40) DEF IsMsg, Refused
  <2>6. Moves(w, "rate", peer[w], m, row[w], guid[w])
    BY <1>4, <2>1, Unmoved, ZenonT(40) DEF Moves, Goto
  <2>7. Quiet(w, "rate", peer[w], m, row[w], guid[w])
    BY <1>1, <1>2, <2>5, <2>6, ZenonT(40) DEF Quiet, Early, Holding, Registering
  <2> QED BY <2>7 DEF SomeQuiet
<1> QED BY <1>3, <1>4 DEF Check

LEMMA QuietRateRead == ASSUME TypeInv, NEW w \in Worker, RateRead(w) PROVE SomeQuiet(w)
<1>1. UNCHANGED <<heap, map, db>> /\ WritesElse /\ pc[w] = "rate"
  BY UnchangedWrites DEF RateRead, TypeInv
<1>2. peer[w] \in Ref /\ map # None /\ IsMsg(msg[w])
  BY <1>1, HoldsOne, ZenonT(40) DEF Holding, Registering
<1>3. CASE Finish(w)
  BY <1>1, <1>3, FinishMoves, QuietDone, ZenonT(40)
<1>4. CASE Goto(w, "count") /\ UNCHANGED <<msg, peer, row, guid>>
  <2>1. Moves(w, "count", peer[w], msg[w], row[w], guid[w])
    BY <1>4, Unmoved, ZenonT(40) DEF Moves, Goto
  <2>2. Quiet(w, "count", peer[w], msg[w], row[w], guid[w])
    BY <1>1, <1>2, <2>1, ZenonT(40) DEF Quiet, Early, Holding, Registering
  <2> QED BY <2>2 DEF SomeQuiet
<1> QED BY <1>3, <1>4, ZenonT(40) DEF RateRead

LEMMA QuietRateWrite == ASSUME TypeInv, NEW w \in Worker, RateWrite(w) PROVE SomeQuiet(w)
<1>1. UNCHANGED <<map, db>> /\ pc[w] = "count" /\ pc[w] \in Holding /\ pc[w] \in Registering
  BY ZenonT(40) DEF RateWrite, Holding, Registering
<1>2. /\ peer[w] \in Ref /\ map # None /\ IsMsg(msg[w])
      /\ heap[peer[w]] = [f \in Fields |-> heap[peer[w]][f]]
  BY <1>1, HoldsOne
<1>3. WritesElse
  <2> DEFINE n == cnt[w] + 1
             d == [heap[peer[w]] EXCEPT !.reg = n, !.recent = TRUE]
  <2>1. heap' = [heap EXCEPT ![peer[w]] = d]
    BY <1>2, Zenon DEF RateWrite, TypeInv, StoreOK
  <2> HIDE DEF n
  <2>2. /\ d = [f \in Fields |-> d[f]] /\ d.uuid = heap[peer[w]].uuid /\ d.guid = heap[peer[w]].guid
        /\ d.pk = heap[peer[w]].pk /\ d.ip = heap[peer[w]].ip
    BY <1>2, ZenonT(40) DEF Fields
  <2> HIDE DEF d
  <2> QED BY <1>2, <2>1, <2>2, OtherFields, ZenonT(40) DEF TypeInv
<1>4. CASE Finish(w)
  BY <1>1, <1>3, <1>4, FinishMoves, QuietDone, ZenonT(40)
<1>5. CASE Goto(w, "memory") /\ UNCHANGED <<msg, peer, row, guid>>
  <2>1. Moves(w, "memory", peer[w], msg[w], row[w], guid[w])
    BY <1>5, Unmoved, ZenonT(40) DEF Moves, Goto
  <2>2. Quiet(w, "memory", peer[w], msg[w], row[w], guid[w])
    BY <1>1, <1>2, <1>3, <2>1, ZenonT(40) DEF Quiet, Early, Holding, Registering
  <2> QED BY <2>2 DEF SomeQuiet
<1> QED BY <1>4, <1>5 DEF RateWrite

LEMMA QuietUpdateAddr == ASSUME TypeInv, NEW w \in Worker, UpdateAddr(w) PROVE SomeQuiet(w)
<1>1. UNCHANGED <<map, db>> /\ pc[w] = "addr" /\ pc[w] \in Holding /\ Finish(w)
  BY ZenonT(40) DEF UpdateAddr, Holding
<1>2. peer[w] \in Ref /\ heap[peer[w]] = [f \in Fields |-> heap[peer[w]][f]]
  BY <1>1, HoldsOne
<1>3. CASE UNCHANGED heap
  BY <1>1, <1>3, UnchangedWrites, FinishMoves, QuietDone, ZenonT(40) DEF TypeInv
<1>4. CASE heap' = [heap EXCEPT ![peer[w]].addr = msg[w], ![peer[w]].online = TRUE]
  <2> DEFINE d == [heap[peer[w]] EXCEPT !.addr = msg[w], !.online = TRUE]
  <2>1. heap' = [heap EXCEPT ![peer[w]] = d]
    BY <1>2, <1>4, ZenonT(40) DEF TypeInv, StoreOK
  <2>2. /\ d = [f \in Fields |-> d[f]] /\ d.uuid = heap[peer[w]].uuid /\ d.guid = heap[peer[w]].guid
        /\ d.pk = heap[peer[w]].pk /\ d.ip = heap[peer[w]].ip
    BY <1>2, Zenon DEF Fields
  <2> HIDE DEF d
  <2>3. WritesElse
    BY <1>2, <2>1, <2>2, OtherFields, ZenonT(40) DEF TypeInv
  <2> QED BY <1>1, <2>3, FinishMoves, QuietDone, ZenonT(40)
<1> QED BY <1>3, <1>4, ZenonT(40) DEF UpdateAddr

-----------------------------------------------------------------------------
(* There is a reference for a new Peer: every task holds at most one and   *)
(* the one that allocates holds none.                                      *)
LEMMA FreeIsFree ==
    ASSUME TypeInv, NEW v \in Worker, peer[v] = None
    PROVE  Free \in Ref /\ ~ Held(Free)
<1>1. \E r \in Ref : ~ Held(r)
  <2> SUFFICES ASSUME \A r \in Ref : Held(r) PROVE FALSE
    OBVIOUS
  <2> DEFINE user(r) == CHOOSE u \in Worker : peer[u] = r
             f == [r \in Ref |-> IF r = map THEN v ELSE user(r)]
  <2>1. \A r \in Ref : r # map => user(r) \in Worker /\ peer[user(r)] = r
    BY DEF Held
  <2> HIDE DEF user
  <2>2. f \in [Ref -> Worker]
    BY <2>1
  <2>3. \A r \in Ref : f[r] = IF r = map THEN v ELSE user(r)
    OBVIOUS
  <2> HIDE DEF f
  <2>4. Cardinality(Worker) < Cardinality(Ref)
    <3>1. Cardinality(Worker) \in Nat /\ Cardinality(Ref) \in Nat
      BY RegistryAssumption, FS_CardinalityType, Zenon
    <3> QED BY <3>1, RegistryAssumption, ZenonT(40)
  <2>5. PICK x \in Ref, y \in Ref : x # y /\ f[x] = f[y]
    BY <2>2, <2>4, FS_PigeonHole, RegistryAssumption, ZenonT(40)
  <2>6. None \notin Ref
    BY RegistryAssumption, Zenon
  <2> QED BY <2>1, <2>3, <2>5, <2>6, ZenonT(40)
<1> QED BY <1>1 DEF Free

(* A Peer for a row or for an unknown id is put in the map.                *)
LEMMA NewPeer ==
    ASSUME TypeInv, NEW w \in Worker, pc[w] \in {"insert", "or"}, NEW d, d = [f \in Fields |-> d[f]],
           heap' = [heap EXCEPT ![Free] = d], map' = Free, Got(w, Free), UNCHANGED <<db, traffic>>
    PROVE  /\ TypeInv'
           /\ Free \in Ref /\ Writes(Free, d.uuid, d.guid)
           /\ \A r \in Ref : Held(r)' => r = Free \/ (Held(r) /\ \E v \in Worker : v # w /\ peer[v] = r)
           /\ pc'[w] \in {"idle", "check"}
           /\ \A v \in Worker : v # w => /\ pc'[v] = pc[v] /\ peer'[v] = peer[v]
                                          /\ msg'[v] = msg[v] /\ row'[v] = row[v]
                                          /\ guid'[v] = guid[v]
<1>1. peer[w] = None /\ (msg[w] = None \/ IsMsg(msg[w]))
  BY DEF TypeInv, TaskOK, Early
<1>2. Free \in Ref /\ Free # None /\ ~ Held(Free)
  BY <1>1, FreeIsFree, RegistryAssumption, ZenonT(40)
<1>3. Writes(Free, d.uuid, d.guid)
  BY PeerWrites, Zenon DEF TypeInv
<1>4. StoreOK'
  BY <1>2, <1>3, ZenonT(40) DEF TypeInv, StoreOK, Writes
<1>5. CASE Done(w)
  <2>1. TypeInv'
    BY <1>2, <1>4, <1>5, TypeStep, ZenonT(40) DEF Done, Early, Holding, Registering
  <2>2. \A r \in Ref : Held(r)' => r = Free \/ (Held(r) /\ \E v \in Worker : v # w /\ peer[v] = r)
    <3>1. \A r \in Ref : Held(r)' => r = map' \/ r = None \/ \E v \in Worker : v # w /\ peer[v] = r
      <4>1. PICK g : Moves(w, "idle", None, None, None, g)
        BY <1>5, ZenonT(40) DEF Done
      <4> QED BY <4>1, HeldStep
    <3> QED BY <3>1, RegistryAssumption, ZenonT(40) DEF Held
  <2>3. Moves(w, "idle", None, None, None, FALSE)
    BY <1>5, ZenonT(40) DEF Done
  <2>4. /\ pc'[w] = "idle"
        /\ \A v \in Worker : v # w => /\ pc'[v] = pc[v] /\ peer'[v] = peer[v]
                                       /\ msg'[v] = msg[v] /\ row'[v] = row[v]
                                       /\ guid'[v] = guid[v]
    BY <2>3, Tasks, ZenonT(40)
  <2> QED BY <1>2, <1>3, <2>1, <2>2, <2>4, ZenonT(40)
<1>6. CASE msg[w] # None /\ Moves(w, "check", Free, msg[w], None, guid[w])
  <2>1. TypeInv'
    BY <1>1, <1>2, <1>4, <1>6, TypeStep, SMTT(30) DEF Early, Holding, Registering
  <2>2. \A r \in Ref : Held(r)' => r = Free \/ (Held(r) /\ \E v \in Worker : v # w /\ peer[v] = r)
    <3>1. \A r \in Ref : Held(r)' => r = map' \/ r = Free \/ \E v \in Worker : v # w /\ peer[v] = r
      BY <1>6, HeldStep
    <3> QED BY <3>1 DEF Held
  <2> QED BY <1>2, <1>3, <1>6, <2>1, <2>2, Tasks, ZenonT(40)
<1> QED BY <1>5, <1>6, GotMoves, ZenonT(40)

LEMMA RowPeer ==
    ASSUME NEW x
    PROVE  /\ PeerOfRow(x) = [f \in Fields |-> PeerOfRow(x)[f]]
           /\ PeerOfRow(x).uuid = x.uuid
           /\ PeerOfRow(x).guid
<1>1. PeerOfRow(x) = [f \in Fields |-> PeerOfRow(x)[f]] /\ PeerOfRow(x).uuid = x.uuid
  BY ZenonT(40) DEF PeerOfRow, DefaultPeer, Fields
<1>2. PeerOfRow(x).guid = TRUE
  BY DEF PeerOfRow, DefaultPeer
<1> QED BY <1>1, <1>2, ZenonT(40)

LEMMA MapInsertKeeps ==
    ASSUME TypeInv, NEW w \in Worker, MapInsert(w), UNCHANGED traffic
    PROVE  TypeInv' /\ (Owned => Owned') /\ (GuidInv => GuidInv')
<1> DEFINE d == PeerOfRow(row[w])
<1>1. /\ d = [f \in Fields |-> d[f]] /\ d.uuid = row[w].uuid /\ d.guid
  BY RowPeer
<1>2. /\ pc[w] = "insert" /\ heap' = [heap EXCEPT ![Free] = d] /\ map' = Free /\ Got(w, Free)
      /\ UNCHANGED db
  BY DEF MapInsert
<1> HIDE DEF d
<1>3. /\ TypeInv'
      /\ Free \in Ref /\ Writes(Free, d.uuid, d.guid)
      /\ \A r \in Ref : Held(r)' => r = Free \/ (Held(r) /\ \E v \in Worker : v # w /\ peer[v] = r)
      /\ pc'[w] \in {"idle", "check"}
      /\ \A v \in Worker : v # w => /\ pc'[v] = pc[v] /\ peer'[v] = peer[v]
                                     /\ msg'[v] = msg[v] /\ row'[v] = row[v]
                                     /\ guid'[v] = guid[v]
  BY <1>1, <1>2, NewPeer, ZenonT(40)
<1>4. ASSUME Owned PROVE Owned'
  <2>1. \A r \in Ref : Held(r)' => heap'[r].uuid = db.uuid
    BY <1>1, <1>2, <1>3, <1>4, ZenonT(40) DEF Owned, Writes
  <2>2. ASSUME NEW v \in Worker
        PROVE  /\ pc'[v] # "or"
               /\ pc'[v] = "insert" => row'[v].uuid = db.uuid
               /\ pc'[v] \in {"rate", "count", "memory"} => msg'[v].uuid = db.uuid
    <3>1. CASE v = w
      BY <1>3, <3>1, ZenonT(40)
    <3>2. CASE v # w
      <4>1. pc'[v] = pc[v] /\ row'[v] = row[v] /\ msg'[v] = msg[v]
        BY <1>3, <3>2, ZenonT(40)
      <4> QED BY <1>4, <4>1, ZenonT(40) DEF Owned
    <3> QED BY <3>1, <3>2, ZenonT(40)
  <2> QED BY <1>2, <1>4, <2>1, <2>2, ZenonT(40) DEF Owned
<1>5. ASSUME GuidInv PROVE GuidInv'
  <2>1. db # None /\ db' = db /\ map' # None
    BY <1>2, <1>3, <1>5, RegistryAssumption, ZenonT(40) DEF GuidInv
  <2>2. \A r \in Ref : Held(r)' /\ ~ heap'[r].guid => Held(r) /\ ~ heap[r].guid
    BY <1>1, <1>3, ZenonT(40) DEF Writes
  <2>3. ASSUME NEW r \in Ref, Held(r)', ~ heap'[r].guid PROVE Settling(r)'
    <3>1. \E v \in Worker : pc[v] = "guid" /\ peer[v] = r
      BY <1>5, <2>1, <2>2, <2>3, ZenonT(40) DEF GuidInv, Settling
    <3> QED BY <1>2, <1>3, <3>1, ZenonT(40) DEF Settling
  <2>4. \A r, s \in Ref : Held(r)' /\ Held(s)' /\ ~ heap'[r].guid /\ ~ heap'[s].guid => r = s
    BY <1>5, <2>2 DEF GuidInv
  <2>5. \A v \in Worker : pc'[v] = "or" /\ map' = None => db' = None
    BY <2>1, Zenon
  <2> QED BY <2>1, <2>3, <2>4, <2>5, ZenonT(40) DEF GuidInv
<1> QED BY <1>3, <1>4, <1>5, ZenonT(40)

LEMMA GetOrKeeps ==
    ASSUME TypeInv, NEW w \in Worker, GetOr(w), map = None, UNCHANGED traffic
    PROVE  TypeInv' /\ (Owned => Owned') /\ (GuidInv => GuidInv')
<1> DEFINE d == DefaultPeer
<1>1. /\ d = [f \in Fields |-> d[f]] /\ d.uuid = None /\ d.guid = FALSE
  BY DEF DefaultPeer, Fields
<1>2. /\ pc[w] = "or" /\ heap' = [heap EXCEPT ![Free] = d] /\ map' = Free /\ Got(w, Free)
      /\ UNCHANGED db
  BY DEF GetOr
<1> HIDE DEF d
<1>3. /\ TypeInv'
      /\ Free \in Ref /\ Writes(Free, d.uuid, d.guid)
      /\ \A r \in Ref : Held(r)' => r = Free \/ (Held(r) /\ \E v \in Worker : v # w /\ peer[v] = r)
      /\ pc'[w] \in {"idle", "check"}
      /\ \A v \in Worker : v # w => /\ pc'[v] = pc[v] /\ peer'[v] = peer[v]
                                     /\ msg'[v] = msg[v] /\ row'[v] = row[v]
                                     /\ guid'[v] = guid[v]
  BY <1>1, <1>2, NewPeer, ZenonT(40)
<1>4. Owned => FALSE
  BY <1>2 DEF Owned
<1>5. ASSUME GuidInv PROVE GuidInv'
  <2>0. \A v \in Worker : pc[v] \in Early /\ peer[v] = None
    BY DEF TypeInv, TaskOK
  <2>1. db = None /\ db' = None /\ map' # None
    BY <1>2, <1>3, <1>5, RegistryAssumption, ZenonT(40) DEF GuidInv
  <2>2. ASSUME NEW r \in Ref, Held(r)' PROVE r = Free
    <3>1. r # None
      BY RegistryAssumption
    <3>2. r = Free \/ \E v \in Worker : peer[v] = r
      BY <1>3, <2>2, ZenonT(40)
    <3> QED BY <2>0, <3>1, <3>2, ZenonT(40)
  <2>3. ~ heap'[Free].guid
    BY <1>1, <1>3, ZenonT(40) DEF Writes
  <2>4. heap'[Free].uuid = None
    BY <1>1, <1>3, ZenonT(40) DEF Writes
  <2>5. \A r \in Ref : Held(r)' => ~ heap'[r].guid /\ Settling(r)'
    BY <2>1, <2>2, <2>3, <2>4, ZenonT(40) DEF Settling
  <2>6. \A v \in Worker : pc'[v] \notin {"table", "insert", "guid"}
    BY <1>3, <1>5, <2>0, <2>1, ZenonT(40) DEF GuidInv, Early
  <2> QED BY <2>1, <2>2, <2>5, <2>6, ZenonT(40) DEF GuidInv
<1> QED BY <1>3, <1>4, <1>5, ZenonT(40)
=============================================================================

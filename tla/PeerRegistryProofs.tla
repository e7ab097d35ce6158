------------------------- MODULE PeerRegistryProofs -------------------------
(***************************************************************************)
(* Which machine an id belongs to, and that its Peer ends up knowing its   *)
(* row, for any number of tasks that handle any messages in any order      *)
(* (PeerRegistry), as long as no query fails.                              *)
(***************************************************************************)
EXTENDS PeerStepProofs

(* The provers are given time: SMT first, then Zenon.                      *)
USE SMTT(40), ZenonT(40)

(* A task that is done, or goes on with its Peer, holds nothing new.       *)
LEMMA NoMoreHeld ==
    ASSUME TypeInv, NEW w \in Worker, NEW l, NEW p, NEW m, NEW x, NEW g, Moves(w, l, p, m, x, g),
           p \in {None, peer[w]}, UNCHANGED map
    PROVE  \A r \in Ref : Held(r)' => Held(r)
<1> SUFFICES ASSUME NEW r \in Ref, Held(r)' PROVE Held(r)
  OBVIOUS
<1>1. r = map' \/ r = p \/ \E v \in Worker : v # w /\ peer[v] = r
  BY HeldStep
<1> QED BY <1>1, RegistryAssumption, Zenon DEF Held

LEMMA WriteMemoryKeeps ==
    ASSUME TypeInv, NEW w \in Worker, WriteMemory(w), UNCHANGED traffic
    PROVE  TypeInv' /\ (Owned => Owned') /\ (GuidInv => GuidInv')
<1> DEFINE q == peer[w]
           d == [heap[q] EXCEPT !.uuid = msg[w].uuid, !.pk = msg[w].pk, !.ip = msg[w].ip,
                                !.addr = msg[w].ip, !.online = TRUE]
<1>1. UNCHANGED <<map, db>> /\ pc[w] = "memory" /\ pc[w] \in Holding /\ pc[w] \in Registering
  BY ZenonT(40) DEF WriteMemory, Holding, Registering
<1>2. /\ q \in Ref /\ map # None /\ IsMsg(msg[w]) /\ Held(q)
      /\ heap[q] = [f \in Fields |-> heap[q][f]]
  BY <1>1, HoldsOne
<1>3. heap' = [heap EXCEPT ![q] = d]
  BY <1>2, ZenonT(40) DEF WriteMemory, TypeInv, StoreOK
<1>4. d = [f \in Fields |-> d[f]] /\ d.uuid = msg[w].uuid /\ d.guid = heap[q].guid
  BY <1>2, ZenonT(40) DEF Fields
<1> HIDE DEF d
<1>5. Writes(q, msg[w].uuid, heap[q].guid)
  <2>1. Writes(q, d.uuid, d.guid)
    BY <1>3, <1>4, PeerWrites, ZenonT(40) DEF TypeInv
  <2> QED BY <1>4, <2>1, ZenonT(40)
<1>6. Moves(w, "table", q, msg[w], row[w], heap[q].guid)
  BY Unmoved, Zenon DEF WriteMemory, Moves, Goto
<1> HIDE DEF q
<1>7. StoreOK'
  BY <1>1, <1>5 DEF TypeInv, StoreOK, Writes
<1>8. TypeInv'
  BY <1>1, <1>2, <1>6, <1>7, TypeStep DEF Early, Holding, Registering
<1>9. \A r \in Ref : Held(r)' => Held(r)
  BY <1>1, <1>6, NoMoreHeld, ZenonT(40) DEF q
<1>10. /\ pc'[w] = "table" /\ peer'[w] = q /\ guid'[w] = heap[q].guid
       /\ \A v \in Worker : v # w => /\ pc'[v] = pc[v] /\ peer'[v] = peer[v]
                                      /\ msg'[v] = msg[v] /\ row'[v] = row[v]
                                      /\ guid'[v] = guid[v]
  BY <1>6, Tasks
<1>11. ASSUME Owned PROVE Owned'
  <2>1. \A r \in Ref : Held(r)' => heap'[r].uuid = db.uuid
    BY <1>1, <1>5, <1>9, <1>11, ZenonT(40) DEF Owned, Writes
  <2>2. \A v \in Worker :
           /\ pc'[v] # "or"
           /\ pc'[v] = "insert" => row'[v].uuid = db.uuid
           /\ pc'[v] \in {"rate", "count", "memory"} => msg'[v].uuid = db.uuid
    BY <1>10, <1>11 DEF Owned
  <2> QED BY <1>1, <1>11, <2>1, <2>2, ZenonT(40) DEF Owned
<1>12. ASSUME GuidInv PROVE GuidInv'
  <2>1. \A r \in Ref : /\ heap'[r].guid => heap[r].guid
                       /\ heap[r].guid => heap'[r].guid
    BY <1>5, ZenonT(40) DEF Writes
  <2>2. ASSUME NEW r \in Ref, Held(r)', ~ heap'[r].guid PROVE Settling(r)'
    <3>1. Settling(r)
      BY <1>9, <1>12, <2>1, <2>2, ZenonT(40) DEF GuidInv
    <3>2. CASE r = q
      BY <1>1, <1>10, <3>1, <3>2, ZenonT(40) DEF Settling
    <3>3. CASE r # q
      <4>1. heap'[r].uuid = heap[r].uuid
        BY <1>5, <3>3 DEF Writes
      <4> QED BY <1>1, <1>10, <3>1, <4>1, ZenonT(40) DEF Settling
    <3> QED BY <3>2, <3>3
  <2>3. \A r \in Ref : Held(r)' /\ heap'[r].guid => db' # None
    BY <1>1, <1>9, <1>12, <2>1, ZenonT(40) DEF GuidInv
  <2>4. \A r, s \in Ref : Held(r)' /\ Held(s)' /\ ~ heap'[r].guid /\ ~ heap'[s].guid => r = s
    BY <1>9, <1>12, <2>1, ZenonT(40) DEF GuidInv
  <2>5. ASSUME NEW v \in Worker, pc'[v] = "table", guid'[v] PROVE db' # None
    <3>1. CASE v = w
      <4>1. heap[q].guid
        BY <1>10, <2>5, <3>1, ZenonT(40)
      <4> QED BY <1>1, <1>2, <1>12, <4>1, ZenonT(40) DEF GuidInv
    <3>2. CASE v # w
      <4>1. pc[v] = "table" /\ guid[v]
        BY <1>10, <2>5, <3>2, ZenonT(40)
      <4> QED BY <1>1, <1>12, <4>1, ZenonT(40) DEF GuidInv
    <3> QED BY <3>1, <3>2
  <2>6. \A v \in Worker : /\ pc'[v] \in {"insert", "guid"} => db' # None
                          /\ pc'[v] = "or" /\ map' = None => db' = None
    BY <1>1, <1>10, <1>12, ZenonT(40) DEF GuidInv
  <2> QED BY <2>2, <2>3, <2>4, <2>5, <2>6, ZenonT(40) DEF GuidInv
<1> QED BY <1>8, <1>11, <1>12, ZenonT(40)

LEMMA WriteGuidKeeps ==
    ASSUME TypeInv, GuidInv, NEW w \in Worker, WriteGuid(w), UNCHANGED traffic
    PROVE  TypeInv' /\ (Owned => Owned') /\ GuidInv'
<1> DEFINE q == peer[w]
           d == [heap[q] EXCEPT !.guid = TRUE]
<1>1. UNCHANGED <<map, db>> /\ pc[w] = "guid" /\ pc[w] \in Holding /\ Finish(w)
  BY DEF WriteGuid, Holding, Registering
<1>2. q \in Ref /\ heap[q] = [f \in Fields |-> heap[q][f]]
  BY <1>1, HoldsOne
<1>3. heap' = [heap EXCEPT ![q] = d]
  BY <1>2 DEF WriteGuid, TypeInv, StoreOK
<1>4. d = [f \in Fields |-> d[f]] /\ d.uuid = heap[q].uuid /\ d.guid = TRUE
  BY <1>2, Zenon DEF Fields
<1> HIDE DEF d
<1>5. Writes(q, d.uuid, d.guid)
  BY <1>3, <1>4, PeerWrites, ZenonT(40) DEF TypeInv
<1>6. PICK g : Moves(w, "idle", None, None, None, g)
  BY <1>1, FinishMoves, Zenon DEF Done
<1> HIDE DEF q
<1>7. StoreOK'
  BY <1>1, <1>5 DEF TypeInv, StoreOK, Writes
<1>8. TypeInv'
  BY <1>1, <1>6, <1>7, TypeStep, ZenonT(40) DEF Early, Holding, Registering
<1>9. \A r \in Ref : Held(r)' => Held(r)
  BY <1>1, <1>6, NoMoreHeld, ZenonT(40)
<1>10. /\ pc'[w] = "idle"
       /\ \A v \in Worker : v # w => /\ pc'[v] = pc[v] /\ peer'[v] = peer[v]
                                      /\ msg'[v] = msg[v] /\ row'[v] = row[v]
                                      /\ guid'[v] = guid[v]
  BY <1>6, Tasks
<1>11. ASSUME Owned PROVE Owned'
  <2>1. \A r \in Ref : Held(r)' => heap'[r].uuid = db.uuid
    <3>1. \A r \in Ref : Held(r)' => heap[r].uuid = db.uuid
      BY <1>9, <1>11, ZenonT(40) DEF Owned
    <3>2. \A r \in Ref : heap'[r].uuid = heap[r].uuid
      BY <1>4, <1>5, ZenonT(40) DEF Writes
    <3> QED BY <3>1, <3>2, ZenonT(40)
  <2>2. \A v \in Worker :
           /\ pc'[v] # "or"
           /\ pc'[v] = "insert" => row'[v].uuid = db.uuid
           /\ pc'[v] \in {"rate", "count", "memory"} => msg'[v].uuid = db.uuid
    BY <1>10, <1>11 DEF Owned
  <2> QED BY <1>1, <1>11, <2>1, <2>2, ZenonT(40) DEF Owned
<1>12. GuidInv'
  <2>1. db # None /\ db' = db
    BY <1>1 DEF GuidInv
  <2>2. \A r \in Ref : ~ heap'[r].guid => r # q /\ ~ heap[r].guid
    BY <1>4, <1>5, ZenonT(40) DEF Writes
  <2>3. ASSUME NEW r \in Ref, Held(r)', ~ heap'[r].guid PROVE Settling(r)'
    <3>1. Settling(r) /\ r # q
      BY <1>9, <2>2, <2>3, ZenonT(40) DEF GuidInv
    <3>2. PICK v \in Worker : pc[v] = "guid" /\ peer[v] = r
      BY <2>1, <3>1 DEF Settling
    <3>3. v # w
      BY <3>1, <3>2 DEF q
    <3> QED BY <1>10, <3>2, <3>3, ZenonT(40) DEF Settling
  <2>4. \A r, s \in Ref : Held(r)' /\ Held(s)' /\ ~ heap'[r].guid /\ ~ heap'[s].guid => r = s
    BY <1>9, <2>2 DEF GuidInv
  <2>5. \A v \in Worker : pc'[v] = "or" /\ map' = None => db' = None
    BY <1>1, <1>10, ZenonT(40) DEF GuidInv
  <2> QED BY <2>1, <2>3, <2>4, <2>5, ZenonT(40) DEF GuidInv
<1> QED BY <1>8, <1>11, <1>12

(* The table is written: a row for an id that has none, a new key and      *)
(* address for one that has, and nothing if the insert fails.              *)
LEMMA WriteTableKeeps ==
    ASSUME TypeInv, GuidInv, ~ DbFaults, NEW w \in Worker, WriteTable(w), UNCHANGED traffic
    PROVE  TypeInv' /\ (Owned => Owned') /\ GuidInv'
<1>1. UNCHANGED <<heap, map>> /\ pc[w] = "table" /\ pc[w] \in Holding /\ pc[w] \in Registering
  BY DEF WriteTable, Holding, Registering
<1>2. peer[w] \in Ref /\ map # None /\ IsMsg(msg[w]) /\ Held(peer[w])
  BY <1>1, HoldsOne, Zenon
<1>3. CASE ~ guid[w] /\ db = None /\ db' = RowOf(msg[w]) /\ Goto(w, "guid") /\ UNCHANGED locals
  <2>1. Moves(w, "guid", peer[w], msg[w], row[w], guid[w])
    BY <1>3, Unmoved DEF Moves, Goto, locals
  <2>2. db' \in Rows /\ db' # None
    BY <1>2, <1>3, UuidIsNone DEF IsMsg
  <2>3. StoreOK'
    BY <1>1, <2>2 DEF TypeInv, StoreOK
  <2>4. TypeInv'
    BY <1>1, <1>2, <2>1, <2>3, TypeStep DEF Early, Holding, Registering
  <2>5. \A r \in Ref : Held(r)' => Held(r)
    BY <1>1, <2>1, NoMoreHeld, ZenonT(40)
  <2>6. /\ pc'[w] = "guid" /\ peer'[w] = peer[w]
        /\ \A v \in Worker : v # w => pc'[v] = pc[v]
    BY <2>1, Tasks
  <2>7. GuidInv'
    <3>1. \A r \in Ref : heap'[r] = heap[r]
      BY <1>1
    <3>2. ~ heap[peer[w]].guid
      BY <1>2, <1>3 DEF GuidInv
    <3>3. ASSUME NEW r \in Ref, Held(r)', ~ heap'[r].guid PROVE Settling(r)'
      <4>1. r = peer[w]
        BY <1>2, <2>5, <3>1, <3>2, <3>3, ZenonT(40) DEF GuidInv
      <4> QED BY <2>6, <4>1 DEF Settling
    <3>4. \A r, s \in Ref : Held(r)' /\ Held(s)' /\ ~ heap'[r].guid /\ ~ heap'[s].guid => r = s
      BY <2>5, <3>1 DEF GuidInv
    <3> QED BY <1>1, <1>2, <2>2, <3>3, <3>4, ZenonT(40) DEF GuidInv
  <2> QED BY <1>3, <2>4, <2>7 DEF Owned
<1>4. ASSUME Finish(w), db # None, db' \in Rows, db'.uuid = db.uuid
      PROVE  TypeInv' /\ (Owned => Owned') /\ GuidInv'
  <2>1. PICK g : Moves(w, "idle", None, None, None, g)
    BY <1>4, FinishMoves, ZenonT(40) DEF Done
  <2>2. StoreOK' /\ db' # None
    BY <1>1, <1>4, UuidIsNone, ZenonT(40) DEF TypeInv, StoreOK
  <2>3. TypeInv'
    BY <1>1, <2>1, <2>2, TypeStep, ZenonT(40) DEF Early, Holding, Registering
  <2>4. \A r \in Ref : Held(r)' => Held(r)
    BY <1>1, <2>1, NoMoreHeld, ZenonT(40)
  <2>5. /\ pc'[w] = "idle"
        /\ \A v \in Worker : v # w => /\ pc'[v] = pc[v] /\ peer'[v] = peer[v]
                                       /\ msg'[v] = msg[v] /\ row'[v] = row[v]
    BY <2>1, Tasks
  <2>6. ASSUME Owned PROVE Owned'
    <3>1. \A r \in Ref : Held(r)' => heap'[r].uuid = db'.uuid
      BY <1>1, <1>4, <2>4, <2>6, ZenonT(40) DEF Owned
    <3>2. \A v \in Worker :
             /\ pc'[v] # "or"
             /\ pc'[v] = "insert" => row'[v].uuid = db'.uuid
             /\ pc'[v] \in {"rate", "count", "memory"} => msg'[v].uuid = db'.uuid
      BY <1>4, <2>5, <2>6 DEF Owned
    <3> QED BY <2>2, <3>1, <3>2, ZenonT(40) DEF Owned
  <2>7. GuidInv'
    <3>1. \A r \in Ref : heap'[r] = heap[r]
      BY <1>1
    <3>2. ASSUME NEW r \in Ref, Held(r)', ~ heap'[r].guid PROVE Settling(r)'
      <4>1. PICK v \in Worker : pc[v] = "guid" /\ peer[v] = r
        BY <1>4, <2>4, <3>1, <3>2, ZenonT(40) DEF GuidInv, Settling
      <4> QED BY <1>1, <2>5, <4>1, ZenonT(40) DEF Settling
    <3>3. \A r, s \in Ref : Held(r)' /\ Held(s)' /\ ~ heap'[r].guid /\ ~ heap'[s].guid => r = s
      BY <2>4, <3>1 DEF GuidInv
    <3> QED BY <1>1, <1>2, <2>2, <3>2, <3>3, ZenonT(40) DEF GuidInv
  <2> QED BY <2>3, <2>6, <2>7
<1>5. CASE guid[w] /\ db' = update_pk(msg[w]) /\ Finish(w)
  <2>1. db # None
    BY <1>1, <1>5 DEF GuidInv
  <2>2. db \in Rows
    BY <2>1, Zenon DEF TypeInv, StoreOK
  <2>3. msg[w].pk \in Pk /\ msg[w].ip \in Ip
    BY <1>2 DEF IsMsg, RowOf, Rows
  <2>4. db' \in Rows /\ db'.uuid = db.uuid
    BY <1>5, <2>2, <2>3, ZenonT(40) DEF update_pk, Rows
  <2> QED BY <1>4, <1>5, <2>1, <2>4, ZenonT(40)
<1>6. CASE ~ guid[w] /\ db # None /\ UNCHANGED db /\ Finish(w)
  <2>1. db \in Rows
    BY <1>6 DEF TypeInv, StoreOK
  <2> QED BY <1>4, <1>6, <2>1
<1> QED BY <1>3, <1>5, <1>6, ZenonT(40) DEF WriteTable

(* Time changes no row and no guid.                                        *)
LEMMA TimeWrites == ASSUME StoreOK, NEW q \in Ref, TimePasses(q) PROVE WritesElse
<1>0. heap[q] = [f \in Fields |-> heap[q][f]]
  BY DEF StoreOK
<1>1. CASE heap' = [heap EXCEPT ![q].online = FALSE]
  <2> DEFINE d == [heap[q] EXCEPT !.online = FALSE]
  <2>1. heap' = [heap EXCEPT ![q] = d]
    BY <1>1 DEF StoreOK
  <2>2. /\ d = [f \in Fields |-> d[f]] /\ d.uuid = heap[q].uuid /\ d.guid = heap[q].guid
        /\ d.pk = heap[q].pk /\ d.ip = heap[q].ip
    BY <1>0, Zenon DEF Fields
  <2> HIDE DEF d
  <2> QED BY <2>1, <2>2, OtherFields, ZenonT(40)
<1>2. CASE heap' = [heap EXCEPT ![q].recent = FALSE]
  <2> DEFINE d == [heap[q] EXCEPT !.recent = FALSE]
  <2>1. heap' = [heap EXCEPT ![q] = d]
    BY <1>2 DEF StoreOK
  <2>2. /\ d = [f \in Fields |-> d[f]] /\ d.uuid = heap[q].uuid /\ d.guid = heap[q].guid
        /\ d.pk = heap[q].pk /\ d.ip = heap[q].ip
    BY <1>0, Zenon DEF Fields
  <2> HIDE DEF d
  <2> QED BY <2>1, <2>2, OtherFields, ZenonT(40)
<1> QED BY <1>1, <1>2 DEF TimePasses

LEMMA TimeKeeps ==
    ASSUME TypeInv, NEW q \in Ref, TimePasses(q), UNCHANGED traffic
    PROVE  TypeInv' /\ (Owned => Owned') /\ (GuidInv => GuidInv')
<1>1. UNCHANGED <<map, db, pc, msg, peer, row, guid>>
  BY DEF TimePasses, locals
<1>3. WritesElse
  BY TimeWrites, Zenon DEF TypeInv
<1>4. TypeInv'
  BY <1>1, <1>3, ZenonT(40) DEF TypeInv, StoreOK, WritesElse, TaskOK, IsMsg, RowOf
<1>5. \A r \in Ref : Held(r)' <=> Held(r)
  BY <1>1 DEF Held
<1>6. \A r \in Ref : /\ heap'[r].uuid = heap[r].uuid
                     /\ heap'[r].guid => heap[r].guid
                     /\ heap[r].guid => heap'[r].guid
  BY <1>3, ZenonT(40) DEF WritesElse
<1>7. Owned => Owned'
  BY <1>1, <1>5, <1>6, ZenonT(40) DEF Owned
<1>8. ASSUME GuidInv PROVE GuidInv'
  <2>1. \A r \in Ref : Settling(r) => Settling(r)'
    BY <1>1, <1>6 DEF Settling
  <2>2. \A v \in Worker : guid'[v] => guid[v]
    BY <1>1, Zenon
  <2> QED BY <1>1, <1>5, <1>6, <1>8, <2>1, <2>2, ZenonT(40) DEF GuidInv
<1> QED BY <1>4, <1>7, <1>8

(* Nothing is held when hbbs starts.                                       *)
Fresh ==
    /\ heap = [r \in Ref |-> DefaultPeer]
    /\ map = None
    /\ pc = [w \in Worker |-> "idle"]
    /\ msg = [w \in Worker |-> None]
    /\ peer = [w \in Worker |-> None]
    /\ row = [w \in Worker |-> None]
    /\ guid = [w \in Worker |-> FALSE]
    /\ traffic \in Traffic
    /\ db \in Rows \union {None}

FreshInv == TypeInv /\ GuidInv /\ (db # None => Owned)

LEMMA FreshOK == Fresh => FreshInv
<1> SUFFICES ASSUME Fresh PROVE FreshInv
  OBVIOUS
<1>1. StoreOK
  <2>1. DefaultPeer = [f \in Fields |-> DefaultPeer[f]]
    BY DEF DefaultPeer, Fields
  <2>2. \A r \in Ref : heap[r] = DefaultPeer
    BY DEF Fresh
  <2>3. heap = [r \in Ref |-> heap[r]]
    BY DEF Fresh
  <2> QED BY <2>1, <2>2, <2>3 DEF Fresh, StoreOK
<1>2. \A w \in Worker : pc[w] = "idle" /\ peer[w] = None /\ msg[w] = None
  BY DEF Fresh
<1>3. msg = [w \in Worker |-> msg[w]] /\ row = [w \in Worker |-> row[w]] /\ guid = [w \in Worker |-> guid[w]]
  BY Zenon DEF Fresh
<1>4. pc \in [Worker -> Early \union Holding] /\ peer \in [Worker -> Ref \union {None}]
  BY DEF Fresh, Early
<1>5. \A w \in Worker : TaskOK(w)
  BY <1>2 DEF TaskOK, Early, Holding, Registering
<1>6. \A r \in Ref : ~ Held(r)
  BY <1>2, RegistryAssumption DEF Fresh, Held
<1>7. TypeInv
  BY <1>1, <1>3, <1>4, <1>5, ZenonT(40) DEF Fresh, TypeInv
<1>8. GuidInv
  BY <1>2, <1>6 DEF GuidInv
<1>9. db # None => Owned
  BY <1>2, <1>6 DEF Owned
<1> QED BY <1>7, <1>8, <1>9 DEF FreshInv

LEMMA StepKeeps ==
    ASSUME TypeInv, GuidInv, ~ DbFaults, NEW w \in Worker, Step(w) \/ Receive(w), UNCHANGED traffic
    PROVE  TypeInv' /\ (Owned => Owned') /\ GuidInv'
<1>1. CASE SomeQuiet(w)
  <2>1. PICK l, p, m, x, g : Quiet(w, l, p, m, x, g)
    BY <1>1 DEF SomeQuiet
  <2> QED BY <2>1, QuietType, QuietOwner, QuietGuid, ZenonT(40)
<1>2. CASE Receive(w) \/ MapRead(w) \/ DbRead(w) \/ Check(w) \/ RateRead(w) \/ RateWrite(w) \/ UpdateAddr(w)
  BY <1>1, <1>2, QuietReceive, QuietMapRead, QuietDbRead, QuietCheck, QuietRateRead,
     QuietRateWrite, QuietUpdateAddr, ZenonT(40)
<1>3. CASE MapInsert(w)
  BY <1>3, MapInsertKeeps
<1>4. CASE GetOr(w)
  <2>1. CASE map = None
    BY <1>4, <2>1, GetOrKeeps
  <2>2. CASE map # None
    <3>1. Got(w, map) /\ UNCHANGED <<heap, map, db>> /\ pc[w] \in Early
      BY <1>4, <2>2 DEF GetOr, Early
    <3>2. SomeQuiet(w)
      BY <2>2, <3>1, UnchangedWrites, QuietGot, ZenonT(40) DEF TypeInv
    <3> QED BY <1>1, <3>2
  <2> QED BY <2>1, <2>2
<1>5. CASE WriteMemory(w) \/ WriteTable(w) \/ WriteGuid(w)
  BY <1>5, WriteMemoryKeeps, WriteTableKeeps, WriteGuidKeeps, ZenonT(40)
<1> QED BY <1>2, <1>3, <1>4, <1>5, ZenonT(40) DEF Step

(* No query fails.                                                         *)
NoDbFaults == ~ DbFaults

RegistryInv == TypeInv /\ GuidInv /\ OwnerInv

(* The invariant of handle_register_pk, update_addr and the lookups of     *)
(* PeerMap, under every interleaving of their steps and at any restart.    *)
THEOREM RegistryInvariant == NoDbFaults => (Spec => []RegistryInv)
<1> SUFFICES ASSUME NoDbFaults PROVE Spec => []RegistryInv
  OBVIOUS
<1>0. \A t \in Traffic : t.tasks \subseteq Worker /\ \A m \in t.pks : RowOf(m) \in Rows
  BY RegistryAssumption DEF RowOf, Rows
<1>1. Init => RegistryInv
  <2> SUFFICES ASSUME Init PROVE RegistryInv
    OBVIOUS
  <2>1. db \in Rows \union {None}
    BY <1>0 DEF Init
  <2>2. Fresh
    BY <2>1 DEF Init, Fresh
  <2>3. known => db # None
    BY Zenon DEF Init
  <2> QED BY <2>2, <2>3, FreshOK DEF RegistryInv, OwnerInv, FreshInv
<1>2. RegistryInv /\ [Next]_<<vars, scene>> => RegistryInv'
  <2> SUFFICES ASSUME RegistryInv, [Next]_<<vars, scene>> PROVE RegistryInv'
    OBVIOUS
  <2>0. TypeInv /\ GuidInv /\ OwnerInv /\ ~ DbFaults
    BY DEF RegistryInv, NoDbFaults
  <2>1. ASSUME UNCHANGED scene, TypeInv', Owned => Owned', GuidInv' PROVE RegistryInv'
    <3>1. known' => known
      BY <2>1, ZenonT(40) DEF scene
    <3>2. OwnerInv'
      BY <2>0, <2>1, <3>1, ZenonT(40) DEF OwnerInv
    <3> QED BY <2>1, <3>2 DEF RegistryInv
  <2>2. ASSUME NEW w \in Worker, Step(w) \/ Receive(w), UNCHANGED scene PROVE RegistryInv'
    <3>1. UNCHANGED traffic
      BY <2>2 DEF scene
    <3> QED BY <2>0, <2>1, <2>2, <3>1, StepKeeps, ZenonT(40)
  <2>3. ASSUME NEW q \in Ref, TimePasses(q), UNCHANGED scene PROVE RegistryInv'
    <3>1. UNCHANGED traffic
      BY <2>3 DEF scene
    <3> QED BY <2>0, <2>1, <2>3, <3>1, TimeKeeps, ZenonT(40)
  <2>4. CASE Restart
    <3>1. Fresh'
      BY <2>0, <2>4, ZenonT(40) DEF Restart, Fresh, TypeInv, StoreOK, Rows
    <3>2. FreshInv'
      BY <3>1, FreshOK, PTL
    <3>3. known' => db' # None
      BY <2>4, Zenon DEF Restart
    <3> QED BY <3>2, <3>3 DEF RegistryInv, OwnerInv, FreshInv
  <2>5. CASE UNCHANGED <<vars, scene>>
    <3>1. UNCHANGED <<heap, map, db, pc, msg, peer, row, guid, traffic, known>>
      BY <2>5, Zenon DEF vars, scene
    <3>2. TypeInv'
      BY <2>0, <3>1, ZenonT(40) DEF TypeInv, StoreOK, TaskOK, IsMsg, RowOf, Rows
    <3>3. \A r \in Ref : Held(r)' <=> Held(r)
      BY <3>1 DEF Held
    <3>4. Owned => Owned'
      BY <3>1, <3>3 DEF Owned
    <3>5. GuidInv'
      BY <2>0, <3>1, <3>3, ZenonT(40) DEF GuidInv, Settling
    <3> QED BY <2>1, <3>2, <3>4, <3>5, <2>5, ZenonT(40)
  <2>6. \A w \in traffic.tasks : w \in Worker
    BY <1>0, <2>0 DEF TypeInv
  <2> QED BY <2>2, <2>3, <2>4, <2>5, <2>6, ZenonT(40) DEF Next
<1> QED BY <1>1, <1>2, PTL DEF Spec

(* An id that has a row when hbbs starts keeps its machine, however many   *)
(* tasks register it, look it up and interleave.                           *)
THEOREM OwnerKeptHolds == NoDbFaults => (Spec => []OwnerKept)
<1>1. RegistryInv => OwnerKept
  BY DEF RegistryInv, OwnerInv, Owned, OwnerKept
<1> QED BY <1>1, RegistryInvariant, PTL

(* When no registration is under way the Peer of an id with an owner knows *)
(* its row, however many tasks registered it at once.                      *)
THEOREM GuidSettlesHolds == NoDbFaults => (Spec => []GuidSettles)
<1>1. RegistryInv => GuidSettles
  <2> SUFFICES ASSUME RegistryInv, \A w \in Worker : pc[w] = "idle", map # None, heap[map].uuid # None
               PROVE  heap[map].guid /\ db # None
    BY DEF GuidSettles
  <2>1. map \in Ref /\ Held(map)
    BY DEF RegistryInv, TypeInv, StoreOK, Held
  <2>2. ~ Settling(map)
    BY DEF Settling
  <2> QED BY <2>1, <2>2 DEF RegistryInv, GuidInv
<1> QED BY <1>1, RegistryInvariant, PTL

-----------------------------------------------------------------------------
(***************************************************************************)
(* One task alone: the Peer in memory is what its row says, but between    *)
(* the two writes of update_pk.                                            *)
(***************************************************************************)
Matches ==
    map # None => \/ heap[map].uuid # None /\ heap[map].guid /\ db = RowOf(heap[map])
                  \/ heap[map].uuid = None /\ ~ heap[map].guid /\ db = None

(* What the task has at l: the Peer p, the message m, the row x, the copy g.*)
Fits(l, p, m, x, g) ==
    /\ l \in Holding => p = map
    /\ l \notin {"table", "guid"} => Matches
    /\ l \in {"db", "insert", "or"} => map = None
    /\ l = "insert" => x = db
    /\ l = "or" => db = None
    /\ l \in {"rate", "count", "memory"} /\ heap[map].uuid # None => m.uuid = heap[map].uuid
    /\ l = "table" => /\ RowOf(heap[map]) = RowOf(m)
                      /\ \/ g /\ heap[map].guid /\ db # None /\ db.uuid = m.uuid
                         \/ ~ g /\ db = None
    /\ l = "guid" => RowOf(heap[map]) = RowOf(m) /\ db = RowOf(m)

Solo(w) ==
    /\ \A v \in Worker : v # w => pc[v] = "idle"
    /\ Fits(pc[w], peer[w], msg[w], row[w], guid[w])

SoloInv == \A w \in Worker : traffic.tasks = {w} => Solo(w)

(* A step of the task.                                                     *)
LEMMA SoloMoves ==
    ASSUME TypeInv, NEW w \in Worker, Solo(w), NEW l, NEW p, NEW m, NEW x, NEW g,
           Moves(w, l, p, m, x, g), Fits(l, p, m, x, g)'
    PROVE  Solo(w)'
<1>1. /\ pc'[w] = l /\ peer'[w] = p /\ msg'[w] = m /\ row'[w] = x /\ guid'[w] = g
      /\ \A v \in Worker : v # w => pc'[v] = pc[v]
  BY Tasks
<1>2. Fits(pc[w], peer[w], msg[w], row[w], guid[w])'
  BY <1>1, ZenonT(40) DEF Fits, Matches, RowOf
<1> QED BY <1>1, <1>2, ZenonT(40) DEF Solo

(* What the table has of a Peer stays.                                     *)
LEMMA RowsKept ==
    ASSUME TypeInv, WritesElse, UNCHANGED <<map, db>>
    PROVE  /\ map # None => /\ map \in Ref /\ RowOf(heap[map])' = RowOf(heap[map])
                            /\ heap'[map].uuid = heap[map].uuid /\ heap'[map].guid = heap[map].guid
           /\ Matches <=> Matches'
<1>1. map # None => /\ heap'[map].uuid = heap[map].uuid /\ heap'[map].guid = heap[map].guid
                    /\ heap'[map].pk = heap[map].pk /\ heap'[map].ip = heap[map].ip
                    /\ map \in Ref
  BY Zenon DEF WritesElse, TypeInv, StoreOK
<1>2. map # None => RowOf(heap[map])' = RowOf(heap[map])
  BY <1>1, Zenon DEF RowOf
<1>3. Matches <=> Matches'
  BY <1>1, <1>2, ZenonT(40) DEF Matches
<1> QED BY <1>1, <1>2, <1>3, ZenonT(40)

LEMMA SoloQuiet ==
    ASSUME TypeInv, NEW w \in Worker, Solo(w), SomeQuiet(w)
    PROVE  Solo(w)'
<1>1. PICK l, p, m, x, g : Quiet(w, l, p, m, x, g)
  BY DEF SomeQuiet
<1>2. /\ Moves(w, l, p, m, x, g) /\ WritesElse /\ UNCHANGED <<map, db>>
      /\ pc[w] \in (Early \union Holding) \ {"table", "guid"}
      /\ l \in (Early \union Holding) \ {"table", "guid"}
  BY <1>1 DEF Quiet, TypeInv
<1>3. l \in Holding => p = map
  <2>1. peer[w] = None \/ peer[w] = map
    BY <1>2, ZenonT(40) DEF TypeInv, TaskOK, Solo, Fits
  <2>2. p \in {None, peer[w], map} /\ (l \in Holding => p \in Ref)
    BY <1>1 DEF Quiet
  <2> QED BY <2>1, <2>2, RegistryAssumption, ZenonT(40)
<1>4. Matches'
  BY <1>2, RowsKept, ZenonT(40) DEF Solo, Fits
<1>5. l \in {"db", "insert", "or"} => map' = None
  BY <1>1, <1>2, ZenonT(40) DEF Quiet, Solo, Fits
<1>6. (l = "insert" => x = db') /\ (l = "or" => db' = None)
  BY <1>1, <1>2, ZenonT(40) DEF Quiet
<1>7. ASSUME l \in {"rate", "count", "memory"}, heap'[map'].uuid # None PROVE m.uuid = heap'[map'].uuid
  <2>1. map # None /\ map' = map /\ heap'[map].uuid = heap[map].uuid
    BY <1>1, <1>2, <1>7, RowsKept, ZenonT(40) DEF Quiet, Holding, Registering
  <2>2. CASE l = "rate"
    <3>1. ~ Refused(heap[peer[w]], m) /\ peer[w] \in Ref
      BY <1>1, <2>2, ZenonT(40) DEF Quiet
    <3>2. peer[w] = map
      BY <1>2, <3>1, RegistryAssumption, ZenonT(40) DEF TypeInv, TaskOK, Solo, Fits
    <3> QED BY <1>7, <2>1, <3>1, <3>2, ZenonT(40) DEF Refused
  <2>3. CASE l \in {"count", "memory"}
    <3>1. m = msg[w] /\ pc[w] \in {"rate", "count"}
      BY <1>1, <2>3, ZenonT(40) DEF Quiet
    <3> QED BY <1>7, <2>1, <3>1, ZenonT(40) DEF Solo, Fits
  <2> QED BY <1>7, <2>2, <2>3, ZenonT(40)
<1>8. Fits(l, p, m, x, g)'
  BY <1>2, <1>3, <1>4, <1>5, <1>6, <1>7, ZenonT(40) DEF Fits
<1> QED BY <1>2, <1>8, SoloMoves

(* PeerMap::get or get_or has put a Peer into the map.                     *)
LEMMA SoloDone ==
    ASSUME TypeInv, NEW w \in Worker, Solo(w), Finish(w), Matches'
    PROVE  Solo(w)'
<1>1. PICK g : Moves(w, "idle", None, None, None, g)
  BY FinishMoves, ZenonT(40) DEF Done
<1>2. Fits("idle", None, None, None, g)'
  BY DEF Fits, Holding, Registering
<1> QED BY <1>1, <1>2, SoloMoves, ZenonT(40)

LEMMA SoloGot ==
    ASSUME TypeInv, NEW w \in Worker, Solo(w), NEW p, Got(w, p), map' = p, Matches'
    PROVE  Solo(w)'
<1>1. CASE Finish(w)
  BY <1>1, SoloDone
<1>2. CASE Moves(w, "check", p, msg[w], None, guid[w])
  <2>1. PICK m, g : m = msg[w] /\ g = guid[w]
    BY Zenon
  <2>2. Fits("check", p, m, None, g)'
    BY DEF Fits, Holding, Registering
  <2>3. Moves(w, "check", p, m, None, g)
    BY <1>2, <2>1, ZenonT(40)
  <2> QED BY <2>2, <2>3, SoloMoves, ZenonT(40)
<1> QED BY <1>1, <1>2, Unmoved, ZenonT(40) DEF Got, Moves, Goto

LEMMA SoloMapInsert ==
    ASSUME TypeInv, NEW w \in Worker, Solo(w), MapInsert(w)
    PROVE  Solo(w)'
<1>1. pc[w] = "insert" /\ peer[w] = None /\ row[w] \in Rows
  BY DEF MapInsert, TypeInv, TaskOK, Early
<1>2. Free \in Ref /\ Free # None
  BY <1>1, FreeIsFree, RegistryAssumption, ZenonT(40)
<1>3. heap'[Free] = PeerOfRow(row[w])
  BY <1>2, ZenonT(40) DEF MapInsert, TypeInv, StoreOK
<1> DEFINE d == PeerOfRow(row[w])
<1>4. d.uuid = row[w].uuid /\ d.pk = row[w].pk /\ d.ip = row[w].ip /\ d.guid = TRUE
  BY DEF PeerOfRow, DefaultPeer
<1> HIDE DEF d
<1>5. RowOf(d) = row[w] /\ d.uuid # None
  BY <1>1, <1>4, UuidIsNone, ZenonT(40) DEF RowOf, Rows
<1>6. row[w] = db /\ db' = db
  BY <1>1 DEF Solo, Fits, MapInsert
<1>7. PICK q : q = Free
  OBVIOUS
<1>8. map' = q /\ Got(w, q) /\ heap'[q] = d
  BY <1>3, <1>7, ZenonT(40) DEF MapInsert, d
<1>9. Matches'
  BY <1>4, <1>5, <1>6, <1>8, ZenonT(40) DEF Matches
<1> QED BY <1>8, <1>9, SoloGot, ZenonT(40)

LEMMA SoloGetOr ==
    ASSUME TypeInv, NEW w \in Worker, Solo(w), GetOr(w)
    PROVE  Solo(w)'
<1>1. pc[w] = "or" /\ peer[w] = None /\ map = None /\ db = None /\ db' = db
  BY DEF GetOr, TypeInv, TaskOK, Early, Solo, Fits
<1>2. Free \in Ref /\ Free # None
  BY <1>1, FreeIsFree, RegistryAssumption, ZenonT(40)
<1>3. heap' = [heap EXCEPT ![Free] = DefaultPeer] /\ map' = Free /\ Got(w, Free)
  BY <1>1, Zenon DEF GetOr
<1>4. heap'[Free] = DefaultPeer
  BY <1>2, <1>3, ZenonT(40) DEF TypeInv, StoreOK
<1>5. DefaultPeer.uuid = None /\ DefaultPeer.guid = FALSE
  BY DEF DefaultPeer
<1>6. PICK q : q = Free
  OBVIOUS
<1>7. map' = q /\ Got(w, q) /\ heap'[q] = DefaultPeer
  BY <1>3, <1>4, <1>6, ZenonT(40)
<1>8. Matches'
  BY <1>1, <1>5, <1>7, ZenonT(40) DEF Matches
<1> QED BY <1>7, <1>8, SoloGot, ZenonT(40)

LEMMA SoloWriteMemory ==
    ASSUME TypeInv, GuidInv, NEW w \in Worker, Solo(w), WriteMemory(w)
    PROVE  Solo(w)'
<1>1. pc[w] = "memory" /\ pc[w] \in Holding /\ UNCHANGED <<map, db>>
  BY Zenon DEF WriteMemory, Holding, Registering
<1>2. /\ peer[w] = map /\ map \in Ref /\ map # None /\ Matches
      /\ heap[map].uuid # None => msg[w].uuid = heap[map].uuid
      /\ heap[map] = [f \in Fields |-> heap[map][f]]
  BY <1>1, HoldsOne, ZenonT(40) DEF Solo, Fits
<1> DEFINE d == [heap[map] EXCEPT !.uuid = msg[w].uuid, !.pk = msg[w].pk, !.ip = msg[w].ip,
                                  !.addr = msg[w].ip, !.online = TRUE]
<1>3. heap'[map] = d
  <2>1. heap' = [heap EXCEPT ![peer[w]] =
                    [heap[peer[w]] EXCEPT !.uuid = msg[w].uuid, !.pk = msg[w].pk, !.ip = msg[w].ip,
                                          !.addr = msg[w].ip, !.online = TRUE]]
    BY <1>2, ZenonT(40) DEF WriteMemory, TypeInv, StoreOK
  <2> QED BY <1>2, <2>1, ZenonT(40) DEF TypeInv, StoreOK
<1>4. /\ d.uuid = msg[w].uuid /\ d.pk = msg[w].pk /\ d.ip = msg[w].ip
      /\ d.guid = heap[map].guid
  BY <1>2, ZenonT(40) DEF Fields
<1> HIDE DEF d
<1>5. Moves(w, "table", peer[w], msg[w], row[w], heap[peer[w]].guid)
  BY Unmoved, ZenonT(40) DEF WriteMemory, Moves, Goto
<1>6. PICK q, m, x, g : q = map /\ m = msg[w] /\ x = row[w] /\ g = heap[map].guid
  BY Zenon
<1>7. Moves(w, "table", q, m, x, g)
  BY <1>2, <1>5, <1>6, ZenonT(40)
<1>8. RowOf(heap[map])' = RowOf(m)
  BY <1>1, <1>3, <1>4, <1>6, ZenonT(40) DEF RowOf
<1>9. \/ heap[map].uuid # None /\ heap[map].guid /\ db = RowOf(heap[map])
      \/ ~ heap[map].guid /\ db = None
  BY <1>2, ZenonT(40) DEF Matches
<1>10. ASSUME heap[map].uuid # None, heap[map].guid, db = RowOf(heap[map])
       PROVE  g /\ heap'[map].guid /\ db # None /\ db.uuid = m.uuid
  <2>1. db # None
    BY <1>2, <1>10, ZenonT(40) DEF GuidInv, Held
  <2>2. db.uuid = heap[map].uuid
    BY <1>10, ZenonT(40) DEF RowOf
  <2>3. db.uuid = m.uuid
    BY <1>2, <1>6, <1>10, <2>2, ZenonT(40)
  <2>4. g /\ heap'[map].guid
    BY <1>3, <1>4, <1>6, <1>10, ZenonT(40)
  <2> QED BY <2>1, <2>3, <2>4, ZenonT(40)
<1>11. \/ g /\ heap'[map].guid /\ db # None /\ db.uuid = m.uuid
       \/ ~ g /\ db = None
  BY <1>6, <1>9, <1>10, ZenonT(40)
<1>12. Fits("table", q, m, x, g)'
  BY <1>1, <1>6, <1>8, <1>11, ZenonT(40) DEF Fits, Matches
<1> QED BY <1>7, <1>12, SoloMoves, ZenonT(40)

LEMMA SoloWriteTable ==
    ASSUME TypeInv, ~ DbFaults, NEW w \in Worker, Solo(w), WriteTable(w)
    PROVE  Solo(w)' /\ (pc'[w] = "idle" => db' # None /\ db' = RowOf(msg[w]))
<1>1. /\ pc[w] = "table" /\ pc[w] \in Holding /\ pc[w] \in Registering /\ UNCHANGED <<heap, map>>
  BY Zenon DEF WriteTable, Holding, Registering
<1>2. /\ peer[w] = map /\ map \in Ref /\ map # None /\ IsMsg(msg[w])
      /\ RowOf(heap[map]) = RowOf(msg[w])
      /\ \/ guid[w] /\ heap[map].guid /\ db # None /\ db.uuid = msg[w].uuid
         \/ ~ guid[w] /\ db = None
  BY <1>1, HoldsOne, ZenonT(40) DEF Solo, Fits
<1>3. CASE ~ guid[w] /\ db = None /\ db' = RowOf(msg[w]) /\ Goto(w, "guid") /\ UNCHANGED locals
  <2>1. Moves(w, "guid", peer[w], msg[w], row[w], guid[w])
    BY <1>3, Unmoved DEF Moves, Goto, locals
  <2>2. PICK q, m, x, g : q = map /\ m = msg[w] /\ x = row[w] /\ g = guid[w]
    BY Zenon
  <2>3. Moves(w, "guid", q, m, x, g)
    BY <1>2, <2>1, <2>2, ZenonT(40)
  <2>4. RowOf(heap[map])' = RowOf(m) /\ db' = RowOf(m)
    BY <1>1, <1>2, <1>3, <2>2, ZenonT(40) DEF RowOf
  <2>5. Fits("guid", q, m, x, g)'
    BY <1>1, <2>2, <2>4, ZenonT(40) DEF Fits
  <2>6. pc'[w] = "guid"
    BY <2>3, Tasks, ZenonT(40)
  <2> QED BY <2>3, <2>5, <2>6, SoloMoves, ZenonT(40)
<1>4. CASE guid[w] /\ db' = update_pk(msg[w]) /\ Finish(w)
  <2>1. db \in Rows /\ db.uuid = msg[w].uuid /\ heap[map].guid
    BY <1>2, <1>4, ZenonT(40) DEF TypeInv, StoreOK
  <2>2. db' = RowOf(msg[w])
    <3>1. msg[w].pk \in Pk /\ msg[w].ip \in Ip
      BY <1>2, ZenonT(40) DEF IsMsg, RowOf, Rows
    <3>2. /\ db' \in Rows /\ db'.uuid = db.uuid /\ db'.pk = msg[w].pk /\ db'.ip = msg[w].ip
      BY <1>4, <2>1, <3>1, ZenonT(40) DEF update_pk, Rows
    <3> QED BY <2>1, <3>2, ZenonT(40) DEF RowOf, Rows
  <2>3. db' # None /\ heap[map].uuid # None
    <3>1. db' \in Rows /\ db'.uuid = heap[map].uuid
      BY <1>2, <2>2, ZenonT(40) DEF IsMsg, RowOf
    <3> QED BY <3>1, UuidIsNone
  <2>4. Matches'
    BY <1>1, <1>2, <2>1, <2>2, <2>3, ZenonT(40) DEF Matches, RowOf
  <2> QED BY <1>4, <2>2, <2>3, <2>4, SoloDone, ZenonT(40)
<1> QED BY <1>2, <1>3, <1>4, ZenonT(40) DEF WriteTable

LEMMA SoloWriteGuid ==
    ASSUME TypeInv, NEW w \in Worker, Solo(w), WriteGuid(w)
    PROVE  Solo(w)' /\ db' # None /\ db' = RowOf(msg[w])
<1>1. /\ pc[w] = "guid" /\ pc[w] \in Holding /\ pc[w] \in Registering /\ UNCHANGED <<map, db>>
      /\ Finish(w)
  BY DEF WriteGuid, Holding, Registering
<1>2. /\ peer[w] = map /\ map \in Ref /\ map # None /\ IsMsg(msg[w])
      /\ heap[map] = [f \in Fields |-> heap[map][f]]
      /\ RowOf(heap[map]) = RowOf(msg[w]) /\ db = RowOf(msg[w])
  BY <1>1, HoldsOne, ZenonT(40) DEF Solo, Fits
<1> DEFINE d == [heap[map] EXCEPT !.guid = TRUE]
<1>3. heap'[map] = d
  <2>1. heap' = [heap EXCEPT ![peer[w]] = [heap[peer[w]] EXCEPT !.guid = TRUE]]
    BY <1>2 DEF WriteGuid, TypeInv, StoreOK
  <2> QED BY <1>2, <2>1, ZenonT(40) DEF TypeInv, StoreOK
<1>4. d.uuid = heap[map].uuid /\ d.pk = heap[map].pk /\ d.ip = heap[map].ip /\ d.guid = TRUE
  BY <1>2, ZenonT(40) DEF Fields
<1> HIDE DEF d
<1>5. RowOf(heap[map])' = RowOf(heap[map])
  BY <1>1, <1>3, <1>4, ZenonT(40) DEF RowOf
<1>6. db # None /\ heap[map].uuid # None
  <2>1. db \in Rows /\ db.uuid = heap[map].uuid
    BY <1>2 DEF IsMsg, RowOf
  <2> QED BY <2>1, UuidIsNone, ZenonT(40)
<1>7. heap'[map].uuid # None /\ heap'[map].guid
  BY <1>3, <1>4, <1>6, ZenonT(40)
<1>8. Matches'
  BY <1>1, <1>2, <1>5, <1>7, ZenonT(40) DEF Matches
<1> QED BY <1>1, <1>2, <1>6, <1>8, SoloDone, ZenonT(40)

(* The other tasks do nothing.                                             *)
LEMMA SoloStep ==
    ASSUME TypeInv, GuidInv, ~ DbFaults, NEW w \in Worker, traffic.tasks = {w}, Solo(w),
           NEW v \in Worker, Step(v) \/ (v \in traffic.tasks /\ Receive(v))
    PROVE  v = w /\ Solo(w)'
<1>1. v = w
  <2>1. Step(v) => pc[v] # "idle"
    BY ZenonT(40) DEF Step, MapRead, DbRead, MapInsert, GetOr, Check, RateRead, RateWrite, WriteMemory,
                 WriteTable, WriteGuid, UpdateAddr
  <2> QED BY <2>1, ZenonT(40) DEF Solo
<1>2. CASE Receive(w) \/ MapRead(w) \/ DbRead(w) \/ Check(w) \/ RateRead(w) \/ RateWrite(w) \/ UpdateAddr(w)
  <2>1. SomeQuiet(w)
    BY <1>2, QuietReceive, QuietMapRead, QuietDbRead, QuietCheck, QuietRateRead,
       QuietRateWrite, QuietUpdateAddr, ZenonT(40)
  <2> QED BY <1>1, <2>1, SoloQuiet, ZenonT(40)
<1>3. CASE MapInsert(w) \/ GetOr(w) \/ WriteMemory(w) \/ WriteTable(w) \/ WriteGuid(w)
  BY <1>1, <1>3, SoloMapInsert, SoloGetOr, SoloWriteMemory, SoloWriteTable, SoloWriteGuid, ZenonT(40)
<1> QED BY <1>1, <1>2, <1>3, ZenonT(40) DEF Step

LEMMA SoloTime ==
    ASSUME TypeInv, NEW w \in Worker, Solo(w), WritesElse, UNCHANGED <<map, db, pc, msg, peer, row, guid>>
    PROVE  Solo(w)'
<1>1. /\ map # None => /\ RowOf(heap[map])' = RowOf(heap[map]) /\ heap'[map].uuid = heap[map].uuid
                       /\ heap'[map].guid = heap[map].guid
      /\ Matches <=> Matches'
  BY RowsKept, Zenon
<1>2. pc[w] \in {"rate", "count", "memory", "table", "guid"} => map # None
  BY DEF TypeInv, TaskOK, Holding, Registering
<1>3. PICK l, p, m, x, g : l = pc[w] /\ p = peer[w] /\ m = msg[w] /\ x = row[w] /\ g = guid[w]
  BY Zenon
<1>4. Fits(l, p, m, x, g) /\ UNCHANGED <<map, db>>
  BY <1>3, ZenonT(40) DEF Solo
<1>5. l \in {"rate", "count", "memory", "table", "guid"} => map # None
  BY <1>2, <1>3, ZenonT(40)
<1>6. Fits(l, p, m, x, g)'
  <2>1. l \in {"rate", "count", "memory"} /\ heap'[map'].uuid # None => m.uuid = heap'[map'].uuid
    BY <1>1, <1>4, <1>5, ZenonT(40) DEF Fits
  <2>2. l = "table" => /\ RowOf(heap[map])' = RowOf(m)
                       /\ \/ g /\ heap'[map].guid /\ db # None /\ db.uuid = m.uuid
                          \/ ~ g /\ db = None
    <3> SUFFICES ASSUME l = "table"
                 PROVE  /\ RowOf(heap[map])' = RowOf(m)
                        /\ \/ g /\ heap'[map].guid /\ db # None /\ db.uuid = m.uuid
                           \/ ~ g /\ db = None
      OBVIOUS
    <3>1. map # None
      BY <1>5, ZenonT(40)
    <3> QED BY <1>1, <1>4, <3>1, ZenonT(40) DEF Fits
  <2>3. l = "guid" => RowOf(heap[map])' = RowOf(m) /\ db' = RowOf(m)
    BY <1>1, <1>4, <1>5, ZenonT(40) DEF Fits
  <2>4. l \notin {"table", "guid"} => Matches'
    BY <1>1, <1>4, ZenonT(40) DEF Fits
  <2>5. /\ l \in Holding => p = map'
        /\ l \in {"db", "insert", "or"} => map' = None
        /\ l = "insert" => x = db'
        /\ l = "or" => db' = None
    BY <1>4 DEF Fits
  <2> QED BY <1>4, <2>1, <2>2, <2>3, <2>4, <2>5, ZenonT(40) DEF Fits
<1>7. Fits(pc[w], peer[w], msg[w], row[w], guid[w])'
  BY <1>3, <1>6, ZenonT(40) DEF Fits, Matches, RowOf
<1> QED BY <1>7 DEF Solo

LEMMA SoloInvariant == NoDbFaults => (Spec => []SoloInv)
<1> SUFFICES ASSUME NoDbFaults PROVE Spec => []SoloInv
  BY Zenon
<1>1. Init => SoloInv
  <2> SUFFICES ASSUME Init, NEW w \in Worker PROVE Solo(w)
    BY Zenon DEF SoloInv
  <2>1. map = None /\ \A v \in Worker : pc[v] = "idle"
    BY DEF Init
  <2> QED BY <2>1, ZenonT(40) DEF Solo, Fits, Matches, Holding, Registering
<1>2. RegistryInv /\ SoloInv /\ [Next]_<<vars, scene>> => SoloInv'
  <2> SUFFICES ASSUME RegistryInv, SoloInv, [Next]_<<vars, scene>>,
                      NEW w \in Worker, traffic'.tasks = {w}
               PROVE  Solo(w)'
    BY DEF SoloInv
  <2>0. TypeInv /\ GuidInv /\ ~ DbFaults
    BY ZenonT(40) DEF RegistryInv, NoDbFaults
  <2>1. traffic' = traffic
    BY DEF Next, Restart, scene
  <2>2. Solo(w) /\ traffic.tasks = {w}
    BY <2>1 DEF SoloInv
  <2>3. ASSUME NEW v \in Worker, Step(v) \/ (v \in traffic.tasks /\ Receive(v)) PROVE Solo(w)'
    BY <2>0, <2>2, <2>3, SoloStep, ZenonT(40)
  <2>4. ASSUME NEW q \in Ref, TimePasses(q) PROVE Solo(w)'
    <3>1. UNCHANGED <<map, db, pc, msg, peer, row, guid>>
      BY <2>4 DEF TimePasses, locals
    <3>2. WritesElse
      BY <2>0, <2>4, TimeWrites, ZenonT(40) DEF TypeInv
    <3> QED BY <2>0, <2>2, <3>1, <3>2, SoloTime, ZenonT(40)
  <2>5. CASE Restart
    <3>1. map' = None /\ \A v \in Worker : pc'[v] = "idle"
      BY <2>5 DEF Restart
    <3> QED BY <3>1 DEF Solo, Fits, Matches, Holding, Registering
  <2>6. CASE UNCHANGED <<vars, scene>>
    <3>1. UNCHANGED <<heap, map, db, pc, msg, peer, row, guid>>
      BY <2>6, ZenonT(40) DEF vars
    <3> QED BY <2>0, <2>2, <3>1, UnchangedWrites, SoloTime, ZenonT(40) DEF TypeInv
  <2> QED BY <2>2, <2>3, <2>4, <2>5, <2>6, ZenonT(40) DEF Next
<1> QED BY <1>1, <1>2, RegistryInvariant, PTL DEF Spec

(* Messages that are handled one at a time are handled by one task.        *)
LEMMA OneTask ==
    ASSUME TypeInv, OneByOne
    PROVE  \E w \in Worker : traffic.tasks = {w}
<1>1. traffic.tasks \subseteq Worker /\ IsFiniteSet(Worker)
  BY RegistryAssumption DEF TypeInv
<1>2. IsFiniteSet(traffic.tasks) /\ Cardinality(traffic.tasks) = 1
  BY <1>1, FS_Subset DEF OneByOne
<1>3. \E w : traffic.tasks = {w}
  BY <1>2, FS_Singleton, ZenonT(40)
<1> QED BY <1>1, <1>3

(* Between two messages the Peer in memory is what its row says, whatever  *)
(* was registered, refused and looked up before and wherever hbbs was      *)
(* stopped, if one task handles the messages.                              *)
THEOREM MemoryMatchesTableHolds == NoDbFaults => (Spec => []MemoryMatchesTable)
<1>1. RegistryInv /\ SoloInv => MemoryMatchesTable
  <2> SUFFICES ASSUME RegistryInv, SoloInv, OneByOne, \A w \in Worker : pc[w] = "idle",
                      map # None, heap[map].uuid # None
               PROVE  heap[map].guid /\ db = RowOf(heap[map])
    BY DEF MemoryMatchesTable
  <2>1. PICK w \in Worker : traffic.tasks = {w}
    BY OneTask DEF RegistryInv
  <2>2. Solo(w) /\ pc[w] = "idle"
    BY <2>1, ZenonT(40) DEF SoloInv
  <2>3. Matches
    BY <2>2 DEF Solo, Fits
  <2> QED BY <2>3, ZenonT(40) DEF Matches
<1> QED BY <1>1, RegistryInvariant, SoloInvariant, PTL

(* A registration that goes through update_pk and is answered OK is in the *)
(* table then, if one task handles the messages.                           *)
THEOREM OkIsRecordedHolds == NoDbFaults => (Spec => OkIsRecorded)
<1> SUFFICES ASSUME NoDbFaults PROVE Spec => OkIsRecorded
  BY ZenonT(40)
<1> DEFINE Recorded(w) ==
        OneByOne /\ pc[w] \in {"table", "guid"} /\ pc'[w] = "idle" /\ map' # None =>
            /\ db' # None
            /\ db'.uuid = msg[w].uuid /\ db'.pk = msg[w].pk
<1>1. RegistryInv /\ SoloInv /\ [Next]_<<vars, scene>> => [\A w \in Worker : Recorded(w)]_vars
  <2> SUFFICES ASSUME RegistryInv, SoloInv, Next, NEW w \in Worker, OneByOne,
                      pc[w] \in {"table", "guid"}, pc'[w] = "idle", map' # None
               PROVE  db' # None /\ db'.uuid = msg[w].uuid /\ db'.pk = msg[w].pk
    BY Zenon DEF vars
  <2>0. TypeInv /\ GuidInv /\ ~ DbFaults
    BY DEF RegistryInv, NoDbFaults
  <2>1. PICK u \in Worker : traffic.tasks = {u}
    BY <2>0, OneTask, ZenonT(40)
  <2>2. u = w /\ Solo(w)
    BY <2>1 DEF SoloInv, Solo
  <2>3. ~ Restart /\ ~ \E q \in Ref : TimePasses(q)
    BY DEF Restart, TimePasses
  <2>4. \A v \in traffic.tasks : v = w /\ ~ Receive(v)
    BY <2>1, <2>2, ZenonT(40) DEF Receive, Lookup, RecvRegisterPk, RecvRegisterPeer
  <2>5. PICK v \in Worker : Step(v)
    BY <2>3, <2>4, ZenonT(40) DEF Next
  <2>6. Step(w)
    BY <2>0, <2>1, <2>2, <2>5, SoloStep, ZenonT(40)
  <2>7. WriteTable(w) \/ WriteGuid(w)
    BY <2>6, ZenonT(40) DEF Step, MapRead, DbRead, MapInsert, GetOr, Check, RateRead, RateWrite,
                       WriteMemory, UpdateAddr
  <2>8. db' # None /\ db' = RowOf(msg[w])
    BY <2>0, <2>2, <2>7, SoloWriteTable, SoloWriteGuid, ZenonT(40)
  <2> QED BY <2>8 DEF RowOf
<1> QED BY <1>1, RegistryInvariant, SoloInvariant, PTL DEF Spec, OkIsRecorded
=============================================================================

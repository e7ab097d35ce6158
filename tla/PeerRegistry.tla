---------------------------- MODULE PeerRegistry ----------------------------
(***************************************************************************)
(* The peer registry of hbbs: PeerMap (src/peer.rs), the table it caches   *)
(* (src/database.rs) and the handlers of src/rendezvous_server.rs that     *)
(* read and write it: RegisterPk, RegisterPeer and the lookup of a peer.   *)
(*                                                                         *)
(* The module follows one peer id.  Different ids share only locks: every  *)
(* access names its id, and the table has one row per id.  A Peer is       *)
(* shared by reference (Arc<RwLock<Peer>>), so it may be in use by a task  *)
(* after the map holds another one.  The UDP loop is one worker, each TCP  *)
(* or websocket connection is another; a step of a worker is what it does  *)
(* under one lock or in one query.                                         *)
(*                                                                         *)
(* Left out: check_ip_blocker, which may refuse a RegisterPk before any of *)
(* this, the IP_CHANGES statistics, and ids of the wrong length.           *)
(***************************************************************************)
EXTENDS Naturals, FiniteSets

CONSTANTS Worker,
          Ref,        \* references to Peer objects; one more than workers
          Uuid, Pk, Ip,
          Loopback,   \* the addresses of Ip for which is_loopback holds
          None,       \* an empty uuid, pk, address or reference, or no row
          Traffic,    \* what may arrive, and at which workers; each behaviour
                      \* has one of these
          DbFaults    \* may a query fail?

ASSUME RegistryAssumption ==
    /\ \A S \in {Ref, Uuid, Pk, Ip} : None \notin S
    /\ Loopback \subseteq Ip
    /\ \A t \in Traffic :
          /\ t.tasks \subseteq Worker /\ t.ips \subseteq Ip
          /\ t.pks \subseteq [uuid : Uuid, pk : Pk, ip : Ip, ws : BOOLEAN]
    /\ None \notin [uuid : Uuid, pk : Pk, ip : Ip]
    /\ IsFiniteSet(Worker) /\ IsFiniteSet(Ref) /\ Cardinality(Ref) > Cardinality(Worker)
    /\ DbFaults \in BOOLEAN

VARIABLES
    heap,   \* heap[r]: the Peer at r
    map,    \* PeerMap.map: the reference held for the id
    db,     \* the row of the id in the peer table
    pc,     \* pc[w]: the next step of w
    msg,    \* msg[w]: the message w handles (None for a lookup)
    peer,   \* peer[w]: the Peer w holds
    row,    \* row[w]: the row w has read
    cnt,    \* cnt[w]: w's copy of reg_pk.0
    guid,   \* guid[w]: w's copy of "the Peer has a guid"
    traffic,\* [tasks, pks, ips]: the workers that are sent messages, and the
            \* RegisterPk and the addresses of RegisterPeer they are sent
    known   \* history: the id was in the table when hbbs was last started

vars == <<heap, map, db, pc, msg, peer, row, cnt, guid>>
locals == <<msg, peer, row, cnt, guid>>
scene == <<traffic, known>>

(* A Peer that get_or has just made.                                       *)
DefaultPeer == [uuid |-> None, pk |-> None,
                ip |-> None,        \* info.ip
                addr |-> None,      \* socket_addr
                online |-> FALSE,   \* last_reg_time is within REG_TIMEOUT
                guid |-> FALSE,     \* guid is not empty
                reg |-> 0,          \* reg_pk.0
                recent |-> FALSE]   \* reg_pk.1 is at most 6 s ago

(* The row of the table that a message or a Peer would have: info, a JSON  *)
(* text, holds the address alone.                                          *)
RowOf(m) == [uuid |-> m.uuid, pk |-> m.pk, ip |-> m.ip]

(* What PeerMap::get makes of a row.                                       *)
PeerOfRow(r) == [DefaultPeer EXCEPT !.uuid = r.uuid, !.pk = r.pk, !.ip = r.ip,
                                    !.guid = TRUE]

Init ==
    /\ heap = [r \in Ref |-> DefaultPeer]
    /\ map = None
    /\ traffic \in Traffic
    /\ db \in {None} \union {RowOf(m) : m \in traffic.pks}
    /\ known = (db # None)
    /\ pc = [w \in Worker |-> "idle"]
    /\ msg = [w \in Worker |-> None]
    /\ peer = [w \in Worker |-> None]
    /\ row = [w \in Worker |-> None]
    /\ cnt = [w \in Worker |-> 0]
    /\ guid = [w \in Worker |-> FALSE]

Goto(w, l) == pc' = [pc EXCEPT ![w] = l]

(***************************************************************************)
(* References.  A Peer that neither the map nor a worker holds is freed;   *)
(* an allocation takes any free reference.                                 *)
(***************************************************************************)
Held(r) == r = map \/ \E w \in Worker : peer[w] = r

Free == CHOOSE r \in Ref : ~ Held(r)

(* The worker is done: it lets go of the Peer and everything it read.      *)
Finish(w) ==
    /\ Goto(w, "idle")
    /\ msg' = [msg EXCEPT ![w] = None]
    /\ peer' = [peer EXCEPT ![w] = None]
    /\ row' = [row EXCEPT ![w] = None]
    /\ cnt' = [cnt EXCEPT ![w] = 0]
    /\ guid' = [guid EXCEPT ![w] = FALSE]

(* PeerMap::get has found p: the lookup reads it and is done, while        *)
(* handle_register_pk goes on to its checks.                               *)
Got(w, p) ==
    IF msg[w] = None THEN Finish(w)
    ELSE /\ peer' = [peer EXCEPT ![w] = p]
         /\ row' = [row EXCEPT ![w] = None]
         /\ Goto(w, "check")
         /\ UNCHANGED <<msg, cnt, guid>>

(* handle_punch_hole_request or get_pk looks the id up.                    *)
Lookup(w) ==
    /\ pc[w] = "idle"
    /\ Goto(w, "map")
    /\ UNCHANGED <<heap, map, db, locals>>

(* handle_register_pk, past the checks on the message itself.              *)
RecvRegisterPk(w, m) ==
    /\ pc[w] = "idle"
    /\ msg' = [msg EXCEPT ![w] = m]
    /\ Goto(w, "map")
    /\ UNCHANGED <<heap, map, db, peer, row, cnt, guid>>

(* PeerMap::get: the map is read ...                                       *)
MapRead(w) ==
    /\ pc[w] = "map"
    /\ \/ map # None /\ Got(w, map)
       \/ map = None /\ Goto(w, "db") /\ UNCHANGED locals
    /\ UNCHANGED <<heap, map, db>>

(***************************************************************************)
(* ... then the table; a failed query counts as "no row", after which      *)
(* handle_register_pk goes on in get_or.                                   *)
(***************************************************************************)
DbRead(w) ==
    /\ pc[w] = "db"
    /\ \/ /\ db # None
          /\ row' = [row EXCEPT ![w] = db]
          /\ Goto(w, "insert")
          /\ UNCHANGED <<msg, peer, cnt, guid>>
       \/ /\ db = None \/ DbFaults
          /\ IF msg[w] = None THEN Finish(w) ELSE Goto(w, "or") /\ UNCHANGED locals
    /\ UNCHANGED <<heap, map, db>>

(* ... and the row goes into the map, whatever the map holds by now.       *)
MapInsert(w) ==
    /\ pc[w] = "insert"
    /\ heap' = [heap EXCEPT ![Free] = PeerOfRow(row[w])]
    /\ map' = Free
    /\ Got(w, Free)
    /\ UNCHANGED db

(* get_or: under the write lock, take what is there or put a new Peer.     *)
GetOr(w) ==
    /\ pc[w] = "or"
    /\ \/ map # None /\ Got(w, map) /\ UNCHANGED <<heap, map>>
       \/ /\ map = None
          /\ heap' = [heap EXCEPT ![Free] = DefaultPeer]
          /\ map' = Free
          /\ Got(w, Free)
    /\ UNCHANGED db

(* Faulty variant: the uuid is not compared.                               *)
RefusedAnyUuid(p, m) == p.uuid # None /\ p.ip # m.ip /\ p.pk # m.pk

(***************************************************************************)
(* handle_register_pk: an id belongs to the machine whose uuid it has, and *)
(* that machine may change its address or its key, but not both at once.   *)
(***************************************************************************)
Refused(p, m) == p.uuid # None /\ (p.uuid # m.uuid \/ (p.ip # m.ip /\ p.pk # m.pk))

Changed(p, m) == p.uuid # m.uuid \/ p.pk # m.pk \/ p.ip # m.ip

(* Under the read lock: refuse, or note whether anything changed (in ws,   *)
(* since "changed || ws" is all that is asked of either from here on).     *)
Check(w) ==
    /\ pc[w] = "check"
    /\ LET p == heap[peer[w]] IN
       \/ Refused(p, msg[w]) /\ Finish(w)
       \/ /\ ~ Refused(p, msg[w])
          /\ msg' = [msg EXCEPT ![w].ws = @ \/ Changed(p, msg[w])]
          /\ Goto(w, "rate")
          /\ UNCHANGED <<peer, row, cnt, guid>>
    /\ UNCHANGED <<heap, map, db>>

(* reg_pk is copied; more than three within 6 s of each other are refused. *)
RateRead(w) ==
    /\ pc[w] = "rate"
    /\ LET p == heap[peer[w]] IN
       \/ p.recent /\ p.reg > 2 /\ Finish(w)
       \/ /\ ~ (p.recent /\ p.reg > 2)
          /\ cnt' = [cnt EXCEPT ![w] = IF p.recent THEN p.reg ELSE 0]
          /\ Goto(w, "count")
          /\ UNCHANGED <<msg, peer, row, guid>>
    /\ UNCHANGED <<heap, map, db>>

(* The copy is written back; then the registration is recorded if it       *)
(* changed anything or came over a websocket, else the answer is OK.       *)
RateWrite(w) ==
    /\ pc[w] = "count"
    /\ heap' = [heap EXCEPT ![peer[w]].reg = cnt[w] + 1, ![peer[w]].recent = TRUE]
    /\ IF msg[w].ws
       THEN /\ cnt' = [cnt EXCEPT ![w] = 0]
            /\ Goto(w, "memory")
            /\ UNCHANGED <<msg, peer, row, guid>>
       ELSE Finish(w)
    /\ UNCHANGED <<map, db>>

(* update_pk: the Peer is written, and whether it has a guid is copied.    *)
WriteMemory(w) ==
    /\ pc[w] = "memory"
    /\ heap' = [heap EXCEPT ![peer[w]].uuid = msg[w].uuid, ![peer[w]].pk = msg[w].pk,
                            ![peer[w]].ip = msg[w].ip, ![peer[w]].addr = msg[w].ip,
                            ![peer[w]].online = TRUE]
    /\ guid' = [guid EXCEPT ![w] = heap[peer[w]].guid]
    /\ Goto(w, "table")
    /\ UNCHANGED <<map, db, msg, peer, row, cnt>>

(* Faulty variant: the update leaves the info column alone.                *)
WriteTableKeepsInfo(w) ==
    /\ pc[w] = "table"
    /\ \/ /\ ~ guid[w] /\ db = None
          /\ db' = RowOf(msg[w])
          /\ Goto(w, "guid")
          /\ UNCHANGED locals
       \/ guid[w] /\ db' = [db EXCEPT !.pk = msg[w].pk] /\ Finish(w)
       \/ ~ guid[w] /\ db # None /\ UNCHANGED db /\ Finish(w)
    /\ UNCHANGED <<heap, map>>

(* Faulty variant: a Peer with a guid is not written to the table again.   *)
WriteTableOnce(w) ==
    /\ pc[w] = "table"
    /\ \/ /\ ~ guid[w] /\ db = None
          /\ db' = RowOf(msg[w])
          /\ Goto(w, "guid")
          /\ UNCHANGED locals
       \/ db # None /\ UNCHANGED db /\ Finish(w)
    /\ UNCHANGED <<heap, map>>

(* Database::update_pk sets the pk and the info of a row, never its uuid.  *)
update_pk(m) == [db EXCEPT !.pk = m.pk, !.ip = m.ip]

(***************************************************************************)
(* PeerMap::update_pk: the row is inserted, which fails if the id has one  *)
(* (id is unique), or it is updated.  A failure is returned as             *)
(* SERVER_ERROR, which handle_register_pk drops: the client is told OK.    *)
(***************************************************************************)
WriteTable(w) ==
    /\ pc[w] = "table"
    /\ \/ /\ ~ guid[w] /\ db = None
          /\ db' = RowOf(msg[w])
          /\ Goto(w, "guid")
          /\ UNCHANGED locals
       \/ /\ guid[w]
          /\ db' = update_pk(msg[w])
          /\ Finish(w)
       \/ /\ (~ guid[w] /\ db # None) \/ DbFaults
          /\ UNCHANGED db
          /\ Finish(w)
    /\ UNCHANGED <<heap, map>>

(* Faulty variant: the guid that insert_peer returns is dropped.           *)
WriteGuidNot(w) ==
    /\ pc[w] = "guid"
    /\ Finish(w)
    /\ UNCHANGED <<heap, map, db>>

(* update_pk: the Peer learns the guid of the row it was given.            *)
WriteGuid(w) ==
    /\ pc[w] = "guid"
    /\ heap' = [heap EXCEPT ![peer[w]].guid = TRUE]
    /\ Finish(w)
    /\ UNCHANGED <<map, db>>

(***************************************************************************)
(* RegisterPeer, the heartbeat: get_in_memory, which never looks at the    *)
(* table.  An unknown id is asked for its key.                             *)
(***************************************************************************)
RecvRegisterPeer(w, i) ==
    /\ pc[w] = "idle" /\ map # None
    /\ msg' = [msg EXCEPT ![w] = i]
    /\ peer' = [peer EXCEPT ![w] = map]
    /\ Goto(w, "addr")
    /\ UNCHANGED <<heap, map, db, row, cnt, guid>>

(* A heartbeat from hbbs's own machine never counts as a change.           *)
IpChange(p, i) == i # (IF p.addr # None THEN p.addr ELSE p.ip) /\ i \notin Loopback

(* update_addr: does the heartbeat need a RegisterPk to follow it?         *)
RequestPk(p, i) == p.pk = None \/ IpChange(p, i)

(* Faulty variant: the time is taken, the address is not.                  *)
UpdateAddrTimeOnly(w) ==
    /\ pc[w] = "addr"
    /\ heap' = IF RequestPk(heap[peer[w]], msg[w]) THEN heap
               ELSE [heap EXCEPT ![peer[w]].online = TRUE]
    /\ Finish(w)
    /\ UNCHANGED <<map, db>>

(* update_addr: under the write lock, take the address and the time, or    *)
(* ask the client for its key.                                             *)
UpdateAddr(w) ==
    /\ pc[w] = "addr"
    /\ heap' = IF RequestPk(heap[peer[w]], msg[w]) THEN heap
               ELSE [heap EXCEPT ![peer[w]].addr = msg[w], ![peer[w]].online = TRUE]
    /\ Finish(w)
    /\ UNCHANGED <<map, db>>

(* Time: a Peer was not heard of for REG_TIMEOUT, or not registered for 6 s.*)
TimePasses(r) ==
    /\ Held(r)
    /\ \/ heap' = [heap EXCEPT ![r].online = FALSE]
       \/ heap' = [heap EXCEPT ![r].recent = FALSE]
    /\ UNCHANGED <<map, db, pc, locals>>

(* hbbs stops, at any point, and is started again: only the table is left. *)
Restart ==
    /\ heap' = [r \in Ref |-> DefaultPeer]
    /\ map' = None
    /\ pc' = [w \in Worker |-> "idle"]
    /\ msg' = [w \in Worker |-> None]
    /\ peer' = [w \in Worker |-> None]
    /\ row' = [w \in Worker |-> None]
    /\ cnt' = [w \in Worker |-> 0]
    /\ guid' = [w \in Worker |-> FALSE]
    /\ known' = (db # None)
    /\ UNCHANGED <<db, traffic>>

Step(w) ==
    \/ MapRead(w) \/ DbRead(w) \/ MapInsert(w) \/ GetOr(w) \/ Check(w)
    \/ RateRead(w) \/ RateWrite(w) \/ WriteMemory(w) \/ WriteTable(w)
    \/ WriteGuid(w) \/ UpdateAddr(w)

Receive(w) ==
    \/ Lookup(w)
    \/ \E m \in traffic.pks : RecvRegisterPk(w, m)
    \/ \E i \in traffic.ips : RecvRegisterPeer(w, i)

Next ==
    \/ /\ \/ \E w \in Worker : Step(w)
          \/ \E w \in traffic.tasks : Receive(w)
          \/ \E r \in Ref : TimePasses(r)
       /\ UNCHANGED scene
    \/ Restart

Spec == Init /\ [][Next]_<<vars, scene>>

-----------------------------------------------------------------------------
(* Messages are handled one at a time.                                     *)
OneByOne == Cardinality(traffic.tasks) = 1

(* With registrations handled one at a time, as the UDP loop does, and no  *)
(* failing query: between two messages the Peer in memory is what its row  *)
(* says, also after a restart in the middle of a registration.             *)
MemoryMatchesTable ==
    OneByOne /\ (\A w \in Worker : pc[w] = "idle") /\ map # None /\ heap[map].uuid # None =>
        LET p == heap[map] IN p.guid /\ db = RowOf(p)

(* handle_register_pk, "Validate and record a RegisterPk", has recorded it *)
(* once it has gone through update_pk and answers OK: if registrations are *)
(* handled one at a time and no query fails.                               *)
OkIsRecorded ==
    [][\A w \in Worker :
          OneByOne /\ pc[w] \in {"table", "guid"} /\ pc'[w] = "idle" /\ map' # None =>
              /\ db' # None
              /\ db'.uuid = msg[w].uuid /\ db'.pk = msg[w].pk]_vars

(* Once all registrations are through, however they interleaved, a Peer    *)
(* with an owner knows its row by its guid: else every later change of its *)
(* key would be an insert, which fails, and would never reach the table.   *)
GuidSettles ==
    (\A w \in Worker : pc[w] = "idle") /\ map # None /\ heap[map].uuid # None =>
        heap[map].guid /\ db # None

(* An id that is in the table when hbbs starts stays with the machine that *)
(* registered it: no Peer for it ever carries another uuid, however        *)
(* registrations and lookups interleave, and through restarts.             *)
OwnerKept == known => \A r \in Ref : Held(r) => db # None /\ heap[r].uuid = db.uuid
=============================================================================

# Verification of rustdesk-server

TLA+ models of the two servers of this repository and of the Windows UI above them, the
model-checking runs made on them and the theorems proved about them. Paths such as
`rendezvous_server.rs` are in `src/` of the repository; `PROJECT.json` lists, for every
definition that models code, the lines it stands for, and the hazards that led to the
properties.

## The system

Two RustDesk clients that want a session first find each other through **hbbs**, the
rendezvous server, and, if they cannot connect directly, send their traffic through
**hbbr**, the relay server.

| part | code | modules | state |
|---|---|---|---|
| hbbr: pairing and relaying | `relay_server.rs` | `Matchmaker`, `RelayPairing` | partly (no bandwidth limits); proved |
| hbbs: websocket peers | `rendezvous_server.rs` (`WsPeers`, `WsPeerGuard`, `handle_listener_inner`, `push_to_ws_peer`) | `WsPeers`, `WsIdle`, `Rendezvous` | modelled; proved |
| hbbs: TCP connections, key exchange, `tcp_punch` | `handle_tcp`, `handle_listener_inner`, `send_to_tcp` | `TcpPunch`, `Rendezvous` | partly (not which refusal is sent); proved |
| hbbs: punch request log | `record_punch_req` | `PunchLog`, `Rendezvous` | modelled; proved |
| hbbs: peer registry | `handle_register_pk`, `update_addr`, `peer.rs`, `database.rs` | `PeerRegistry`, `PeerHeartbeat` | partly (no IP_CHANGES statistics); safety proved |
| hbbs: limit on registrations | `check_ip_blocker` | `IpBlocker` | modelled; proved |
| hbbs: health of relays | `check_relay_servers`, `io_loop`, console | `RelayHealth` | modelled; safety proved |
| hbbs: choice of a relay | `relay_select.rs` | `RelaySelect` | modelled; proved |
| hbbs: routing table, relay locations | `relay_routes.rs`, `relay_geo.rs` | `RelayRoutes` | modelled; proved |
| hbbs: GeoIP reader | `reload_relay_geo`, `GeoDb::open` | `GeoReader` | modelled; proved |
| GeoIP updater | `geo_update.rs` | `GeoUpdate` | modelled; proved |
| keys | `gen_sk` of `common.rs` | `KeyFiles` | partly (not the reading of settings); proved |
| Windows UI | `ui/` | `Desktop` | partly (not the layout); safety proved |
| NAT test, online status | `rendezvous_server.rs` | | not modelled |
| start-up, listeners, recovery of the io loop | `rendezvous_server.rs`, `main.rs` | | not modelled |
| login tokens | `jwt.rs` | | not modelled |
| `rustdesk-utils doctor`, key commands | `utils.rs` | | not modelled |

How they interact: hbbs and hbbr make or load one **key** when they start. A client
keeps an entry in the **peer registry** by heartbeats over UDP, or over a websocket,
whose task is then found through **websocket peers**. A client that wants a session asks
over TCP or a websocket; hbbs looks the other client up in the registry, pushes the
question to it over UDP or its websocket, and keeps the route back in **tcp_punch** (or
`ws_peers`). The answer names a relay: **choice of a relay** picks it from the list that
**health of relays** maintains, using the **routing table** and the database that the
**GeoIP updater** installs and the **GeoIP reader** loads. Both clients then connect to
that relay and present the same uuid, by which **pairing** joins them.

## The modules

In all modules a step is what a task does between two points where others can
intervene: one critical section, one query, one system call, one message. Locks that
are released and taken again within a handler make several steps. Definitions marked
*Faulty variant* are plausible errors in the operation that follows them; no
specification uses them. Each property has one that breaks it, so that no property
holds whatever the code does.

**RelayPairing** (hbbr). One task per connection, `pc[c]` being its next step:
`Accept` (block list), the websocket handshake, which has no timeout,
`RecvRequest`/`GiveUp` (the first frame, or its 30 s timeout),
`TakePeer` and, if nobody waits, `InsertSelf` (two critical sections of `PEERS`),
`Expire` (the 30 s timer, which removes whatever waits under its uuid), `StartRelay`,
the loop of `relay` (`Frame`, `Sent`, `SendFails`, `TimerTick`, `StreamEnds`, all of
which end with `LoopEnd`, the bookkeeping and the look at the block list) and
`Cleanup`. A relay that writes reads nothing until the write is through: this is
`sendown`/`sendpeer`. A stream has one owner, and `closed` is what Rust's ownership
closes. **Matchmaker** says what a client may expect: it waits, is joined with one other
client of its session, and is closed with it.

**Rendezvous** (hbbs) composes three modules into a question and its answer. In
**WsPeers**, `ws_peers` maps an address to the connection serving it; `rx_ws[c]` is the
channel of connection `c`'s task. `Register` puts the connection in, `PushTo` sends to
whatever is there, `DropGuard` is `WsPeerGuard::drop` and `DropRx` the end of the
receiver after it. **TcpPunch** has the tasks of TCP connections, the key exchange, and
where the write half ("sink") of each connection is; a client may fall silent (`Silence`)
or reset its connection (`Reset`). **PunchLog** is the log. The
composition adds `PassOn` and `PassOnWs` (the question goes to the peer's websocket, or by
UDP), `Answer` (on a connection of the peer's own) and `SendToTcp` (`push_to_ws_peer`,
else the kept sink). `scene` fixes, for a behaviour, which connections are opened.

**WsIdle** is the clock of one websocket's task: how ping, idle timeout and pushes meet
in one `select!`. It shares no state with the others and is played in a scene of its own.

**PeerRegistry** (hbbs), for one id. `heap` holds `Arc<RwLock<Peer>>` objects, `map` the
one in the map, `db` the row. `handle_register_pk` is `MapRead`, `DbRead`, `MapInsert`
(of `PeerMap::get`), `GetOr`, `Check`, `RateRead`, `RateWrite`, `WriteMemory`,
`WriteTable`, `WriteGuid`. Lookups take the first three of these from any task.
`Restart` can come between any two steps. `traffic` fixes, for a behaviour, which tasks
receive messages and which. **PeerHeartbeat** adds a UDP client, taken from how
hbbs answers it.

**RelayRoutes** has the routing table and the relay locations as functions of their
texts: `parse` with all it refuses, `lookup`, `choose_from` as the loop it is; and what
the texts say when they are read directly (`MostSpecific`, `SaysOfOne`,
`FirstCheapest`), as the reference. **RelaySelect** (hbbs) has `pick` in its steps:
snapshot of the healthy list, preference, held choice ("pin"), routing table, geo
placement, rotation, holding of the choice; beside it `reload_if_changed`,
`use_relay_command` (which opens, and so empties, the file of the preference before it
writes it), expiry of pins, restart. `world` fixes, for a behaviour, the
addresses, lists and files that occur.

**RelayHealth** (hbbs). The configured list, the list handed out, checks that overlap,
and the channel that carries their results and the console's lists to the io loop.

**GeoUpdate**. `update` and `fetch_month`, one request or system call at a time.
**GeoReader** adds hbbs, which notices that the file changed, copies it, maps the copy
and puts it in force, and an operator who downloads onto the file in place. A database
has two parts, so that a copy or a download can be half done. `faults` fixes, for a
behaviour, what can fail or happens (`net`, `data`, `disk`, `kill`; `read`, `quit`,
`folder`, `overwrite`).

**IpBlocker**. `check_ip_blocker` for one address with its two counters, a clock, and
the console. It stands before the registry and shares no state with it.

**KeyFiles**. `gen_sk` of several processes that share the two key files, one system
call at a time; the processes may be killed and are started again. **Desktop** puts the
Windows UI above it: presenter, view and watcher with their two bounded channels, the
scripts that start and stop the services (which nobody waits for), and the page that
shows a log, whose readings may fail.

The modules named `MC...` give the constants values for TLC; those named `...Proofs`
hold the theorems.

## The runs

| run | module | what it shows |
|---|---|---|
| Pairing | MCRelayPairing | `PairingInv` (the invariant of the proofs); `PairingSound` (a stream that waits has a timer, a relay joins two streams of one session that are in no other, every open socket has an owner, USAGE lists running relays); `ImplementsMatchmaker`; `RelaysEnd`: as long as no relay is stuck in a write to a client that does not read, sockets of clients that are gone are closed, silent relays end, relays of blocked addresses end |
| Rendezvous | MCRendezvous | websockets: `PushesSound` (an entry leads to a channel that is open, and a message waits only in channels of the address it was pushed to; not that it is delivered), `OnlyOwnerRemoves` (a connection that ends leaves the entry of a reconnect alone), `GoneIsClosed`, `KeepsItsEntry` (a reconnect wins in the end); TCP: `SinkSound` (one writer, in the mode of the reader, and none left when the task has ended), `AskerHasRoute`, `SocketsClose` (a connection that was silent for 30 s, was left or was reset is closed); both: `QuestionAnswered` (what the peer was asked on its websocket is followed by a message on the way the question came); the log: `LogSound`; the clock of a websocket's task: `IdleTimeoutRight` (while nothing is pushed, a live client is not closed and a dead one is closed in time) |
| WsIdleUnpinged | WsIdle | *fails*: see Findings |
| Registry | MCPeerRegistry | `OwnerKept` and `GuidSettles` under any interleaving of two tasks; `MemoryMatchesTable` and `OkIsRecorded` for messages handled one at a time; the limit on registrations: `LimitsHold`, `BlockEnds` |
| IpBlockerDoc | IpBlocker | *fails*: see Findings |
| PeerHeartbeat | MCPeerHeartbeat | `EndsUpReachable`: a client that keeps sending ends up under its present address, and online, through moves, restarts, failing queries and concurrent lookups; unless it was at a loopback address and left it |
| Select | MCRelaySelect | `OneAnswer` for both ends, `AnswerIsHealthy`, `PreferredWins`, `PinsSound` (bounded, and current after a reload), `RoutesRight` (the answer is the first of the cheapest relays by the lines of the files), `ChoiceSurvives` (a restart keeps the preference, unless it comes in the middle of the command that changes it) |
| SelectUnlisted | MCRelaySelect | *fails*: see Findings |
| Health | MCRelayHealth | `LiveListSound` (in configured order, never empty), `ListSettles` although results of older checks arrive late |
| HealthRetired | MCRelayHealth | *fails*: see Findings |
| GeoUpdate | MCGeoUpdate | `DiskSound` (the file is whole and the record not ahead of it) with any failure or kill; `DownloadedOnce` and `KeptCurrent` if nothing fails; hbbs: `ReadsSound` (a database of one month; and once its time and length are seen and it is whole, the installed file is the one in use or being read), `OnlyLoadsChange`, `DbSettles` (in the end it uses the installed file) |
| Desktop | MCDesktop | `KeysSound` (two servers never serve with two keys, and a key file without contents has a writer or was torn by a kill), `KeyKept` (no key is overwritten), `KeysSettle` (every server that is wanted ends up serving), `WindowFollows` (what the window does not show of the service and of the chosen log is on its way to it or came to nothing in the page, and no reading of a log appears after another was chosen), `ViewSettles` (the window ends up showing the state of the service and the newest contents of the chosen log, if the page could read it) |

### Bounds

- *Pairing*: three connections and one session, which is a pair and one that
  interferes; all share an address, and two of them the USAGE key `ip:0`. That the
  safety properties hold for any number is proved.
- *Rendezvous*: seven scenes. Two websockets, of one client or of two, and a queue of two
  messages; two TCP connections from one address, one after the other, with one request
  each (entries of other addresses are independent); one with a key exchange and two
  requests; a question asked on TCP, or on one websocket, and given to the other; a log
  of three entries with a look back of one, so that it overflows and a repetition falls
  out of sight; and the clock of WsIdle. The safety properties are proved for any
  number of each.
- *Its clock, and WsIdleUnpinged*: 3, 9 and 2 ticks for ping interval, idle timeout and
  the longest delay of an answer, in the ratio of the defaults (30 s and 90 s); clocks
  stop at 20, beyond all sums of these.
- *Registry*: two machines that want one id. Either one task and all messages with two
  keys and two addresses, one of them a loopback one, or two tasks and three messages.
  Three `Peer` objects: one in the map and one per task, so an allocation never fails.
  Tasks are symmetric, and a view leaves out what freed objects held, which nothing
  reads. In a scene of its own the blocker, with 3 requests and 2 ids in place of 30 and
  300, 2 and 4 ticks in place of a minute and a day, and more ids than the limit lets
  through. *IpBlockerDoc* has the 30 requests of the code and one id.
- *PeerHeartbeat*: one move between three addresses, one of them a loopback one, and one
  restart; the other task only looks up.
- *Select*: one caller (see below), two addresses of two bits, three relays. The
  worlds: tables that are replaced; tables whose networks overlap, in either order,
  with equal costs, with costs above `UNLISTED_COST_MS`, and with each mistake that
  `parse` refuses; databases and locations; a preference with room for one pin. The
  rotation counter is kept modulo a multiple of the lengths of the lists.
- *Health*: two checks that overlap, two changes (relays going up or down, commands).
- *GeoUpdate*: three months, so that a month follows a complete cycle; hbbs stops, or the
  operator writes onto the file, once.
- *Desktop*: the two servers alone, with any files and up to two faults; and the UI with
  channels of two places in place of ten, on a machine without a key, above servers that
  are down and above servers that are up, with one or two clicks, changes of logs and
  one failure of the watcher. Three keys, so that both servers can make one beside one
  that exists.

`CHECK_DEADLOCK FALSE` is said where the model stops legitimately: all connections are
closed, the UI was left, a bounded number of changes has happened, or a clock has
reached its bound.

### Fairness

Only what tokio, its timers and the operating system give is assumed. A task that is
ready is polled (WF of its steps). `select!` picks among ready branches at random, so a
branch that is ready again and again is taken (SF of `TimerTick`, `StreamEnds`,
`Forward`). A read has a 30 s timeout and a probe one of 3 s. `geo-update --loop` calls
`update` again, and its HTTP client has a timeout; the timer of the io loop keeps
ticking, so hbbs looks at the file again. A supervisor (systemd, nssm) starts a
server that is down. In the UI a thread runs on unless it waits in a send, a sender of a
channel that has room again and again gets in (SF of `ViewSend`, `WatcherSend`), the
second after which the presenter looks at the service passes at the end of some round
(SF of `PresenterChecks`), and the page loads; a reading of a log ends, with its contents or
with an error. In PeerHeartbeat the client keeps sending
and some of its messages arrive (SF of `Heartbeat` and `SendPk`), and in Rendezvous the
peer answers what it is asked: it is what the properties are conditional on. Nothing is
assumed of the other clients or of the console. What is read from or written to a
connection that was reset fails at once; a client that is merely silent is dropped by a
timeout, where there is one. Neither server has a timeout for a write to a client that
does not read; the liveness properties about sockets therefore have the hypothesis that
no such write is pending for ever (`ReadersRead` in RelayPairing and WsPeers, `SinksDrain`
in TcpPunch).

## What is proved

For every value of the constants that the named assumptions of the modules
(`PairingAssumption`, `WsAssumption`, `PunchAssumption`, `LogAssumption`,
`RendezvousAssumption`, `RegistryAssumption`, ...) allow: that null values are not
members of the sets they complement, that functions are functions and bounds numbers.
Further hypotheses are part of the theorems.

**RelayProofs**, of RelayPairing: `InvariantHolds` (`PairingInv`); `TypeCorrect`,
`WaitersExpire` (an entry of PEERS has a timer that is still running), `RelaysAreSound`,
`NoSocketLeaks`, `UsageIsSound`, consequences of it, and `PairingSoundHolds`, the last
four together; `Refinement` (`ImplementsMatchmaker`). That a relay joins two open
streams in no other relay depends on a stream that was taken out of PEERS never being
put back or taken again; this in turn on where the task of such a stream is (asleep or
done, never to act on it), and on an entry of PEERS being under the uuid its owner
sleeps for. `PairingInv` adds exactly these facts. For the refinement, `StageOf` and
`PartnerOf` compute what the matchmaker sees, and `StepMatch` shows, action by action,
that a step is one of the matchmaker's or a stutter. Of RelayHealth: `ParseKeepsEach`,
what `parse_relay_list` keeps of any list (that positions can be put in ascending order
is a counting argument), and `LiveListSoundHolds`: `HealthInv` says that a check probes
positions of its own list, and that every result on its way through the channel is in
the order of the list it came from and not empty, so that it does not matter when it
arrives.

**RendezvousProofs**, of the composed system. `PushesSoundHolds`, for any assignment of
addresses to clients, and `OnlyOwnerRemovesHolds`: `WsInv` says that an
entry is under the key of a connection whose guard has not been dropped. A task leaves
these places only through the guard, which removes the entry if it is its own.
`SinkSoundHolds` and `AskerHasRouteHolds`: `TcpInv` adds that the secret of the key
exchange is there only before the first request (`SecretIsEarly`), so that keys are
never exchanged when the sink has gone, that an entry is under the address of its
connection, where the end of the task finds it (`KeptUnderKey`), and that a connection
that waits is alone under its address (`WaitsAlone`). `LogSoundHolds`: `LogInv` adds
that no entry is younger than the clock. Of WsIdle: `IdleTimeoutRightHolds`, where a
ping that is sent after a poll interval is answered before the idle timeout
(`PongInTime`). `IdleInv` relates the age of the last frame, the time since the poll
began and the unanswered ping.

**PeerStepProofs** and **PeerRegistryProofs**, where no query fails (`NoDbFaults`; with
failing queries the code does not promise this): `OwnerKeptHolds` and `GuidSettlesHolds`
for any number of tasks and messages. `OwnerInv` carries the owner through the rows
tasks have read and the registrations past the check. `GuidInv` says that at most one
Peer in use has no guid, and that it then belongs to a task that is about to insert the
row or to note its guid. That a new Peer can always be allocated (one more object than
tasks) is a fact about cardinalities. The first of the two modules has what the single
steps preserve. `MemoryMatchesTableHolds` and `OkIsRecordedHolds`, for messages that are
handled one at a time: `SoloInv` says, for each place of the one task, which of memory,
row and guid are ahead of the others (`Fits`), that the Peer it holds is the one in the
map, and that a row it has read is still the row; a restart leaves the row alone and
clears the map. Of IpBlocker: `LimitsHoldAlways` and `BlockEndsHolds`, for every limit
and duration. `BlockerInv` and `IdsInv` relate the counters to what was let through
since the last pause: a request, or an id, may be missing in each.

**RelaySelectProofs**, for any number of callers. `AnswerIsHealthyHolds` and
`PreferredWinsHolds`: `PickInv` says of a call past the test of the preference that
it has a list to choose from, in which the relay preferred all along is not, and
that what it is about to hold is of that list. `PinsSoundHolds`: `PinsInv` is
`PinsSound` with the shape of the pins; the work is in the count when pins are purged.
`ChoiceSurvivesHolds`: memory and file agree except while `use_relay_command` is at work on
the file, or if the operator was told that it failed (`PrefInv`).
`OneAnswerHolds`, for one caller at a time (`OneCaller`; two that overlap may get two
answers): `GivenInv` says that what was answered for two ends since the choice was last
dropped is the relay that is held for them, or about to be.

**RelayRoutesProofs**. `LongestPrefix`: in every text that `parse` takes, `lookup` finds
the line with the longest prefix that contains the address, and no other is as
specific; the sorted table exists by a least-counterexample argument over the lines.
`CheapestFirst`: `choose_from` answers the first of the relays with the least sum, by
an invariant of its loop. `RoutesRightHolds`, for any number of callers: `FileInv` says
that the table and the locations in force are what their texts parse to, `SidesInv` that
a call no reload overtook has, for the ends it has looked at, what these give, and
`SnapInv` that a call that chooses has relays to choose from; the theorem then joins
`LongestPrefix` and `CheapestFirst`. It rests on `FilesAssumption`: prefixes, costs and
distances are numbers.

**GeoProofs**: `FileIsWholeHolds`, for any number of updaters: one that renames has found
its own temporary file valid (`UpdatersInv`). `DiskSoundHolds`, for one (`OneUpdater`):
it never tries a month before the recorded one (`RecordInv`). `DownloadedOnceHolds`, for
one and if nothing fails: a month that was fetched is installed and recorded before the
updater looks again (`FetchInv`). `OnlyLoadsChangeHolds`: what
hbbs holds is not the file itself if it can copy (`CopyInv`). `ReadsSoundHolds`: the file
that is being copied is of one month, under its name or without one, and the copy is a
part of it (`ReadInv`); and, with downloads onto the file too, there is a file for good
once there is one, and a change of it is a change of what hbbs saw, so that at each place
of `reload_relay_geo` what has been read so far is of the installed file (`MissInv`). This
is the safety part of `DbSettles`.

**DesktopProofs**, of KeyFiles, for any number of processes, under the steps of the UI
too: `KeysSoundHolds`, `KeyKeptHolds`. `KeyInv` says what a process at each place knows:
from the creation of the private key to its write it is alone, and nobody publishes; after
it the private key does not change and the public key is its own or missing. Of the UI, for
any logs, lengths of the channels and clicks: `WindowFollowsHolds`, the safety part of
`ViewSettles`. `UiInv` adds to it that the last log the page was told of, or will be, is
the chosen one (`FileFollows`), and that a reading under way is of the log the page is to
show unless it was told of another since (`PageType`), from which `ShowsChosen` follows.
An event
that is being sent counts as on its way, and a queue only grows at its end and is read at
its front, which is what four lemmas on sequences say. It rests on `DesktopAssumption`:
the value that stands for no event is not an event, nor a log.

Only model-checked: the liveness properties, which are outside the prover's reach
(`RelaysEnd`, `GoneIsClosed`, `KeepsItsEntry`, `SocketsClose`, `QuestionAnswered`,
`EndsUpReachable`, `ListSettles`, `KeptCurrent`, `DbSettles`, `KeysSettle`,
`ViewSettles`); of `DbSettles` and `ViewSettles` the safety part is proved, as said. Every
safety invariant and action property that a run checks and passes is a theorem.

## Findings

- **A live websocket client can be closed as idle** (run WsIdleUnpinged). The poll begins
  anew after each pushed message (`rendezvous_server.rs:1580`), so while pushes come at
  least every poll interval no ping is sent; the first poll that does time out finds
  a client that was never asked idle for too long. The comment at
  `rendezvous_server.rs:119` says "a live but quiet client never hits the idle
  timeout".
- **A retired relay can come back** (run HealthRetired). The result of a check of the old
  list is applied after `relay-servers` has replaced it (`rendezvous_server.rs:424`). If
  the new list has one relay, no check follows (`rendezvous_server.rs:412`), and the
  retired one is handed out from then on. `docs/relay-routing.md:167` recommends the
  command to retire a relay.
- **A listed relay can lose to an unlisted one** (run SelectUnlisted). `parse` takes any
  cost, and a listed cost, or the sum of two, above `UNLISTED_COST_MS` is dearer than not
  to be listed (`relay_routes.rs:29`). The comment on that constant says "a listed relay
  always beats an unlisted one", and `docs/relay-routing.md:116` that an unlisted relay
  "loses to any relay that is listed". `RoutesRight` has the sums of the code.
- **32 registrations get through, not 30 or 31** (run IpBlockerDoc). The first request is
  not counted (`rendezvous_server.rs:1222`) and the limit is compared before the count
  goes up (`rendezvous_server.rs:1204`). `NOTES.md:553` says that `check_ip_blocker`
  "refuses the 31st", and `NOTES.md:556` that an address is "blocked after 31".
  `LimitsHold` has the number of the code.

Met while modelling, and kept as conditions of properties rather than as runs:

- `ws_peers` is keyed by address; behind a proxy that is `ip:0` for every client of one
  network, and messages for one can be queued for another. `PushesSound` therefore is
  about addresses: it says which client gets a message only where clients have addresses
  of their own, as in the run.
- Between the end of a websocket's loop and the drop of its guard `push_to_ws_peer` finds
  an entry and reports a message as sent that nobody will read. `PushesSound` does not say
  that messages arrive, and `QuestionAnswered` excepts connections that end.
- The end of one relay can remove the entry that another, still running, has in USAGE
  under the same `ip:0`. Only the console reads USAGE; `UsageSound` (of `PairingSound`)
  says that what it lists is running, not that all that runs is listed.
- A heartbeat from a loopback address is taken without a `RegisterPk`, and the `info` of the
  peer keeps its former address. A client that comes back to that address has every
  heartbeat answered with a request for its key, and its `RegisterPk` changes nothing, until
  hbbs is restarted: `EndsUpReachable` excepts a client that leaves a loopback address.
- The rate of registrations of one id is read and written in two critical sections, so two
  tasks can pass the limit at once; the model has the steps, and nothing promises more.
- `use-relay` empties the file of the preference before it writes it: if hbbs is stopped
  between the two, neither choice is left. `ChoiceSurvives` excepts a stop in the middle of
  the command.
- The idle check is made only when a poll times out, so frequent pushes also keep a
  dead client's websocket open: `IdleTimeoutRight`, `GoneIsClosed`.
- `handle_register_pk` drops the result of `update_pk` and answers OK when the query has
  failed: `OkIsRecorded` is for queries that do not fail.
- `pinned_relay` and `pin_relay` are two critical sections: two tasks asking about one
  session at once can get two relays. `OneAnswer` is for one caller at a time.
- A call of `pick` that read the old table holds its choice after the reload has cleared
  the held ones: `PinsSound` excepts it.
- `always-use-relay Y` sends `Y` to the io loop as a list of relays too (modelled as
  `AlwaysUseRelay`), so it becomes the only relay.
- When the record cannot be written, `update` reports an error though the new file is
  installed; `geo_update.rs:7` says a failure leaves the old file. Two updaters that
  overlap can leave a record ahead of the file: the run has one, and `DiskSoundHolds`
  says so.
- A file the operator writes onto while hbbs copies it can be read in parts of two
  months until the next reload: the first half of `ReadsSound` excepts it, the second and
  `DbSettles` cover it. Copies
  that a killed hbbs left are removed beside the database, not in the temporary folder.
- The end of a TCP connection removes the entry of its address in `tcp_punch`, also if a
  newer connection from that address has put it there: `AskerHasRoute` excepts a
  connection that asked before an earlier task of its address had ended.
- A server killed between the creation of the private key file and the write of its
  contents leaves an empty file, which `gen_sk` refuses at every later start:
  `KeysSettle` excepts it (`Spoilt`).
- The presenter and the window's callbacks send over bounded channels with blocking
  sends; when both are full each waits for the other: `ViewSettles` excepts it
  (`Wedged`).
- Start and stop scripts of several clicks run side by side, and can leave one service
  running; the state that is shown is that of hbbs alone, and so is that of
  `ViewSettles`.
- The page drops what it read if it began in the same millisecond as the action that
  asked for it (`action_time < now`), and when `exists` or `readTextFile` fails it keeps
  what it showed, and in neither case reads again before the next action: `WindowFollows`
  and `ViewSettles` except it (`missed`).
- `handle_udp_punch_hole_request` is never called, and is not modelled.

## What is not modelled, and why

- Contents and framing of messages, logging, command-line output: no state.
- The bandwidth limiters, the downgrade of a session and the speed figures of hbbr: they
  delay frames only, and RelayPairing lets any frame take any time.
- IP_CHANGES: statistics that nothing but the console reads.
- Which refusal `handle_punch_hole_request` sends, and the choice between `PunchHole` and
  `FetchLocalAddr`: functions of the message, the registry and the settings; the model
  has that it refuses, passes on or drops.
- The NAT test and online status: answers computed from one read of the registry;
  `EndsUpReachable` covers what they report.
- Start-up and the recovery of the io loop: sockets are created, and one that failed is
  created again while everything else stays as it is.
- The great-circle distance (floating point) and the format of the GeoIP database: the
  first is a function given as data, the second belongs to a library.
- Login tokens (a library verifies a signature), the doctor, packaging, and the layout of
  the UI.

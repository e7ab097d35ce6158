---------------------------- MODULE RelaySelect ----------------------------
(***************************************************************************)
(* Choosing a relay for a session (src/relay_select.rs): the healthy       *)
(* relays, the relay the operator prefers, held choices ("pins"), the      *)
(* routing table of RelayRoutes, geo placement and round-robin.            *)
(*                                                                         *)
(* Every connection handler calls pick on a clone that shares this state,  *)
(* on a multi-threaded runtime; the io loop reloads the files and the      *)
(* console changes the preference at the same time.  Each field has a lock *)
(* of its own, taken and released several times in one call, so a step     *)
(* here is what happens under one lock.  Relay names are taken after       *)
(* normalize, addresses after to_canonical.                                *)
(***************************************************************************)
EXTENDS RelayRoutes, FiniteSets

CONSTANTS Worker,    \* tasks that call pick
          Addr,      \* addresses of clients
          Relay, NoRelay,
          Worlds,    \* what may surround hbbs; each behaviour has one of these
          Pinning,   \* RELAY_PIN_TTL is not 0
          Rounds     \* bound of the model: the rotation counter is kept modulo this,
                     \* a multiple of the lengths of all lists

ASSUME SelectAssumption ==
    /\ NoRelay \notin Relay /\ Rounds \in Nat \ {0}
    /\ \A x \in Worlds :
          /\ x.wanted \subseteq Relay /\ x.pairs \subseteq Addr \X Addr
          /\ x.lists \subseteq Seq(Relay) /\ x.maxPins \in Nat \ {0}
          /\ \A l \in x.lists : Len(l) > 0 => Rounds % Len(l) = 0
    /\ Pinning \in BOOLEAN

VARIABLES
    world,      \* what surrounds hbbs in this behaviour
    live,       \* the healthy relays, in the order they were configured
    pref,       \* the preferred relay
    prefFile,   \* ... in the file that remembers it
    pins,       \* pins[k]: the choice held for the two addresses k
    rotation,   \* ROTATION_RELAY_SERVER
    routes,     \* the routing table in force, and the text it came from
    geo,        \* the GeoIP database, and the relay locations likewise
    file,       \* file.routes, file.db, file.loc: on disk [is, seen]
    lpc, loaded,\* the io loop: where it is, and the geo files it has read
    cpc, warned,\* the console: where it is, and whether it said that the
                \* preference could not be saved
    pc, call, snap, sides, ans,  \* the callers of pick
    given, raced, want           \* history, for the properties only

store == <<live, pref, prefFile, warned, rotation, routes, geo, file>>
history == <<given, raced, want>>
callers == <<pc, call, snap, sides, ans>>
vars == <<store, pins, lpc, loaded, cpc, callers, history>>

(* Bad is a file that is missing or, for the database, cannot be read.     *)
Pairs == world.pairs          \* the sessions asked about: pairs of addresses
Wanted == world.wanted        \* the relays the operator asks for, if any
Lists == world.lists          \* the healthy lists: sequences of relays
Texts == world.texts          \* texts of the routing table
Places == world.places        \* GeoIP databases: address -> place, partial
Locations == world.locations  \* texts of the relay locations
MaxPins == world.maxPins      \* MAX_RELAY_PINS

(* The two ends of a session, in whichever order they are named.           *)
Key == {{x, y} : x \in Addr, y \in Addr}

NoPin == [relay |-> NoRelay, fresh |-> FALSE, old |-> FALSE, raced |-> FALSE]
NoPins == [k \in Key |-> NoPin]
Held(k) == pins[k].relay # NoRelay

NoCall == [from |-> NoRelay, to |-> NoRelay, commit |-> FALSE, at |-> NoRelay]

RangeOf(s) == {s[i] : i \in 1..Len(s)}

(* Bad and NoRule are no lines and no places; prefixes, costs and distances*)
(* are numbers.                                                            *)
IsLine(l) ==
    /\ l # NoRule /\ (l.net = Bad \/ l.net.prefix \in Nat)
    /\ l.costs \in Seq(RangeOf(l.costs))
    /\ \A e \in RangeOf(l.costs) : e = Bad \/ e.ms \in Nat

ASSUME FilesAssumption ==
    \A x \in Worlds :
        /\ \A t \in x.texts \ {Bad} : t \in Seq(RangeOf(t)) /\ \A l \in RangeOf(t) : IsLine(l)
        /\ \A t \in x.locations \ {Bad} : t \in Seq(RangeOf(t))
        /\ \A d \in x.places \ {Bad} : \A ip \in DOMAIN d :
              /\ d[ip] # Bad
              /\ \A t \in x.locations \ {Bad} : \A e \in RangeOf(t) :
                    e = Bad \/ Distance[<<d[ip], e.at>>] \in Nat

Files == [routes : Texts, db : Places, loc : Locations]

(* RouteTable::load.                                                       *)
LoadedRoutes(text) ==
    LET rules == IF text = Bad THEN Bad ELSE parse(text)
    IN  IF rules = Bad THEN Bad ELSE [text |-> text, rules |-> rules]

(* Locations::load.                                                        *)
LoadedLocations(text) ==
    LET relays == IF text = Bad THEN Bad ELSE parse_locations(text)
    IN  IF relays = Bad THEN Bad ELSE [text |-> text, relays |-> relays]

LoadedGeo(f, x) == IF f = "loc" THEN LoadedLocations(x) ELSE x

Init ==
    /\ world \in Worlds
    /\ live \in Lists
    /\ prefFile \in Wanted \union {NoRelay}
    /\ file \in {[f \in {"routes", "db", "loc"} |-> [is |-> x[f], seen |-> TRUE]] : x \in Files}
    /\ pref = prefFile
    /\ routes = LoadedRoutes(file["routes"].is)
    /\ geo = [f \in {"db", "loc"} |-> LoadedGeo(f, file[f].is)]
    /\ pins = NoPins
    /\ rotation = 0
    /\ lpc = "idle" /\ loaded = {} /\ cpc = "idle" /\ warned = FALSE
    /\ pc = [w \in Worker |-> "idle"]
    /\ call = [w \in Worker |-> NoCall]
    /\ snap = [w \in Worker |-> <<>>]
    /\ sides = [w \in Worker |-> <<>>]
    /\ ans = [w \in Worker |-> NoRelay]
    /\ given = [k \in Key |-> {}]
    /\ raced = {}
    /\ want = [w \in Worker |-> NoRelay]

-----------------------------------------------------------------------------
(* Faulty variant: the choice is held for one direction only.              *)
KeyOfOrdered(c) == {c.from}

KeyOf(c) == {c.from, c.to}

Goto(w, l) == pc' = [pc EXCEPT ![w] = l]

(* The call of w returns.                                                  *)
Return(w) ==
    /\ Goto(w, "idle")
    /\ call' = [call EXCEPT ![w] = NoCall]
    /\ snap' = [snap EXCEPT ![w] = <<>>]
    /\ sides' = [sides EXCEPT ![w] = <<>>]
    /\ raced' = raced \ {w}
    /\ want' = [want EXCEPT ![w] = NoRelay]

(* ... with the answer r.  History: a committed answer that nothing        *)
(* changed under is noted with the others since the choice was last open.  *)
Answer(w, r) ==
    /\ ans' = [ans EXCEPT ![w] = r]
    /\ given' = IF call[w].commit /\ w \notin raced
                THEN [given EXCEPT ![{call[w].from, call[w].to}] = @ \union {r}]
                ELSE given
    /\ Return(w)

(* History: what answers depend on changes under the calls under way.      *)
Open(ks) == given' = [k \in Key |-> IF k \in ks THEN {} ELSE given[k]]
UnderWay == {w \in Worker : pc[w] # "idle"}

(* The command use-relay has the lock of the preference, to change the     *)
(* file: it is about to open it, to write to it or to remove it.           *)
Saving == {"open", "write", "remove"}

(* pick: the list of healthy relays is copied.                             *)
Pick(w, c) ==
    /\ pc[w] = "idle"
    /\ call' = [call EXCEPT ![w] = c]
    /\ snap' = [snap EXCEPT ![w] = live]
    /\ ans' = [ans EXCEPT ![w] = NoRelay]
    /\ want' = [want EXCEPT ![w] = pref]
    /\ Goto(w, "preferred")
    /\ UNCHANGED <<store, pins, lpc, loaded, cpc, sides, given, raced>>

(* Faulty variant: the held choice goes before the preferred relay.        *)
PreferredLast(w) ==
    /\ pc[w] = "preferred"
    /\ \/ /\ Len(snap[w]) < 2
          /\ Answer(w, IF snap[w] = <<>> THEN NoRelay ELSE snap[w][1])
       \/ /\ Len(snap[w]) >= 2 /\ cpc \notin Saving /\ pref \in RangeOf(snap[w])
          /\ LET k == KeyOf(call[w])
             IN  Answer(w, IF pins[k].relay \in RangeOf(snap[w]) THEN pins[k].relay ELSE pref)
       \/ /\ Len(snap[w]) >= 2 /\ cpc \notin Saving /\ pref \notin RangeOf(snap[w])
          /\ Goto(w, IF call[w].commit THEN "pinned" ELSE "routes")
          /\ UNCHANGED <<call, snap, sides, ans, history>>
    /\ UNCHANGED <<store, pins, lpc, loaded, cpc>>

(* pick: with fewer than two relays there is no choice; else the preferred *)
(* relay is taken if it is healthy, once its lock is free.                 *)
Preferred(w) ==
    /\ pc[w] = "preferred"
    /\ \/ /\ Len(snap[w]) < 2
          /\ Answer(w, IF snap[w] = <<>> THEN NoRelay ELSE snap[w][1])
       \/ /\ Len(snap[w]) >= 2 /\ cpc \notin Saving /\ pref \in RangeOf(snap[w])
          /\ Answer(w, pref)
       \/ /\ Len(snap[w]) >= 2 /\ cpc \notin Saving /\ pref \notin RangeOf(snap[w])
          /\ Goto(w, IF call[w].commit THEN "pinned" ELSE "routes")
          /\ UNCHANGED <<call, snap, sides, ans, history>>
    /\ UNCHANGED <<store, pins, lpc, loaded, cpc>>

(* Faulty variant: a held choice is kept though its relay is not healthy.  *)
PinnedDead(w) ==
    /\ pc[w] = "pinned"
    /\ \/ /\ pins[KeyOf(call[w])].fresh
          /\ Answer(w, pins[KeyOf(call[w])].relay)
       \/ /\ ~ pins[KeyOf(call[w])].fresh
          /\ Goto(w, "routes")
          /\ UNCHANGED <<call, snap, sides, ans, history>>
    /\ UNCHANGED <<store, pins, lpc, loaded, cpc>>

(* pinned_relay: a held choice that has not expired and is still healthy;  *)
(* any other is removed.                                                   *)
Pinned(w) ==
    /\ pc[w] = "pinned"
    /\ LET k == KeyOf(call[w])
           good == pins[k].fresh /\ pins[k].relay \in RangeOf(snap[w])
       IN  \/ good /\ Answer(w, pins[k].relay) /\ UNCHANGED pins
           \/ /\ ~ good
              /\ pins' = [pins EXCEPT ![k] = NoPin]
              /\ Goto(w, "routes")
              /\ UNCHANGED <<call, snap, sides, ans, history>>
    /\ UNCHANGED <<store, lpc, loaded, cpc>>

(* The address of the side that is looked at: first pa, then pb.           *)
Side(w) == IF pc[w] \in {"routes", "locate", "geo"} THEN call[w].from ELSE call[w].to

(* One side is done; after the second the choice is made.                  *)
SideDone(w, found) ==
    /\ sides' = [sides EXCEPT ![w] = @ \o found]
    /\ Goto(w, IF pc[w] \in {"routes", "locate", "geo"} THEN "routes2" ELSE "choose")
    /\ UNCHANGED <<call, snap, ans, history>>

(* side_costs: the routing table's line for the address (the io loop holds *)
(* the lock until it has cleared the pins).                                *)
SideRoutes(w) ==
    /\ pc[w] \in {"routes", "routes2"} /\ lpc # "clear"
    /\ LET rule == IF routes = Bad THEN NoRule ELSE lookup(routes.rules, Side(w))
           known == rule # NoRule
       IN  \/ known /\ SideDone(w, <<Costs(rule)>>)
           \/ /\ ~ known
              /\ Goto(w, IF pc[w] = "routes" THEN "locate" ELSE "locate2")
              /\ UNCHANGED <<call, snap, sides, ans, history>>
    /\ UNCHANGED <<store, pins, lpc, loaded, cpc>>

(* side_costs, locate: where the address is, under the lock of geo ...     *)
SideLocate(w) ==
    /\ pc[w] \in {"locate", "locate2"}
    /\ LET known == geo.loc # Bad /\ geo.db # Bad /\ Side(w) \in DOMAIN geo.db
       IN  \/ ~ known /\ SideDone(w, <<>>)
           \/ /\ known
              /\ call' = [call EXCEPT ![w].at = geo.db[Side(w)]]
              /\ Goto(w, IF pc[w] = "locate" THEN "geo" ELSE "geo2")
              /\ UNCHANGED <<snap, sides, ans, history>>
    /\ UNCHANGED <<store, pins, lpc, loaded, cpc>>

(* ... and how far that is from each relay, under the lock taken again.    *)
SideGeo(w) ==
    /\ pc[w] \in {"geo", "geo2"}
    /\ SideDone(w, <<costs_from(geo.loc.relays, call[w].at)>>)
    /\ UNCHANGED <<store, pins, lpc, loaded, cpc>>

(* pick: the cheapest relay, or the next in turn if nothing is known of    *)
(* either side.  A dry run is over here.                                   *)
Choose(w) ==
    /\ pc[w] = "choose"
    /\ LET byTurn == sides[w] = <<>>
           r == IF byTurn THEN snap[w][(rotation % Len(snap[w])) + 1]
                ELSE choose_from(snap[w], sides[w])
       IN  /\ rotation' = IF byTurn /\ call[w].commit THEN (rotation + 1) % Rounds
                          ELSE rotation
           /\ IF call[w].commit
              THEN /\ ans' = [ans EXCEPT ![w] = r]
                   /\ Goto(w, "pin")
                   /\ UNCHANGED <<call, snap, sides, history>>
              ELSE Answer(w, r)
    /\ UNCHANGED <<live, pref, prefFile, warned, routes, geo, file, pins, lpc, loaded, cpc>>

(***************************************************************************)
(* pin_relay: when the table of pins is full the expired ones go, and all  *)
(* of them if that is not enough.                                          *)
(***************************************************************************)
Room ==
    LET used == {j \in Key : Held(j)}
        fresh == {j \in used : pins[j].fresh}
        keep == IF Cardinality(used) < MaxPins THEN used
                ELSE IF Cardinality(fresh) < MaxPins THEN fresh ELSE {}
    IN  [j \in Key |-> IF j \in keep THEN pins[j] ELSE NoPin]

Pin(w) ==
    /\ pc[w] = "pin"
    /\ LET k == KeyOf(call[w]) IN
       /\ pins' = IF Pinning
                  THEN [Room EXCEPT ![k] =
                           [relay |-> ans[w], fresh |-> TRUE,
                            old |-> w \in raced, raced |-> w \in raced]]
                  ELSE pins
       /\ given' = [j \in Key |->
                       IF j = {call[w].from, call[w].to} /\ w \notin raced
                       THEN given[j] \union {ans[w]}
                       ELSE IF Held(j) /\ pins'[j] = NoPin THEN {} ELSE given[j]]
    /\ Return(w)
    /\ UNCHANGED <<store, lpc, loaded, cpc, ans>>

Step(w) ==
    \/ Preferred(w) \/ Pinned(w) \/ SideRoutes(w) \/ SideLocate(w) \/ SideGeo(w)
    \/ Choose(w) \/ Pin(w)

-----------------------------------------------------------------------------
(* History: what the answers depend on changes under the calls under way.  *)
AllOpen == given' = [k \in Key |-> {}] /\ raced' = raced \union UnderWay

MarkOld(ps) == [k \in Key |-> IF ps[k].relay = NoRelay THEN NoPin
                              ELSE [ps[k] EXCEPT !.old = TRUE]]

(* set_live: the health check or the console replaces the list.            *)
SetLive(l) ==
    /\ l # live
    /\ live' = l
    /\ AllOpen
    /\ UNCHANGED <<pref, prefFile, warned, rotation, routes, geo, file, pins, lpc, loaded,
                   cpc, callers, want>>

(* Time: the choice held for k has been held for RELAY_PIN_TTL.            *)
Expire(k) ==
    /\ pins[k].fresh
    /\ pins' = [pins EXCEPT ![k].fresh = FALSE]
    /\ Open({k})
    /\ UNCHANGED <<store, lpc, loaded, cpc, callers, raced, want>>

(* The operator, or geo_update, replaces a file.                           *)
WriteFile(f, x) ==
    /\ x # file[f].is
    /\ file' = [file EXCEPT ![f] = [is |-> x, seen |-> FALSE]]
    /\ UNCHANGED <<live, pref, prefFile, warned, rotation, routes, geo, pins, lpc, loaded,
                   cpc, callers, history>>

(* Only a file that can be read and parsed replaces what is in force.      *)
Loadable(x) == x # Bad

(***************************************************************************)
(* reload_relay_routes, on the io loop's timer: a file that changed is     *)
(* read; if it is good it replaces the table, after which the pins are     *)
(* cleared with the table's lock still held.                               *)
(***************************************************************************)
ReloadRoutes ==
    /\ lpc = "idle"
    /\ file' = [file EXCEPT !["routes"].seen = TRUE]
    /\ LET new == LoadedRoutes(file["routes"].is)
           load == ~ file["routes"].seen /\ Loadable(new)
       IN  \/ ~ load /\ lpc' = "geo" /\ UNCHANGED <<routes, pins, history>>
           \/ load /\ lpc' = "clear" /\ routes' = new /\ pins' = MarkOld(pins)
              /\ AllOpen /\ UNCHANGED want
    /\ UNCHANGED <<live, pref, prefFile, warned, rotation, geo, loaded, cpc, callers>>

(* reload_relay_geo: look which files changed and read them, with no lock. *)
LoadGeo ==
    /\ lpc = "geo"
    /\ LET changed == {f \in {"db", "loc"} : ~ file[f].seen} IN
       /\ file' = [f \in DOMAIN file |-> IF f \in changed THEN [file[f] EXCEPT !.seen = TRUE]
                                         ELSE file[f]]
       /\ loaded' = {<<f, LoadedGeo(f, file[f].is)>> :
                         f \in {g \in changed : Loadable(LoadedGeo(g, file[g].is))}}
    /\ lpc' = "set"
    /\ UNCHANGED <<live, pref, prefFile, warned, rotation, routes, geo, pins, cpc, callers, history>>

(* ... put what was read in force, under the lock of geo ...               *)
SetGeo ==
    /\ lpc = "set"
    /\ geo' = [f \in {"db", "loc"} |->
                  IF \E x \in loaded : x[1] = f THEN (CHOOSE x \in loaded : x[1] = f)[2]
                  ELSE geo[f]]
    /\ loaded' = {}
    /\ \/ loaded = {} /\ lpc' = "idle" /\ UNCHANGED <<pins, history>>
       \/ /\ loaded # {} /\ lpc' = "clear2" /\ pins' = MarkOld(pins)
          /\ AllOpen /\ UNCHANGED want
    /\ UNCHANGED <<live, pref, prefFile, warned, rotation, routes, file, cpc, callers>>

(* Faulty variant: held choices survive a new table.                       *)
ClearPinsNot ==
    /\ lpc \in {"clear", "clear2"}
    /\ lpc' = IF lpc = "clear" THEN "geo" ELSE "idle"
    /\ UNCHANGED <<store, pins, loaded, cpc, callers, history>>

(* ... and, in either case, drop the choices made under the old data.      *)
ClearPins ==
    /\ lpc \in {"clear", "clear2"}
    /\ pins' = NoPins
    /\ Open(Key)
    /\ lpc' = IF lpc = "clear" THEN "geo" ELSE "idle"
    /\ UNCHANGED <<store, loaded, cpc, callers, raced, want>>

(* use_relay_command has changed the preference in memory, under its lock. *)
Commanded(next) ==
    /\ cpc = "idle" /\ cpc' = next
    /\ AllOpen
    /\ want' = [w \in Worker |-> IF w \in UnderWay THEN NoRelay ELSE want[w]]
    /\ UNCHANGED <<live, prefFile, warned, rotation, routes, geo, file, pins, lpc, loaded,
                   callers>>

(* use-relay r: taken if r is healthy.                                     *)
UseRelay(r) ==
    /\ r \in RangeOf(live)
    /\ pref' = r
    /\ Commanded("open")

(* use-relay auto: forgotten.                                              *)
UseAuto ==
    /\ pref' = NoRelay
    /\ Commanded("remove")

(* use-relay, or use-relay with a relay that is not healthy.               *)
UseNothing ==
    /\ UNCHANGED pref
    /\ Commanded("clear")

(* A step of the command on the file, and whether the operator is told that*)
(* it failed.                                                              *)
OnFile(at, next, is, told) ==
    /\ cpc = at /\ cpc' = next
    /\ prefFile' = is /\ warned' = told
    /\ UNCHANGED <<live, pref, rotation, routes, geo, file, pins, lpc, loaded, callers, history>>

(* fs::write: the file is opened, which empties it, and written.           *)
OpenFile == OnFile("open", "write", NoRelay, warned) \/ OnFile("open", "clear", prefFile, TRUE)

WriteChoice == OnFile("write", "clear", pref, FALSE) \/ OnFile("write", "clear", prefFile, TRUE)

(* Faulty variant: the file is left.                                       *)
RemoveNot == OnFile("remove", "clear", prefFile, FALSE)

(* fs::remove_file; that there is no file is no failure.                   *)
Remove == OnFile("remove", "clear", NoRelay, FALSE) \/ OnFile("remove", "clear", prefFile, TRUE)

(* Every form of the command then drops the held choices.                  *)
CommandClears ==
    /\ cpc = "clear"
    /\ pins' = NoPins
    /\ Open(Key)
    /\ cpc' = "idle"
    /\ UNCHANGED <<store, lpc, loaded, callers, raced, want>>

(* hbbs is stopped and started: configure reads the files again.           *)
Restart ==
    /\ live' \in Lists
    /\ prefFile' = prefFile /\ warned' = FALSE
    /\ file' = [f \in DOMAIN file |-> [file[f] EXCEPT !.seen = TRUE]]
    /\ pref' = prefFile
    /\ routes' = LoadedRoutes(file["routes"].is)
    /\ geo' = [f \in {"db", "loc"} |-> LoadedGeo(f, file[f].is)]
    /\ pins' = NoPins
    /\ rotation' = 0
    /\ lpc' = "idle" /\ loaded' = {} /\ cpc' = "idle"
    /\ pc' = [w \in Worker |-> "idle"]
    /\ call' = [w \in Worker |-> NoCall]
    /\ snap' = [w \in Worker |-> <<>>]
    /\ sides' = [w \in Worker |-> <<>>]
    /\ ans' = [w \in Worker |-> NoRelay]
    /\ given' = [k \in Key |-> {}]
    /\ raced' = {}
    /\ want' = [w \in Worker |-> NoRelay]

Calls == {[from |-> p[1], to |-> p[2], commit |-> b, at |-> NoRelay] : p \in Pairs, b \in BOOLEAN}

Next ==
    /\ \/ \E w \in Worker : Step(w) \/ \E c \in Calls : Pick(w, c)
       \/ \E l \in Lists : SetLive(l)
       \/ \E k \in Key : Expire(k)
       \/ \E f \in {"routes", "db", "loc"} :
             \E x \in {y[f] : y \in Files} : WriteFile(f, x)
       \/ ReloadRoutes \/ LoadGeo \/ SetGeo \/ ClearPins
       \/ \E r \in Wanted : UseRelay(r) \/ UseAuto
       \/ UseNothing \/ OpenFile \/ WriteChoice \/ Remove \/ CommandClears
       \/ Restart
    /\ UNCHANGED world

Spec == Init /\ [][Next]_<<vars, world>>

-----------------------------------------------------------------------------
(* "Bound on held choices; expired ones are dropped first": no more than   *)
(* MAX_RELAY_PINS choices are held, whatever has expired.                  *)
PinsBounded == Cardinality({k \in Key : Held(k)}) <= MaxPins

Returns(w) == Step(w) /\ pc'[w] = "idle"

(* pick answers only with a relay that was healthy when it was asked, also *)
(* from a held choice ("A pin must never keep handing out a relay that has *)
(* stopped answering") and from the preference; and always with one, if    *)
(* there is any.                                                           *)
AnswerIsHealthy ==
    [][\A w \in Worker : Returns(w) /\ snap[w] # <<>> => ans'[w] \in RangeOf(snap[w])]_vars

(* The relay the operator prefers is the answer to every question asked    *)
(* while it is preferred and healthy, whatever was held or loaded.         *)
PreferredWins ==
    [][\A w \in Worker :
        Returns(w) /\ want[w] \in RangeOf(snap[w]) => ans'[w] = want[w]]_vars

(* "every question about the same attempt gets the same answer" (pick):    *)
(* for two ends in either order, while the choice has not expired and what *)
(* it depends on has not changed.  Callers that overlap may get two answers;*)
(* this is about one caller at a time.                                     *)
OneAnswer == Pinning => \A k \in Key : Cardinality(given[k]) <= 1

(* "Decisions made under the old table are not worth keeping": once the    *)
(* reload is over no choice made under the old data is held, but those of  *)
(* calls that were under way during the reload.                            *)
PinsAreCurrentOrRaced ==
    lpc \notin {"clear", "clear2"} =>
        \A k \in Key : Held(k) /\ pins[k].old => pins[k].raced

(* Both: which choices are held, and how many.                             *)
PinsSound == PinsBounded /\ PinsAreCurrentOrRaced

(* Where the GeoIP database puts an address, if relay locations are known. *)
Placed(ip) ==
    IF geo.loc # Bad /\ geo.db # Bad /\ ip \in DOMAIN geo.db THEN geo.db[ip] ELSE Bad
TextOf(x) == IF x = Bad THEN <<>> ELSE x.text
Cost(ip, r) == SaysOfOne(TextOf(routes), ip, TextOf(geo.loc), Placed(ip), r)

(* A choice made with the routing table and the relay locations is the     *)
(* first of the cheapest of the healthy relays by the lines of the files:  *)
(* for each end the most specific line of the table, wherever it stands,   *)
(* or the distance, a relay that is not listed at UNLISTED_COST_MS, and    *)
(* nothing for an end that is not known.  See also ListedWins.             *)
RoutesRight ==
    [][\A w \in Worker :
        LET c == call[w]
            known == \E ip \in {c.from, c.to} : Hits(TextOf(routes), ip) # {} \/ Placed(ip) # Bad
        IN  pc[w] = "choose" /\ Step(w) /\ w \notin raced /\ known
            => FirstCheapest(snap[w], [r \in RangeOf(snap[w]) |-> Cost(c.from, r) + Cost(c.to, r)],
                             ans'[w])]_vars

(* The comment on UNLISTED_COST_MS: "a listed relay always beats an        *)
(* unlisted one".  Of two healthy relays, one that is in the lines of all  *)
(* ends the table knows and one that is in none, the second is not chosen. *)
ListedWins ==
    [][\A w \in Worker :
        LET ends == {ip \in {call[w].from, call[w].to} : Hits(TextOf(routes), ip) # {}}
            listed(ip) == DOMAIN Costs(lookup(routes.rules, ip))
        IN  /\ pc[w] = "choose" /\ Step(w) /\ w \notin raced /\ ends # {}
            /\ \E r \in RangeOf(snap[w]) : \A ip \in ends : r \in listed(ip)
            => \E ip \in ends : ans'[w] \in listed(ip)]_vars

(* A restart forgets neither the preferred relay nor that there is none,   *)
(* unless use-relay said that the choice could not be saved or deleted, or *)
(* hbbs is stopped in the middle of that command: then the choice before   *)
(* it may come back or, between the opening of the file and the write, none*)
(* is left.                                                                *)
ChoiceSurvives == [][Restart => warned \/ cpc \in Saving \/ pref' = pref]_vars
=============================================================================

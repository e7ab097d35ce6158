---------------------------- MODULE RelayRoutes ----------------------------
(***************************************************************************)
(* The routing table (src/relay_routes.rs): which relay costs how much     *)
(* from which client network; and the relay locations (src/relay_geo.rs):  *)
(* where each relay is.                                                    *)
(*                                                                         *)
(* A text is the sequence of its lines that are neither blank nor comments.*)
(* A line has a network and a sequence of entries relay=milliseconds; Bad  *)
(* stands for a network or an entry that cannot be read, and for a text    *)
(* that is refused.  Relay names are taken after normalize.  Addresses and *)
(* networks are of one family; one of the other contains none of them.     *)
(***************************************************************************)
EXTENDS Naturals, Sequences

CONSTANTS Width,     \* bits of an address
          Unlisted,  \* UNLISTED_COST_MS
          Distance,  \* distance_km in milliseconds: <<place, place>> -> Nat
          Bad, NoRule

ASSUME RoutesAssumption == Width \in Nat /\ Unlisted \in Nat

(* The network of an address, which is compared when host bits were given. *)
Masked(addr, prefix) == addr \div 2 ^ (Width - prefix)

SameNet(m, n) == m.prefix = n.prefix /\ Masked(m.addr, m.prefix) = Masked(n.addr, n.prefix)

Contains(net, ip) == Masked(net.addr, net.prefix) = Masked(ip, net.prefix)

(* A line that parse refuses wherever it stands.                           *)
BadLine(line) ==
    \/ line.net = Bad \/ line.costs = <<>>
    \/ \E i \in 1..Len(line.costs) : line.costs[i] = Bad
    \/ \E i, j \in 1..Len(line.costs) : i < j /\ line.costs[i].relay = line.costs[j].relay

Refused(text) ==
    \/ text = <<>>
    \/ \E i \in 1..Len(text) : BadLine(text[i])
    \/ \E i, j \in 1..Len(text) : i < j /\ SameNet(text[i].net, text[j].net)

(* p lists the lines with longer prefixes first, equal ones in file order. *)
Sorts(p, text) ==
    /\ \A i, j \in 1..Len(text) : i # j => p[i] # p[j]
    /\ \A i, j \in 1..Len(text) : i < j =>
          \/ text[p[i]].net.prefix > text[p[j]].net.prefix
          \/ text[p[i]].net.prefix = text[p[j]].net.prefix /\ p[i] < p[j]

(* Faulty variant: the lines stay in the order of the file.                *)
SortedNot(text) == text

Sorted(text) ==
    LET p == CHOOSE q \in [1..Len(text) -> 1..Len(text)] : Sorts(q, text)
    IN  [i \in 1..Len(text) |-> text[p[i]]]

parse(text) == IF Refused(text) THEN Bad ELSE Sorted(text)

(* lookup: the first rule that contains the address.                       *)
Hits(rules, ip) == {i \in 1..Len(rules) : Contains(rules[i].net, ip)}

lookup(rules, ip) ==
    IF Hits(rules, ip) = {} THEN NoRule
    ELSE rules[CHOOSE i \in Hits(rules, ip) : \A j \in Hits(rules, ip) : i <= j]

(* costs_for: relay -> milliseconds.                                       *)
Costs(rule) ==
    [r \in {rule.costs[i].relay : i \in 1..Len(rule.costs)} |->
        (CHOOSE e \in {rule.costs[i] : i \in 1..Len(rule.costs)} : e.relay = r).ms]

(* Locations::parse: lines [relay, at].                                    *)
parse_locations(text) ==
    IF \/ text = <<>>
       \/ \E i \in 1..Len(text) : text[i] = Bad
       \/ \E i, j \in 1..Len(text) : i < j /\ text[i].relay = text[j].relay
    THEN Bad
    ELSE [r \in {text[i].relay : i \in 1..Len(text)} |->
             (CHOOSE e \in {text[i] : i \in 1..Len(text)} : e.relay = r).at]

costs_from(relays, at) == [r \in DOMAIN relays |-> Distance[<<at, relays[r]>>]]

(***************************************************************************)
(* choose_from: a relay costs the sum of what the known sides say of it;   *)
(* the loop keeps the first of the cheapest.                               *)
(***************************************************************************)
CostOf(side, r) == IF r \in DOMAIN side THEN side[r] ELSE Unlisted

Total(known, r) ==
    LET sum[i \in 0..Len(known)] == IF i = 0 THEN 0 ELSE sum[i - 1] + CostOf(known[i], r)
    IN  sum[Len(known)]

choose_from(healthy, known) ==
    LET best[i \in 1..Len(healthy)] ==
            IF i = 1 THEN 1
            ELSE IF Total(known, healthy[i]) < Total(known, healthy[best[i - 1]])
                 THEN i ELSE best[i - 1]
    IN  healthy[best[Len(healthy)]]

-----------------------------------------------------------------------------
(* What a text says of an address, read without the table: the line that   *)
(* contains it and has the longest prefix of those that do.                *)
MostSpecific(text, ip, i) ==
    /\ i \in Hits(text, ip)
    /\ \A j \in Hits(text, ip) : text[j].net.prefix <= text[i].net.prefix

(* What the files say that a relay costs one end of a session: the line of *)
(* the table for its address or, if there is none, the distance from where *)
(* the end is, and in either case Unlisted for a relay that is not listed; *)
(* nothing if neither is known.                                            *)
SaysOfOne(text, ip, locs, at, r) ==
    LET line == text[CHOOSE i \in 1..Len(text) : MostSpecific(text, ip, i)]
        said == IF Hits(text, ip) # {}
                THEN {line.costs[i].ms : i \in {k \in 1..Len(line.costs) : line.costs[k].relay = r}}
                ELSE {Distance[<<at, locs[i].at>>] : i \in {k \in 1..Len(locs) : locs[k].relay = r}}
    IN  IF Hits(text, ip) = {} /\ at = Bad THEN 0
        ELSE IF said = {} THEN Unlisted ELSE CHOOSE ms \in said : TRUE

(* r is the first of the relays for which cost is least.                   *)
FirstCheapest(healthy, cost, r) ==
    \E i \in 1..Len(healthy) :
        /\ healthy[i] = r
        /\ \A j \in 1..Len(healthy) :
              \/ cost[r] < cost[healthy[j]]
              \/ cost[r] = cost[healthy[j]] /\ i <= j
=============================================================================

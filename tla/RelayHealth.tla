---------------------------- MODULE RelayHealth ----------------------------
(***************************************************************************)
(* Which relays hbbs hands out (src/rendezvous_server.rs): the configured  *)
(* list, the check that connects to every relay of it on a timer, and the  *)
(* console commands that replace it.                                       *)
(*                                                                         *)
(* Each tick of the timer starts a check of its own on the list of that    *)
(* moment; its probes end in any order.  Results and commands reach the io *)
(* loop through one channel, in the order they were sent.                  *)
(***************************************************************************)
EXTENDS Naturals, Sequences, FiniteSets

CONSTANTS Relay,      \* names of relays
          YesNo,      \* what always-use-relay is given: "Y" and "N", as names
          Junk,       \* entries that are not host or host:port
          Commands,   \* lists given to relay-servers: sequences of entries
          First,      \* the list hbbs is started with
          Checks,     \* bound: checks that overlap
          MaxQueue,   \* bound: messages in the channel
          MaxChanges  \* bound: relays starting or stopping to answer, and commands

ASSUME HealthAssumption ==
    /\ Commands \subseteq Seq(Relay \union Junk)
    /\ First \in Seq(Relay \union Junk)
    /\ MaxQueue \in Nat /\ MaxChanges \in Nat

VARIABLES
    conf,     \* relay_servers0: the configured list
    live,     \* relay_servers: the relays handed out
    always,   \* ALWAYS_USE_RELAY
    check,    \* check[c]: a check under way: its list, the entries still being
              \* probed and those that answered, in the order they did
    chan,     \* the channel to the io loop
    up,       \* the relays that accept connections
    changes,  \* how many of MaxChanges have happened
    liveOf    \* history: the configured list that live was computed from

healthVars == <<conf, live, always, check, chan, up, changes, liveOf>>

Idle == [on |-> FALSE, list |-> <<>>, todo |-> {}, found |-> <<>>]
RangeOf(s) == {s[i] : i \in 1..Len(s)}

(* A set of positions in ascending order, and what stands there in a list. *)
InOrder(S) ==
    CHOOSE at \in [1..Cardinality(S) -> S] :
        \A i, j \in 1..Cardinality(S) : i < j => at[i] < at[j]
Taken(list, S) == [j \in 1..Cardinality(S) |-> list[InOrder(S)[j]]]

(* parse_relay_list: entries that make no sense are set aside, and so is   *)
(* an entry that is there already.                                         *)
Keeps(list) ==
    {i \in 1..Len(list) : list[i] \notin Junk /\ \A j \in 1..(i-1) : list[j] # list[i]}
parse_relay_list(list) == Taken(list, Keeps(list))

HealthInit ==
    /\ conf = parse_relay_list(First)
    /\ live = conf
    /\ liveOf = conf
    /\ always \in BOOLEAN
    /\ check = [c \in Checks |-> Idle]
    /\ chan = <<>>
    /\ up \in SUBSET Relay
    /\ changes = 0

Changed == changes < MaxChanges /\ changes' = changes + 1

(* Faulty variant: only the relays in use are checked.                     *)
TickLive(c) ==
    /\ ~ check[c].on
    /\ Len(conf) > 1
    /\ check' = [check EXCEPT ![c] = [on |-> TRUE, list |-> live,
                                      todo |-> 1..Len(live), found |-> <<>>]]
    /\ UNCHANGED <<conf, live, always, chan, up, changes, liveOf>>

(* The timer of the io loop: with one relay or none there is no check.     *)
Tick(c) ==
    /\ ~ check[c].on
    /\ Len(conf) > 1
    /\ check' = [check EXCEPT ![c] = [on |-> TRUE, list |-> conf,
                                      todo |-> 1..Len(conf), found |-> <<>>]]
    /\ UNCHANGED <<conf, live, always, chan, up, changes, liveOf>>

(* A probe connects, or is refused or times out.                           *)
Probe(c, i) ==
    /\ i \in check[c].todo
    /\ check' = [check EXCEPT ![c].todo = @ \ {i},
                              ![c].found = IF check[c].list[i] \in up THEN Append(@, i) ELSE @]
    /\ UNCHANGED <<conf, live, always, chan, up, changes, liveOf>>

(* Faulty variant: the order in which the probes ended.                    *)
ReportUnsorted(k) == [j \in 1..Len(k.found) |-> k.list[k.found[j]]]

(* The entries that answered, in configured order again.                   *)
Report(k) == Taken(k.list, RangeOf(k.found))

(* A check that found no relay at all is not reported.                     *)
WorthSending(k) == k.found # <<>>

(* check_relay_servers: after the last probe the result is sent.           *)
Finish(c) ==
    /\ check[c].on /\ check[c].todo = {}
    /\ Len(chan) < MaxQueue
    /\ chan' = IF WorthSending(check[c])
               THEN Append(chan, [is |-> "live", list |-> Report(check[c]), of |-> check[c].list])
               ELSE chan
    /\ check' = [check EXCEPT ![c] = Idle]
    /\ UNCHANGED <<conf, live, always, up, changes, liveOf>>

(* The io loop takes a message: a list to configure, which is in use at    *)
(* once, or the result of a check.                                         *)
Receive ==
    /\ chan # <<>>
    /\ chan' = Tail(chan)
    /\ LET m == Head(chan) IN
       \/ m.is = "conf" /\ conf' = parse_relay_list(m.list) /\ live' = conf' /\ liveOf' = conf'
       \/ m.is = "live" /\ live' = m.list /\ liveOf' = m.of /\ UNCHANGED conf
    /\ UNCHANGED <<always, check, up, changes>>

Send(list) ==
    /\ Len(chan) < MaxQueue
    /\ chan' = Append(chan, [is |-> "conf", list |-> list, of |-> <<>>])

(* Console: relay-servers <list>.                                          *)
RelayServers(list) ==
    /\ Changed /\ Send(list)
    /\ UNCHANGED <<conf, live, always, check, up, liveOf>>

(* Console: always-use-relay Y|N; its argument is sent as a list too.      *)
AlwaysUseRelay(yn) ==
    /\ Changed /\ Send(<<yn>>)
    /\ always' = (yn = "Y")
    /\ UNCHANGED <<conf, live, check, up, liveOf>>

(* A relay starts or stops to answer.                                      *)
Flip(r) ==
    /\ Changed
    /\ up' = IF r \in up THEN up \ {r} ELSE up \union {r}
    /\ UNCHANGED <<conf, live, always, check, chan, liveOf>>

HealthNext ==
    \/ \E c \in Checks : Tick(c) \/ Finish(c) \/ \E i \in check[c].todo : Probe(c, i)
    \/ Receive
    \/ \E l \in Commands : RelayServers(l)
    \/ \E yn \in YesNo : AlwaysUseRelay(yn)
    \/ \E r \in Relay : Flip(r)

(* The timer keeps ticking, a probe ends (CHECK_RELAY_TIMEOUT at the       *)
(* latest), and the io loop comes round to its channel.                    *)
HealthFairness ==
    /\ \A c \in Checks : WF_healthVars(Tick(c)) /\ WF_healthVars(Finish(c))
    /\ \A c \in Checks : \A i \in 1..(Len(First) + 1) : WF_healthVars(Probe(c, i))
    /\ WF_healthVars(Receive)

HealthSpec == HealthInit /\ [][HealthNext]_healthVars /\ HealthFairness

-----------------------------------------------------------------------------
(* "Configured order is the tie-break between equally good relays ..., so  *)
(* put it back" (check_relay_servers): the relays handed out are in the    *)
(* order of the list they come from, each once.                            *)
OrderKept ==
    \A i, j \in 1..Len(live) : i < j =>
        \E k, l \in 1..Len(liveOf) : k < l /\ liveOf[k] = live[i] /\ liveOf[l] = live[j]

(* "If every relay fails that check, hbbs keeps the last list rather than  *)
(* using none": while relays are configured some relay is handed out.      *)
NeverNone == conf # <<>> => live # <<>>

(* Both: what check_relay_servers hands on.                                *)
LiveListSound == OrderKept /\ NeverNone

(* The relays handed out are in the end the configured ones that answer,   *)
(* whatever results of older checks or lists were still under way: when    *)
(* there are two or more to choose from, and one of them answers.          *)
ListSettles ==
    <>[](Len(conf) > 1 /\ RangeOf(conf) \intersect up # {} =>
         live = SelectSeq(conf, LAMBDA r : r \in up))

(* "To retire a relay, ... change the list live with the relay-servers     *)
(* console command": a relay that is no longer configured is, in the end,  *)
(* no longer handed out.                                                   *)
RetiredIsGone == <>[](RangeOf(live) \subseteq RangeOf(conf))
=============================================================================

----------------------------- MODULE IpBlocker -----------------------------
(***************************************************************************)
(* The limit on registrations from one address (check_ip_blocker of        *)
(* src/rendezvous_server.rs): a count of requests that a minute of quiet   *)
(* resets, and the set of ids asked for, which a day of quiet resets.      *)
(* The whole check runs under one lock.  One address is modelled; the      *)
(* entries of others do not matter to it.                                  *)
(***************************************************************************)
EXTENDS Naturals, FiniteSets

CONSTANTS Id,
          MaxRequests,  \* 30
          MaxIds,       \* 300
          BlockDur,     \* IP_BLOCK_DUR
          Day,          \* DAY_SECONDS
          Horizon       \* bound: ages are not told apart beyond this

ASSUME BlockerAssumption ==
    /\ MaxRequests \in Nat /\ MaxIds \in Nat
    /\ BlockDur \in Nat /\ Day \in Nat /\ Horizon \in Nat
    /\ Horizon > BlockDur /\ Horizon > Day /\ BlockDur <= Day

VARIABLES
    entry,    \* whether IP_BLOCKER has the address
    count,    \* the first counter, and its age
    age,
    ids,      \* the ids, and the age of that counter
    idAge,
    quiet,    \* history: the time since a request was last counted,
    idQuiet,  \* and since one was last let through below the limit of ids;
    burst,    \* requests let through with no more than BlockDur between them
    burstIds, \* ids let through with no more than Day between them
    verdict   \* the last answer: "none", "yes", "no"

blockerVars == <<entry, count, age, ids, idAge, quiet, idQuiet, burst, burstIds, verdict>>

BlockerInit ==
    /\ entry = FALSE /\ count = 0 /\ age = 0 /\ ids = {} /\ idAge = 0
    /\ quiet = Horizon /\ idQuiet = Horizon /\ burst = 0 /\ burstIds = {} /\ verdict = "none"

Expired == age > BlockDur
IdsExpired == idAge > Day

(* History.                                                                *)
Passed(id) ==
    /\ verdict' = "yes"
    /\ burst' = IF quiet > BlockDur THEN 1 ELSE burst + 1
    /\ burstIds' = (IF idQuiet > Day THEN {} ELSE burstIds) \union {id}

(* The address is not known: it is let through, and its id is not noted.   *)
FirstRequest(id) ==
    /\ ~ entry
    /\ entry' = TRUE /\ count' = 0 /\ age' = 0 /\ ids' = {} /\ idAge' = 0
    /\ Passed(id) /\ quiet' = 0 /\ idQuiet' = 0

OverLimit == count > MaxRequests

(* Faulty variant: a refusal counts as a request.                          *)
RefuseRequestProlongs(id) ==
    /\ entry /\ ~ Expired /\ OverLimit
    /\ verdict' = "no" /\ age' = 0
    /\ UNCHANGED <<entry, count, ids, idAge, burst, burstIds, quiet, idQuiet>>

(* Refused, and nothing changes: what is refused does not prolong a block. *)
RefuseRequest(id) ==
    /\ entry /\ ~ Expired /\ OverLimit
    /\ verdict' = "no"
    /\ UNCHANGED <<entry, count, age, ids, idAge, burst, burstIds, quiet, idQuiet>>

(* The request is counted.                                                 *)
Count ==
    /\ count' = (IF Expired THEN 0 ELSE count) + 1
    /\ age' = 0 /\ quiet' = 0
    /\ UNCHANGED entry

(* Too many ids: only a known one is let through; that counter keeps its   *)
(* age.                                                                    *)
AtIdLimit(id) ==
    /\ entry /\ (Expired \/ ~ OverLimit)
    /\ ~ IdsExpired /\ Cardinality(ids) > MaxIds
    /\ Count
    /\ \/ id \in ids /\ Passed(id)
       \/ /\ id \notin ids /\ verdict' = "no"
          /\ burst' = IF quiet > BlockDur THEN 0 ELSE burst
          /\ UNCHANGED burstIds
    /\ UNCHANGED <<ids, idAge, idQuiet>>

(* Faulty variant: the ids are not noted.                                  *)
NotedNot(id) == ids

(* The ids after a request that was let through.  Whether the id is new is *)
(* decided before a day of quiet empties the set.                          *)
Noted(id) == (IF IdsExpired THEN {} ELSE ids) \union ({id} \ ids)

LetThrough(id) ==
    /\ entry /\ (Expired \/ ~ OverLimit)
    /\ IdsExpired \/ Cardinality(ids) <= MaxIds
    /\ Count
    /\ Passed(id)
    /\ ids' = Noted(id) /\ idAge' = 0 /\ idQuiet' = 0

(* A second passes.                                                        *)
Older(n) == IF n < Horizon THEN n + 1 ELSE n

Tick ==
    /\ age' = Older(age) /\ idAge' = Older(idAge) /\ quiet' = Older(quiet)
    /\ idQuiet' = Older(idQuiet)
    /\ UNCHANGED <<entry, count, ids, burst, burstIds, verdict>>

(* Console: ip-blocker drops the entries whose counters are both old ...   *)
Outdated == Expired /\ IdsExpired

Retain ==
    /\ entry /\ Outdated
    /\ entry' = FALSE /\ count' = 0 /\ age' = 0 /\ ids' = {} /\ idAge' = 0
    /\ UNCHANGED <<burst, burstIds, quiet, idQuiet, verdict>>

(* ... and, with "-", the entry of the address.                            *)
Remove ==
    /\ entry
    /\ entry' = FALSE /\ count' = 0 /\ age' = 0 /\ ids' = {} /\ idAge' = 0
    /\ burst' = 0 /\ burstIds' = {} /\ quiet' = Horizon /\ idQuiet' = Horizon
    /\ UNCHANGED verdict

Request(id) == FirstRequest(id) \/ RefuseRequest(id) \/ AtIdLimit(id) \/ LetThrough(id)

BlockerNext == (\E id \in Id : Request(id)) \/ Tick \/ Retain \/ Remove

BlockerSpec == BlockerInit /\ [][BlockerNext]_blockerVars

-----------------------------------------------------------------------------
(* No more than MaxRequests + 2 requests of an address are let through     *)
(* without a pause of more than IP_BLOCK_DUR: the first is not counted,    *)
(* and the limit is compared before the count goes up.  This is what the   *)
(* code does; NOTES.md has it lower (BlockedAfterLimit).                   *)
BurstBounded == burst <= MaxRequests + 2

(* No more than MaxIds + 2 ids of an address are let through before a day  *)
(* passes in which none is noted.                                          *)
IdsBounded == Cardinality(burstIds) <= MaxIds + 2

(* Both limits of check_ip_blocker.                                        *)
LimitsHold == BurstBounded /\ IdsBounded

(* NOTES.md, of an address that registers more often than once a minute:   *)
(* it "is blocked after 31", that is after MaxRequests + 1 requests.       *)
BlockedAfterLimit == burst <= MaxRequests + 1

(* Being refused does not prolong a block: an address is refused for too   *)
(* many requests only if one was counted in the last IP_BLOCK_DUR.         *)
BlockEnds ==
    [][\A id \in Id : RefuseRequest(id) => quiet <= BlockDur]_blockerVars
=============================================================================

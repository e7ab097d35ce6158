------------------------------ MODULE PunchLog ------------------------------
(***************************************************************************)
(* The log of punch hole requests of hbbs (record_punch_req in             *)
(* src/rendezvous_server.rs): a queue of bounded length that the console   *)
(* command punch-requests lists and clears.  A request like one that the   *)
(* last LookBack entries hold is left out for DedupeSecs.                  *)
(***************************************************************************)
EXTENDS Naturals, Sequences

CONSTANTS From,        \* addresses that ask
          Id,          \* ids they ask for
          LookBack,    \* 30 in the code
          DedupeSecs,  \* PUNCH_REQ_DEDUPE_SEC
          NoRequest,
          MaxClock     \* bound: the time

ASSUME LogAssumption ==
    /\ LookBack \in Nat \ {0} /\ DedupeSecs \in Nat /\ MaxClock \in Nat
    /\ NoRequest \notin From \X Id

VARIABLES
    max,         \* PUNCH_REQ_MAX
    punch_reqs,
    clock,
    last         \* history: the request recorded last, and when

logVars == <<max, punch_reqs, clock, last>>

LogInit(m) ==
    /\ max = m
    /\ punch_reqs = <<>>
    /\ clock = 0
    /\ last = [req |-> NoRequest, tm |-> 0]

(* Faulty variant: iter() in place of iter().rev().                        *)
RecentFirst == 1..(IF Len(punch_reqs) < LookBack THEN Len(punch_reqs) ELSE LookBack)

(* The entries that are looked at, and those of them for the same request. *)
Recent == {i \in 1..Len(punch_reqs) : i + LookBack > Len(punch_reqs)}
Like(r) == {i \in Recent : punch_reqs[i].req = r}

(* The latest entry for the request decides.                               *)
Dup(r) ==
    \E i \in Like(r) :
        /\ \A j \in Like(r) : j <= i
        /\ clock - punch_reqs[i].tm < DedupeSecs

(* record_punch_req.                                                       *)
Record(r) ==
    /\ punch_reqs' =
           IF max = 0 \/ Dup(r) THEN punch_reqs
           ELSE Append(IF Len(punch_reqs) >= max THEN Tail(punch_reqs) ELSE punch_reqs,
                       [req |-> r, tm |-> clock])
    /\ last' = IF max = 0 THEN last ELSE [req |-> r, tm |-> clock]
    /\ UNCHANGED <<max, clock>>

(* "punch-requests -".                                                     *)
ClearLog ==
    /\ punch_reqs' = <<>>
    /\ last' = [last EXCEPT !.req = NoRequest]
    /\ UNCHANGED <<max, clock>>

Tick ==
    /\ clock < MaxClock
    /\ clock' = clock + 1
    /\ UNCHANGED <<max, punch_reqs, last>>

-----------------------------------------------------------------------------
(***************************************************************************)
(* The log never outgrows MAX_PUNCH_REQUESTS and is in the order of time,  *)
(* so the entry that decides is the youngest; a request is not logged      *)
(* twice within DedupeSecs unless LookBack others came in between; and the *)
(* request handled last is in the log, with an age below DedupeSecs.       *)
(***************************************************************************)
LogSound ==
    /\ Len(punch_reqs) <= max
    /\ \A i, j \in 1..Len(punch_reqs) : i < j =>
          /\ punch_reqs[i].tm <= punch_reqs[j].tm
          /\ punch_reqs[i].req = punch_reqs[j].req =>
                \/ punch_reqs[j].tm - punch_reqs[i].tm >= DedupeSecs
                \/ j - i > LookBack
    /\ last.req # NoRequest =>
          \E i \in 1..Len(punch_reqs) :
              /\ punch_reqs[i].req = last.req
              /\ punch_reqs[i].tm <= last.tm
              /\ DedupeSecs > 0 => last.tm - punch_reqs[i].tm < DedupeSecs
=============================================================================

----------------------------- MODULE Matchmaker -----------------------------
(***************************************************************************)
(* What the relay server hbbr promises, without saying how: a client's     *)
(* stream is open, then perhaps waits for its partner, then perhaps is     *)
(* joined with one, and ends closed.  A stream is joined with at most one  *)
(* partner in its life and only with one that asked for the same session;  *)
(* at most one waits for a session; two joined streams close together.     *)
(*                                                                         *)
(* RelayPairing, the model of src/relay_server.rs, is shown to implement   *)
(* this specification.                                                     *)
(***************************************************************************)
CONSTANTS Conn,     \* the connections that clients open
          Uuid,     \* the session names that two ends of a session present
          NoConn,   \* "no partner"
          NoUuid    \* "has not asked for a session"

VARIABLES stage,    \* stage[c]: where c's stream is in its life
          want,     \* want[c]: the session c asked for
          partner   \* partner[c]: whom c is, or was, joined with

absVars == <<stage, want, partner>>

MatchInit ==
    /\ stage = [c \in Conn |-> "open"]
    /\ want = [c \in Conn |-> NoUuid]
    /\ partner = [c \in Conn |-> NoConn]

(* A client names the one session it wants to take part in.                *)
Ask(c, u) ==
    /\ stage[c] = "open" /\ want[c] = NoUuid
    /\ want' = [want EXCEPT ![c] = u]
    /\ UNCHANGED <<stage, partner>>

(* A client that asked starts to wait, if nobody waits for its session.    *)
Wait(c) ==
    /\ stage[c] = "open" /\ want[c] # NoUuid
    /\ \A d \in Conn : ~ (stage[d] = "waiting" /\ want[d] = want[c])
    /\ stage' = [stage EXCEPT ![c] = "waiting"]
    /\ UNCHANGED <<want, partner>>

(* A client that asked takes the place of one that waits for the same      *)
(* session, which is closed.                                               *)
Displace(c, d) ==
    /\ stage[c] = "open" /\ want[c] # NoUuid
    /\ stage[d] = "waiting" /\ want[d] = want[c]
    /\ stage' = [stage EXCEPT ![c] = "waiting", ![d] = "closed"]
    /\ UNCHANGED <<want, partner>>

(* A client that asked is joined with one that waits for the same session. *)
Join(c, d) ==
    /\ stage[c] = "open" /\ want[c] # NoUuid
    /\ stage[d] = "waiting" /\ want[d] = want[c]
    /\ stage' = [stage EXCEPT ![c] = "joined", ![d] = "joined"]
    /\ partner' = [partner EXCEPT ![c] = d, ![d] = c]
    /\ UNCHANGED want

(* A stream that is not joined is closed.                                  *)
Drop(c) ==
    /\ stage[c] \in {"open", "waiting"}
    /\ stage' = [stage EXCEPT ![c] = "closed"]
    /\ UNCHANGED <<want, partner>>

(* Two joined streams are closed, both at once.                            *)
Part(c) ==
    /\ stage[c] = "joined"
    /\ stage' = [stage EXCEPT ![c] = "closed", ![partner[c]] = "closed"]
    /\ UNCHANGED <<want, partner>>

MatchNext ==
    \E c \in Conn :
        \/ \E u \in Uuid : Ask(c, u)
        \/ \E d \in Conn : Displace(c, d) \/ Join(c, d)
        \/ Wait(c) \/ Drop(c) \/ Part(c)

MatchSpec == MatchInit /\ [][MatchNext]_absVars
=============================================================================

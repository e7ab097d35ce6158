------------------------------- MODULE WsIdle -------------------------------
(***************************************************************************)
(* The clock of a websocket's task in hbbs (handle_listener_inner in       *)
(* src/rendezvous_server.rs): the select! that waits for a frame for at    *)
(* most poll_ms, the ping when it waited in vain, and the idle timeout.    *)
(*                                                                         *)
(* Time is counted in ticks.  select! drops the future that waits for a    *)
(* frame when a pushed message wins, so each turn of the loop, also one    *)
(* that only delivers a push, starts the wait anew.                        *)
(***************************************************************************)
EXTENDS Naturals

CONSTANTS PingInterval,  \* WS_PING_INTERVAL_MS
          IdleTimeout,   \* WS_IDLE_TIMEOUT, which the operator may set
          PongDelay,     \* the longest a live client takes to answer a ping
          MaxAge         \* bound of the model: no clock is followed further

ASSUME IdleAssumption ==
    /\ PingInterval \in Nat \ {0} /\ IdleTimeout \in Nat \ {0}
    /\ PongDelay \in Nat /\ MaxAge \in Nat

VARIABLES inLoop,     \* the task is in its loop
          age,        \* time since last_seen
          wait,       \* time since the wait for a frame began
          sincePush,  \* time since a message was last pushed to this client
          pinged,     \* time since a ping the client has not answered; 0 if none
          live        \* the client is there, and answers pings

idleVars == <<inLoop, age, wait, sincePush, pinged, live>>

(* poll_ms = WS_PING_INTERVAL_MS.min(idle_timeout_ms)                      *)
PollInterval == IF PingInterval < IdleTimeout THEN PingInterval ELSE IdleTimeout

IdleInit ==
    /\ inLoop = TRUE
    /\ age = 0 /\ wait = 0 /\ sincePush = MaxAge /\ pinged = 0
    /\ live = TRUE

(***************************************************************************)
(* Time passes, but not past the instant the timer fires nor past the time *)
(* by which a live client has answered.                                    *)
(***************************************************************************)
TimePasses ==
    /\ inLoop /\ wait < PollInterval /\ age < MaxAge
    /\ live => pinged <= PongDelay
    /\ age' = age + 1
    /\ wait' = wait + 1
    /\ sincePush' = IF sincePush < MaxAge THEN sincePush + 1 ELSE MaxAge
    /\ pinged' = IF pinged > 0 THEN pinged + 1 ELSE 0
    /\ UNCHANGED <<inLoop, live>>

(* A frame is read: a message, or the pong that answers a ping.            *)
Heard ==
    /\ inLoop /\ live
    /\ age' = 0 /\ wait' = 0 /\ pinged' = 0
    /\ UNCHANGED <<inLoop, sincePush, live>>

(* A pushed message is taken from the channel and written.                 *)
Pushed ==
    /\ inLoop
    /\ wait' = 0 /\ sincePush' = 0
    /\ UNCHANGED <<inLoop, age, pinged, live>>

(* Faulty variant: the timeout is looked at before the first ping.         *)
PollTimeoutEager ==
    /\ inLoop /\ wait = PollInterval
    /\ IF age >= PollInterval
       THEN inLoop' = FALSE /\ UNCHANGED <<wait, pinged>>
       ELSE /\ wait' = 0
            /\ pinged' = IF pinged = 0 THEN 1 ELSE pinged
            /\ UNCHANGED inLoop
    /\ UNCHANGED <<age, sincePush, live>>

(* No frame came within poll_ms: close an idle websocket, else ping.       *)
PollTimeout ==
    /\ inLoop /\ wait = PollInterval
    /\ \/ age >= IdleTimeout /\ inLoop' = FALSE /\ UNCHANGED <<wait, pinged>>
       \/ /\ age < IdleTimeout
          /\ wait' = 0
          /\ pinged' = IF pinged = 0 THEN 1 ELSE pinged
          /\ UNCHANGED inLoop
    /\ UNCHANGED <<age, sincePush, live>>

(* The client goes away without closing its websocket.                     *)
Die ==
    /\ live
    /\ live' = FALSE
    /\ UNCHANGED <<inLoop, age, wait, sincePush, pinged>>

IdleNext == TimePasses \/ Heard \/ Pushed \/ PollTimeout \/ Die

IdleSpec == IdleInit /\ [][IdleNext]_idleVars

-----------------------------------------------------------------------------
(* A client that answers its pings is not closed for being idle.  The      *)
(* comment on WS_PING_INTERVAL_MS: "a live but quiet client never hits the *)
(* idle timeout."                                                          *)
LiveStaysOpen == live => inLoop

(* ... if nothing was pushed to it since it was last heard: each push puts *)
(* the next ping off, but not the idle timeout.                            *)
LiveStaysOpenUnpushed == live /\ sincePush >= age => inLoop

(* A websocket on which nothing was read for the idle timeout is closed at *)
(* the next turn of the loop, one poll interval later at most, if nothing  *)
(* was pushed to its client meanwhile.                                     *)
IdleBoundUnpushed ==
    inLoop /\ sincePush >= age => age <= IdleTimeout + PollInterval

(* Both: the idle timeout closes the websockets it should, and only those. *)
IdleTimeoutRight == LiveStaysOpenUnpushed /\ IdleBoundUnpushed
=============================================================================

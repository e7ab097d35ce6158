--------------------------- MODULE MCRelayHealth ---------------------------
(***************************************************************************)
(* Instances of RelayHealth for TLC.  The lists have an entry twice, an    *)
(* entry that is not a relay, two orders, no relay, and a single relay.    *)
(***************************************************************************)
EXTENDS RelayHealth

CONSTANTS r1, r2, junk, k1, k2

MCRelay == {r1, r2}
MCJunk == {junk}
MCChecks == {k1, k2}
MCFirst == <<r1, junk, r2, r1>>
MCCommands == {<<r2, r1>>, <<junk>>}
MCSingle == {<<r2>>}
MCYesNo == {"Y", "N"}
Nothing == {}
=============================================================================

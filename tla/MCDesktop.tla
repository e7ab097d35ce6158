----------------------------- MODULE MCDesktop ------------------------------
(***************************************************************************)
(* Scenes for TLC: the two servers alone, with any files and two faults    *)
(* (as under systemd); a first start by a click of the UI; and the UI above*)
(* servers that have their key.                                            *)
(***************************************************************************)
EXTENDS Desktop

CONSTANTS hbbs, hbbr, k1, k2, k3, out, err

MCProc == {hbbs, hbbr}
MCKey == {k1, k2, k3}
MCFile == {out, err}

Scene(s, i, f, c, d, n, w) ==
    [start |-> s, items |-> i, faults |-> f, click |-> c, change |-> d, init |-> n, fail |-> w]

Service == {"start", "stop", "restart", "exit"}

MCScenes ==
    {Scene("no UI", {}, f, 0, 0, 0, 0) : f \in 0..MaxFaults} \union
    {Scene("new", Service, 0, 1, 0, 0, 0),
     Scene("down", Service, 0, 1, 0, 0, 0),
     Scene("up", Service, 0, 2, 0, 0, 0),
     Scene("down", {"save"}, 0, 1, 0, 1, 0),
     Scene("up", MCFile, 0, 1, 1, 1, 0),
     Scene("up", {err}, 0, 2, 2, 0, 0),
     Scene("up", MCFile, 0, 0, 1, 1, 1)}
=============================================================================

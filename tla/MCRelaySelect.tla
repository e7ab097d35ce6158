--------------------------- MODULE MCRelaySelect ---------------------------
(***************************************************************************)
(* Instances of RelaySelect for TLC: two clients a and b, with addresses of*)
(* two bits, and three relays.  The lists are what is healthy of           *)
(* <<r1, r2, r3>>.  Worlds of four kinds:                                  *)
(*  - routing tables that know a only and are replaced, with b asking for  *)
(*    a and a for b;                                                       *)
(*  - routing tables whose networks overlap, in either order; with equal   *)
(*    costs; and with each mistake that parse refuses;                     *)
(*  - GeoIP databases that know b or both, and relay locations that put a  *)
(*    nearer to r2 and b nearer to r1, or say nothing of r1;               *)
(*  - an operator who prefers r1, with two sessions and room for one held  *)
(*    choice;                                                              *)
(* and one more, with a relay that is listed at more than UNLISTED_COST_MS.*)
(***************************************************************************)
EXTENDS RelaySelect, TLC

CONSTANTS w1, r1, r2, r3, here, there

a == 0
b == 3
MCWorker == {w1}
MCAddr == {a, b}
MCRelay == {r1, r2, r3}

Line(addr, prefix, costs) == [net |-> [addr |-> addr, prefix |-> prefix], costs |-> costs]
Entry(r, ms) == [relay |-> r, ms |-> ms]

Replaced ==
    [pairs |-> {<<a, b>>, <<b, a>>}, wanted |-> {}, maxPins |-> 2,
     lists |-> {<<r1, r2>>, <<r2, r3>>},
     texts |-> {<<Line(a, 2, <<Entry(r2, 5), Entry(r1, 50)>>)>>, <<Line(a, 2, <<Entry(r1, 5)>>)>>, Bad},
     places |-> {Bad}, locations |-> {Bad}]

Wide == Line(1, 0, <<Entry(r1, 5), Entry(r2, 9)>>)
Narrow == Line(1, 1, <<Entry(r2, 900)>>)
Single == Line(b, 2, <<Entry(r2, 5), Entry(r1, 19)>>)

Routed(good, refused) ==
    [pairs |-> {<<a, b>>}, wanted |-> {}, maxPins |-> 2,
     lists |-> {<<r1, r2>>}, texts |-> {good, refused, Bad},
     places |-> {Bad}, locations |-> {Bad}]

Overlapping ==
    {Routed(<<Wide, Single>>, <<>>),
     Routed(<<Narrow, Single, Wide>>, <<Narrow, Line(0, 1, <<Entry(r1, 1)>>)>>),
     Routed(<<Line(a, 2, <<Entry(r2, 1)>>), Line(b, 2, <<Entry(r1, 1)>>)>>,
            <<Line(b, 1, <<Entry(r1, 1), Entry(r1, 2)>>)>>),
     Routed(<<Wide, Line(b, 1, <<Entry(r1, 1)>>)>>, <<Line(b, 1, <<Bad>>)>>)}

MCDistance ==
    <<here, here>> :> 0 @@ <<here, there>> :> 60 @@ <<there, here>> :> 60 @@ <<there, there>> :> 0

At(r, place) == [relay |-> r, at |-> place]

Located(places, locations) ==
    [pairs |-> {<<a, b>>}, wanted |-> {}, maxPins |-> 2,
     lists |-> {<<r1, r2>>}, texts |-> {Bad}, places |-> places, locations |-> locations]

Geo ==
    {Located({a :> here @@ b :> there, b :> there, Bad}, {<<At(r1, there), At(r2, here)>>}),
     Located({a :> here}, {<<At(r2, here)>>, <<At(r1, here), At(r1, there)>>, Bad})}

Preferring ==
    [pairs |-> {<<a, b>>, <<a, a>>}, wanted |-> {r1}, maxPins |-> 1,
     lists |-> {<<r1, r2>>, <<r2>>},
     texts |-> {Bad}, places |-> {Bad}, locations |-> {Bad}]

CostlyWorlds == {Routed(<<Line(a, 2, <<Entry(r2, 2000)>>)>>, <<>>)}

MCWorlds == {Replaced, Preferring} \union Geo \union Overlapping
=============================================================================

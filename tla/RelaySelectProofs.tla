-------------------------- MODULE RelaySelectProofs --------------------------
(***************************************************************************)
(* What pick answers and holds (RelaySelect), for any number of callers,   *)
(* and for one at a time that both ends of a session get one answer.       *)
(***************************************************************************)
EXTENDS RelaySelect, FiniteSetTheorems, TLAPS

(* The provers are given time: SMT first, then Zenon.                      *)
USE SMTT(40), ZenonT(40)

(* What is in memory is what the file says, unless the file is being       *)
(* changed or the operator was told; the file is removed only when none is *)
(* preferred.                                                              *)
PrefInv ==
    /\ warned \/ cpc \in Saving \/ pref = prefFile
    /\ cpc = "remove" => pref = NoRelay

LEMMA PrefInvariant == Spec => []PrefInv
<1>1. Init => PrefInv
  BY DEF Init, PrefInv
<1>2. PrefInv /\ [Next]_<<vars, world>> => PrefInv'
  <2> SUFFICES ASSUME PrefInv, [Next]_<<vars, world>> PROVE PrefInv'
    OBVIOUS
  <2>1. ASSUME UNCHANGED <<pref, prefFile, warned, cpc>> PROVE PrefInv'
    BY <2>1 DEF PrefInv
  <2>2. ASSUME NEW r \in Wanted, UseRelay(r) \/ UseAuto PROVE PrefInv'
    BY <2>2 DEF PrefInv, UseRelay, UseAuto, Commanded, Saving
  <2>3. CASE UseNothing \/ CommandClears
    BY <2>3 DEF PrefInv, UseNothing, Commanded, CommandClears, store, Saving
  <2>8. CASE OpenFile \/ WriteChoice \/ Remove
    BY <2>8, Zenon DEF PrefInv, OpenFile, WriteChoice, Remove, OnFile, Saving
  <2>4. CASE Restart
    BY <2>4 DEF PrefInv, Restart
  <2>5. ASSUME NEW w \in Worker, Step(w) PROVE UNCHANGED <<pref, prefFile, warned, cpc>>
    BY <2>5, Zenon DEF Step, Preferred, Pinned, SideRoutes, SideLocate, SideGeo, Choose, Pin, store
  <2>6. ASSUME NEW w \in Worker, NEW c \in Calls, Pick(w, c) PROVE UNCHANGED <<pref, prefFile, warned, cpc>>
    BY <2>6 DEF Pick, store
  <2>7. ASSUME \/ \E l \in Lists : SetLive(l)
               \/ \E k \in Key : Expire(k)
               \/ \E f \in {"routes", "db", "loc"} :
                     \E x \in {y[f] : y \in Files} : WriteFile(f, x)
               \/ ReloadRoutes \/ LoadGeo \/ SetGeo \/ ClearPins
               \/ UNCHANGED <<vars, world>>
        PROVE  UNCHANGED <<pref, prefFile, warned, cpc>>
    BY <2>7, Zenon DEF SetLive, Expire, WriteFile, ReloadRoutes, LoadGeo, SetGeo, ClearPins,
                store, vars
  <2> QED BY <2>1, <2>2, <2>3, <2>4, <2>5, <2>6, <2>7, <2>8, ZenonT(40) DEF Next
<1> QED BY <1>1, <1>2, PTL DEF Spec

(* Whatever commands were given and whichever writes failed, hbbs starts   *)
(* again with the preference it was stopped with, unless use-relay said    *)
(* that it could not be saved or was still saving it.                      *)
THEOREM ChoiceSurvivesHolds == Spec => ChoiceSurvives
<1>1. PrefInv /\ [Next]_<<vars, world>> => [Restart => warned \/ cpc \in Saving \/ pref' = pref]_vars
  BY DEF PrefInv, Restart
<1> QED BY <1>1, PrefInvariant, PTL DEF Spec, ChoiceSurvives

-----------------------------------------------------------------------------
(* The choices that are held.                                              *)
HeldIn(ps) == {k \in Key : ps[k].relay # NoRelay}
PinFields == {"relay", "fresh", "old", "raced"}
Recorded(ps) == \A k \in Key : ps[k] = [f \in PinFields |-> ps[k][f]]
NoneStale(ps) == \A k \in Key : ps[k].relay # NoRelay /\ ps[k].old => ps[k].raced

PinsInv ==
    /\ world \in Worlds
    /\ pins = [k \in Key |-> pins[k]] /\ Recorded(pins)
    /\ IsFiniteSet(HeldIn(pins)) /\ Cardinality(HeldIn(pins)) <= MaxPins
    /\ lpc \notin {"clear", "clear2"} => NoneStale(pins)

LEMMA MaxPinsIsNat == ASSUME world \in Worlds PROVE MaxPins \in Nat /\ MaxPins # 0
  BY SelectAssumption DEF MaxPins

LEMMA NoPinsOK ==
    /\ NoPins = [k \in Key |-> NoPins[k]] /\ Recorded(NoPins) /\ NoneStale(NoPins)
    /\ HeldIn(NoPins) = {}
<1>1. /\ NoPin.relay = NoRelay
      /\ NoPin = [f \in PinFields |-> NoPin[f]]
  BY DEF NoPin, PinFields
<1>2. \A k \in Key : NoPins[k] = NoPin
  BY DEF NoPins
<1>3. NoPins = [k \in Key |-> NoPins[k]]
  BY DEF NoPins
<1>4. Recorded(NoPins) /\ NoneStale(NoPins) /\ HeldIn(NoPins) = {}
  BY <1>1, <1>2, Zenon DEF Recorded, NoneStale, HeldIn
<1> QED BY <1>3, <1>4

(* No more is held than before.                                            *)
LEMMA FewerHeld ==
    ASSUME PinsInv, UNCHANGED world, HeldIn(pins') \subseteq HeldIn(pins)
    PROVE  IsFiniteSet(HeldIn(pins')) /\ Cardinality(HeldIn(pins')) <= MaxPins'
<1>1. /\ IsFiniteSet(HeldIn(pins')) /\ Cardinality(HeldIn(pins')) <= Cardinality(HeldIn(pins))
      /\ Cardinality(HeldIn(pins)) \in Nat /\ Cardinality(HeldIn(pins')) \in Nat
  BY FS_Subset, FS_CardinalityType DEF PinsInv
<1>2. MaxPins \in Nat /\ MaxPins' = MaxPins
  BY MaxPinsIsNat DEF PinsInv, MaxPins
<1> QED BY <1>1, <1>2 DEF PinsInv

(* Every choice is dropped.                                                *)
LEMMA ClearingKeeps == ASSUME PinsInv, pins' = NoPins, UNCHANGED world PROVE PinsInv'
<1>1. HeldIn(pins') \subseteq HeldIn(pins)
  BY NoPinsOK
<1> QED BY <1>1, NoPinsOK, FewerHeld DEF PinsInv

(* The data changes: what is held becomes old.                             *)
LEMMA MarkingKeeps ==
    ASSUME PinsInv, pins' = MarkOld(pins), lpc' \in {"clear", "clear2"}, UNCHANGED world
    PROVE  PinsInv'
<1>1. ASSUME NEW k \in Key
      PROVE  /\ pins'[k] = [f \in PinFields |-> pins'[k][f]]
             /\ pins'[k].relay = pins[k].relay
  <2>1. CASE pins[k].relay = NoRelay
    <3>1. pins'[k] = NoPin
      BY <2>1 DEF MarkOld
    <3> QED BY <2>1, <3>1 DEF NoPin, PinFields
  <2>2. CASE pins[k].relay # NoRelay
    <3>1. pins'[k] = [pins[k] EXCEPT !.old = TRUE]
      BY <2>2 DEF MarkOld
    <3>2. pins[k] = [f \in PinFields |-> pins[k][f]]
      BY DEF PinsInv, Recorded
    <3> QED BY <3>1, <3>2, Zenon DEF PinFields
  <2> QED BY <2>1, <2>2
<1>2. pins' = [k \in Key |-> pins'[k]]
  BY DEF MarkOld
<1>3. Recorded(pins') /\ HeldIn(pins') = HeldIn(pins)
  BY <1>1, Zenon DEF Recorded, HeldIn
<1> QED BY <1>2, <1>3, FewerHeld DEF PinsInv

(* A choice expires.                                                       *)
LEMMA ExpiringKeeps ==
    ASSUME PinsInv, NEW k \in Key, pins' = [pins EXCEPT ![k].fresh = FALSE], UNCHANGED <<lpc, world>>
    PROVE  PinsInv'
<1>1. ASSUME NEW j \in Key
      PROVE  /\ pins'[j] = [f \in PinFields |-> pins'[j][f]]
             /\ pins'[j].relay = pins[j].relay
             /\ pins'[j].old = pins[j].old
             /\ pins'[j].raced = pins[j].raced
  <2>1. pins[j] = [f \in PinFields |-> pins[j][f]] /\ pins = [i \in Key |-> pins[i]]
    BY DEF PinsInv, Recorded
  <2>2. pins'[j] = IF j = k THEN [pins[j] EXCEPT !.fresh = FALSE] ELSE pins[j]
    BY <2>1, Zenon
  <2> QED BY <2>1, <2>2, ZenonT(40) DEF PinFields
<1>2. pins' = [j \in Key |-> pins'[j]]
  BY Zenon DEF PinsInv
<1>3. Recorded(pins') /\ HeldIn(pins') = HeldIn(pins)
  BY <1>1, Zenon DEF Recorded, HeldIn
<1>4. NoneStale(pins) => NoneStale(pins')
  BY <1>1 DEF NoneStale
<1> QED BY <1>2, <1>3, <1>4, FewerHeld, ZenonT(40) DEF PinsInv

(* A choice is dropped.                                                    *)
LEMMA DroppingKeeps ==
    ASSUME PinsInv, NEW k, pins' = [pins EXCEPT ![k] = NoPin], UNCHANGED <<lpc, world>>
    PROVE  PinsInv'
<1>1. \A j \in Key : pins'[j] = IF j = k THEN NoPin ELSE pins[j]
  BY DEF PinsInv
<1>2. pins' = [j \in Key |-> pins'[j]]
  BY DEF PinsInv
<1>3. NoPin.relay = NoRelay /\ NoPin = [f \in PinFields |-> NoPin[f]]
  BY DEF NoPin, PinFields
<1>4. Recorded(pins')
  BY <1>1, <1>3 DEF PinsInv, Recorded
<1>5. HeldIn(pins') \subseteq HeldIn(pins)
  BY <1>1, <1>3 DEF HeldIn
<1>6. NoneStale(pins) => NoneStale(pins')
  BY <1>1, <1>3, ZenonT(40) DEF NoneStale
<1> QED BY <1>2, <1>4, <1>5, <1>6, FewerHeld DEF PinsInv

(* Room makes room for one more.                                           *)
LEMMA RoomIsMade ==
    ASSUME PinsInv
    PROVE  /\ \A j \in Key : Room[j] = pins[j] \/ Room[j] = NoPin
           /\ Room = [j \in Key |-> Room[j]]
           /\ IsFiniteSet(HeldIn(Room)) /\ Cardinality(HeldIn(Room)) < MaxPins
<1> DEFINE used == {j \in Key : Held(j)}
           fresh == {j \in used : pins[j].fresh}
           keep == IF Cardinality(used) < MaxPins THEN used
                   ELSE IF Cardinality(fresh) < MaxPins THEN fresh ELSE {}
<1>0. MaxPins \in Nat /\ MaxPins # 0
  BY MaxPinsIsNat DEF PinsInv
<1>1. Room = [j \in Key |-> IF j \in keep THEN pins[j] ELSE NoPin]
  BY DEF Room
<1>2. used = HeldIn(pins)
  BY DEF HeldIn, Held
<1>3. keep \subseteq used
  OBVIOUS
<1>4. IsFiniteSet(keep) /\ Cardinality(keep) < MaxPins
  <2>1. IsFiniteSet(used) /\ IsFiniteSet(fresh)
    <3>1. fresh \subseteq used
      OBVIOUS
    <3> HIDE DEF fresh, used
    <3> QED BY <1>2, <3>1, FS_Subset DEF PinsInv
  <2> HIDE DEF used, fresh
  <2> QED BY <1>0, <2>1, FS_EmptySet
<1> HIDE DEF keep, used
<1>5. NoPin.relay = NoRelay
  BY DEF NoPin
<1>6. HeldIn(Room) \subseteq keep
  BY <1>1, <1>5 DEF HeldIn
<1>7. /\ IsFiniteSet(HeldIn(Room)) /\ Cardinality(HeldIn(Room)) <= Cardinality(keep)
      /\ Cardinality(keep) \in Nat /\ Cardinality(HeldIn(Room)) \in Nat
  BY <1>4, <1>6, FS_Subset, FS_CardinalityType
<1>8. Cardinality(HeldIn(Room)) < MaxPins
  BY <1>0, <1>4, <1>7
<1> QED BY <1>1, <1>7, <1>8

(* A choice is held.                                                       *)
LEMMA PinningKeeps ==
    ASSUME PinsInv, NEW k, NEW r, NEW b \in BOOLEAN, UNCHANGED <<lpc, world>>,
           pins' = [Room EXCEPT ![k] = [relay |-> r, fresh |-> TRUE, old |-> b, raced |-> b]]
    PROVE  PinsInv'
<1> DEFINE new == [relay |-> r, fresh |-> TRUE, old |-> b, raced |-> b]
<1>1. new = [f \in PinFields |-> new[f]] /\ new.old = new.raced
  BY DEF PinFields
<1>2. NoPin.relay = NoRelay /\ NoPin = [f \in PinFields |-> NoPin[f]]
  BY DEF NoPin, PinFields
<1> HIDE DEF new
<1>3. pins' = [Room EXCEPT ![k] = new]
  BY DEF new
<1>4. \A j \in Key : pins'[j] = (IF j = k THEN new ELSE Room[j])
  BY <1>3, RoomIsMade, Zenon
<1>5. pins' = [j \in Key |-> pins'[j]]
  BY <1>3, RoomIsMade, Zenon
<1>6. \A j \in Key : pins'[j] = new \/ pins'[j] = pins[j] \/ pins'[j] = NoPin
  BY <1>4, RoomIsMade
<1>7. Recorded(pins')
  <2> SUFFICES ASSUME NEW j \in Key PROVE pins'[j] = [f \in PinFields |-> pins'[j][f]]
    BY Zenon DEF Recorded
  <2>1. pins[j] = [f \in PinFields |-> pins[j][f]]
    BY DEF PinsInv, Recorded
  <2> QED BY <1>1, <1>2, <1>6, <2>1, ZenonT(40)
<1>8. NoneStale(pins) => NoneStale(pins')
  BY <1>1, <1>2, <1>6, ZenonT(40) DEF NoneStale
<1>9. HeldIn(pins') \subseteq HeldIn(Room) \union {k}
  BY <1>4 DEF HeldIn
<1>10. /\ IsFiniteSet(HeldIn(Room) \union {k})
       /\ Cardinality(HeldIn(Room) \union {k}) <= Cardinality(HeldIn(Room)) + 1
       /\ Cardinality(HeldIn(Room)) \in Nat
  <2>1. IsFiniteSet(HeldIn(Room)) /\ Cardinality(HeldIn(Room)) \in Nat
    BY RoomIsMade, FS_CardinalityType
  <2>2. /\ IsFiniteSet(HeldIn(Room) \union {k})
        /\ \/ Cardinality(HeldIn(Room) \union {k}) = Cardinality(HeldIn(Room))
           \/ Cardinality(HeldIn(Room) \union {k}) = Cardinality(HeldIn(Room)) + 1
    BY <2>1, FS_AddElement, ZenonT(40)
  <2> QED BY <2>1, <2>2
<1>11. /\ IsFiniteSet(HeldIn(pins'))
       /\ Cardinality(HeldIn(pins')) <= Cardinality(HeldIn(Room) \union {k})
       /\ Cardinality(HeldIn(pins')) \in Nat /\ Cardinality(HeldIn(Room) \union {k}) \in Nat
  BY <1>9, <1>10, FS_Subset, FS_CardinalityType, ZenonT(40)
<1>12. MaxPins \in Nat /\ MaxPins' = MaxPins /\ Cardinality(HeldIn(Room)) < MaxPins
  BY MaxPinsIsNat, RoomIsMade DEF PinsInv, MaxPins
<1>13. Cardinality(HeldIn(pins')) <= MaxPins'
  BY <1>10, <1>11, <1>12
<1> QED BY <1>5, <1>7, <1>8, <1>11, <1>13 DEF PinsInv

LEMMA PinsInvariant == Spec => []PinsInv
<1>1. Init => PinsInv
  <2> SUFFICES ASSUME Init PROVE PinsInv
    OBVIOUS
  <2>1. world \in Worlds /\ pins = NoPins
    BY DEF Init
  <2>2. IsFiniteSet(HeldIn(pins)) /\ Cardinality(HeldIn(pins)) = 0
    BY <2>1, NoPinsOK, FS_EmptySet
  <2>3. MaxPins \in Nat
    BY <2>1, MaxPinsIsNat
  <2>4. Cardinality(HeldIn(pins)) <= MaxPins
    BY <2>2, <2>3
  <2> QED BY <2>1, <2>2, <2>4, NoPinsOK, Zenon DEF PinsInv
<1>2. PinsInv /\ [Next]_<<vars, world>> => PinsInv'
  <2> SUFFICES ASSUME PinsInv, [Next]_<<vars, world>> PROVE PinsInv'
    OBVIOUS
  <2>0. UNCHANGED world
    BY DEF Next
  <2>1. ASSUME UNCHANGED pins, lpc' = lpc \/ lpc \notin {"clear", "clear2"}
        PROVE  PinsInv'
    BY <2>0, <2>1 DEF PinsInv, MaxPins
  <2>2. ASSUME NEW w \in Worker, Step(w) PROVE PinsInv'
    <3>1. UNCHANGED lpc
      BY <2>2, Zenon DEF Step, Preferred, Pinned, SideRoutes, SideLocate, SideGeo, Choose, Pin
    <3>2. CASE Pin(w)
      <4> DEFINE b == w \in raced
      <4>1. b \in BOOLEAN
        OBVIOUS
      <4>2. \/ UNCHANGED pins
            \/ pins' = [Room EXCEPT ![KeyOf(call[w])] =
                           [relay |-> ans[w], fresh |-> TRUE, old |-> b, raced |-> b]]
        BY <3>2 DEF Pin
      <4> HIDE DEF b
      <4> QED BY <2>0, <2>1, <3>1, <4>1, <4>2, PinningKeeps, ZenonT(40)
    <3>3. CASE Pinned(w)
      <4>1. UNCHANGED pins \/ pins' = [pins EXCEPT ![KeyOf(call[w])] = NoPin]
        BY <3>3 DEF Pinned
      <4> QED BY <2>0, <2>1, <3>1, <4>1, DroppingKeeps
    <3>4. CASE ~ Pin(w) /\ ~ Pinned(w)
      <4>1. UNCHANGED pins
        BY <2>2, <3>4, ZenonT(40) DEF Step, Preferred, SideRoutes, SideLocate, SideGeo, Choose
      <4> QED BY <2>1, <3>1, <4>1
    <3> QED BY <3>2, <3>3, <3>4
  <2>3. ASSUME NEW k \in Key, Expire(k) PROVE PinsInv'
    BY <2>0, <2>3, ExpiringKeeps, Zenon DEF Expire
  <2>4. CASE ReloadRoutes
    <3>1. \/ UNCHANGED pins /\ lpc = "idle" /\ lpc' = "geo"
          \/ pins' = MarkOld(pins) /\ lpc' = "clear"
      BY <2>4 DEF ReloadRoutes
    <3> QED BY <2>0, <2>1, <3>1, MarkingKeeps
  <2>5. CASE SetGeo
    <3>1. \/ UNCHANGED pins /\ lpc = "set" /\ lpc' = "idle"
          \/ pins' = MarkOld(pins) /\ lpc' = "clear2"
      BY <2>5 DEF SetGeo
    <3> QED BY <2>0, <2>1, <3>1, MarkingKeeps
  <2>6. CASE ClearPins \/ CommandClears \/ Restart
    BY <2>0, <2>6, ClearingKeeps DEF ClearPins, CommandClears, Restart
  <2>7. CASE LoadGeo
    BY <2>1, <2>7 DEF LoadGeo
  <2>8. CASE \/ \E w \in Worker : \E c \in Calls : Pick(w, c)
             \/ \E l \in Lists : SetLive(l)
             \/ \E f \in {"routes", "db", "loc"} :
                   \E x \in {y[f] : y \in Files} : WriteFile(f, x)
             \/ \E r \in Wanted : UseRelay(r)
             \/ UseAuto \/ UseNothing \/ OpenFile \/ WriteChoice \/ Remove
             \/ UNCHANGED <<vars, world>>
    <3>1. UNCHANGED <<pins, lpc>>
      BY <2>8, ZenonT(40) DEF Pick, SetLive, WriteFile, UseRelay, UseAuto, UseNothing, Commanded,
                  OpenFile, WriteChoice, Remove, OnFile, vars
    <3> QED BY <2>1, <3>1
  <2> QED BY <2>2, <2>3, <2>4, <2>5, <2>6, <2>7, <2>8, ZenonT(40) DEF Next
<1> QED BY <1>1, <1>2, PTL DEF Spec

(* The table of held choices stays within MAX_RELAY_PINS, and after a      *)
(* reload holds nothing chosen before it but by calls it overtook.         *)
THEOREM PinsSoundHolds == Spec => []PinsSound
<1>1. PinsInv => PinsSound
  BY DEF PinsInv, PinsSound, PinsBounded, PinsAreCurrentOrRaced, HeldIn, Held, NoneStale
<1> QED BY <1>1, PinsInvariant, PTL

-----------------------------------------------------------------------------
(* A set of numbers has a least one.                                       *)
LEMMA FirstOfSome ==
    ASSUME NEW S \in SUBSET Nat, S # {}
    PROVE  \E m \in S : \A j \in S : m <= j
<1> DEFINE R == {ss \in Nat \X Nat : ss[1] < ss[2]}
<1>1. IsWellFoundedOn(R, Nat)
  BY NatLessThanWellFounded DEF OpToRel
<1>2. ASSUME NEW x \in Nat, NEW y \in Nat, y < x PROVE <<y, x>> \in R
  <2>1. <<y, x>> \in Nat \X Nat /\ <<y, x>>[1] = y /\ <<y, x>>[2] = x
    OBVIOUS
  <2> QED BY <1>2, <2>1, Zenon
<1> HIDE DEF R
<1>3. PICK m \in S : \A j \in S : ~ (<<j, m>> \in R)
  BY <1>1, WFMin, Zenon
<1>4. \A j \in S : ~ (j < m)
  BY <1>2, <1>3, Zenon
<1> QED BY <1>3, <1>4

-----------------------------------------------------------------------------
(* The loop of choose_from: what it keeps after looking at the relays 1..i.*)
Better(h, k, i, b) == IF Total(k, h[i]) < Total(k, h[b]) THEN i ELSE b
Keeps(f, h, k, n) == f = [i \in 1..n |-> IF i = 1 THEN 1 ELSE Better(h, k, i, f[i - 1])]

(* There is such a function, for every length.                             *)
LEMMA LoopIsDefined == ASSUME NEW h, NEW known, NEW n \in Nat PROVE \E f : Keeps(f, h, known, n)
<1> DEFINE S == {k \in Nat : ~ \E f : Keeps(f, h, known, k)}
<1> SUFFICES ASSUME S # {} PROVE FALSE
  OBVIOUS
<1>1. PICK m \in S : \A j \in S : m <= j
  <2>1. S \in SUBSET Nat
    OBVIOUS
  <2> HIDE DEF S
  <2> QED BY <2>1, FirstOfSome
<1>2. m # 0
  <2>1. Keeps([i \in 1..0 |-> IF i = 1 THEN 1 ELSE 0], h, known, 0)
    BY DEF Keeps
  <2> QED BY <1>1, <2>1
<1>3. m \in Nat /\ m - 1 \in Nat /\ m - 1 \notin S
  BY <1>1, <1>2
<1>4. PICK f : Keeps(f, h, known, m - 1)
  BY <1>3
<1> DEFINE v == IF m = 1 THEN 1 ELSE Better(h, known, m, f[m - 1])
           g == [i \in 1..m |-> IF i = m THEN v ELSE f[i]]
<1>5. ASSUME NEW i \in 1..m PROVE g[i] = IF i = 1 THEN 1 ELSE Better(h, known, i, g[i - 1])
  <2>1. CASE i = m
    <3>1. i # 1 => i - 1 \in 1..m /\ i - 1 # m
      BY <1>3
    <3> QED BY <2>1, <3>1
  <2>2. CASE i # m
    <3>1. i \in 1..(m - 1) /\ (i # 1 => i - 1 \in 1..m /\ i - 1 # m)
      BY <1>3, <2>2
    <3>2. f[i] = IF i = 1 THEN 1 ELSE Better(h, known, i, f[i - 1])
      BY <1>4, <3>1 DEF Keeps
    <3> QED BY <2>2, <3>1, <3>2
  <2> QED BY <2>1, <2>2
<1>6. Keeps(g, h, known, m)
  <2> HIDE DEF v
  <2>1. g = [i \in 1..m |-> IF i = 1 THEN 1 ELSE Better(h, known, i, g[i - 1])]
    BY <1>5
  <2> QED BY <2>1 DEF Keeps
<1> QED BY <1>1, <1>6

(* It keeps one of the relays it has looked at.                            *)
LEMMA LoopKeepsOne ==
    ASSUME NEW h, NEW known, NEW n \in Nat, NEW f, Keeps(f, h, known, n), NEW i \in 1..n
    PROVE  f[i] \in 1..i
<1> DEFINE S == {k \in 1..n : f[k] \notin 1..k}
<1> SUFFICES ASSUME S # {} PROVE FALSE
  OBVIOUS
<1>1. PICK m \in S : \A j \in S : m <= j
  <2>1. S \in SUBSET Nat
    OBVIOUS
  <2> HIDE DEF S
  <2> QED BY <2>1, FirstOfSome
<1>2. m \in 1..n /\ f[m] = IF m = 1 THEN 1 ELSE Better(h, known, m, f[m - 1])
  BY <1>1 DEF Keeps
<1>3. m # 1 => m - 1 \in 1..n /\ f[m - 1] \in 1..(m - 1)
  BY <1>1, <1>2
<1> QED BY <1>1, <1>2, <1>3 DEF Better

(* choose_from goes through this loop.                                     *)
LEMMA ChooseFromLoops ==
    ASSUME NEW healthy, Len(healthy) \in Nat, NEW known
    PROVE  \E f : /\ Keeps(f, healthy, known, Len(healthy))
                 /\ choose_from(healthy, known) = healthy[f[Len(healthy)]]
<1> DEFINE n == Len(healthy)
           f == CHOOSE g : Keeps(g, healthy, known, n)
<1>1. choose_from(healthy, known) = healthy[f[n]]
  BY DEF choose_from, Keeps, Better
<1>2. \E g : Keeps(g, healthy, known, n)
  BY LoopIsDefined, ZenonT(40)
<1>3. Keeps(f, healthy, known, n)
  BY <1>2, Zenon
<1> QED BY <1>1, <1>3, Zenon

(* The answer of choose_from is one of the healthy relays, whatever the    *)
(* costs are.                                                              *)
LEMMA ChosenIsHealthy ==
    ASSUME NEW R, NEW healthy \in Seq(R), healthy # <<>>, NEW known
    PROVE  choose_from(healthy, known) \in RangeOf(healthy)
<1>1. Len(healthy) \in Nat /\ Len(healthy) # 0
  OBVIOUS
<1>2. PICK f : /\ Keeps(f, healthy, known, Len(healthy))
               /\ choose_from(healthy, known) = healthy[f[Len(healthy)]]
  BY <1>1, ChooseFromLoops
<1>3. f[Len(healthy)] \in 1..Len(healthy)
  BY <1>1, <1>2, LoopKeepsOne
<1> QED BY <1>2, <1>3 DEF RangeOf

-----------------------------------------------------------------------------
(* A call keeps the list it copied; past the test of the preference there  *)
(* is a choice to make and the relay that was preferred all along is not   *)
(* in it; what is about to be held is in it.                               *)
Labels == {"idle", "preferred", "pinned", "routes", "locate", "geo", "routes2", "locate2",
           "geo2", "choose", "pin"}
Choosing == Labels \ {"idle", "preferred"}
Answers == Relay \union {NoRelay}

CallOK(w) ==
    /\ pc[w] = "preferred" => want[w] \in {pref, NoRelay}
    /\ pc[w] \in Choosing => Len(snap[w]) >= 2 /\ want[w] \notin RangeOf(snap[w])
    /\ pc[w] = "pin" => ans[w] \in RangeOf(snap[w])

PickTypeOK ==
    /\ world \in Worlds
    /\ live \in Seq(Relay)
    /\ rotation \in Nat
    /\ pc \in [Worker -> Labels]
    /\ snap \in [Worker -> Seq(Relay)]
    /\ ans \in [Worker -> Answers]
    /\ want = [w \in Worker |-> want[w]]

PickInv == PickTypeOK /\ \A w \in Worker : CallOK(w)

LEMMA RangeOfRelays == ASSUME NEW l \in Seq(Relay) PROVE RangeOf(l) \subseteq Relay /\ NoRelay \notin RangeOf(l)
<1>1. ASSUME NEW r \in RangeOf(l) PROVE r \in Relay
  <2>1. PICK i \in 1..Len(l) : r = l[i]
    BY DEF RangeOf
  <2> QED BY <2>1
<1> QED BY <1>1, SelectAssumption

LEMMA ListsAreSeqs == ASSUME world \in Worlds PROVE Lists \subseteq Seq(Relay)
  BY SelectAssumption DEF Lists

(* The other calls do not see a step of w.                                 *)
LEMMA OthersKept ==
    ASSUME PickInv, NEW w \in Worker, NEW v \in Worker, v # w, UNCHANGED pref,
           pc'[v] = pc[v], snap'[v] = snap[v], ans'[v] = ans[v], want'[v] = want[v]
    PROVE  CallOK(v)'
  BY DEF PickInv, CallOK, RangeOf

(* A call that returns.                                                    *)
LEMMA ReturnKeeps ==
    ASSUME PickInv, NEW w \in Worker, NEW r \in Answers, Return(w),
           ans' = [ans EXCEPT ![w] = r] \/ UNCHANGED ans,
           UNCHANGED <<pref, live, world>>, rotation' \in Nat
    PROVE  PickInv' /\ pc'[w] = "idle"
<1>1. PickTypeOK' /\ pc'[w] = "idle"
  <2>1. <<>> \in Seq(Relay) /\ "idle" \in Labels
    BY DEF Labels
  <2> QED BY <2>1, Zenon DEF PickInv, PickTypeOK, Return, Goto
<1>2. CallOK(w)'
  BY <1>1 DEF CallOK, Choosing
<1>3. ASSUME NEW v \in Worker, v # w PROVE CallOK(v)'
  <2>1. pc'[v] = pc[v] /\ snap'[v] = snap[v] /\ ans'[v] = ans[v] /\ want'[v] = want[v]
    BY <1>3 DEF PickInv, PickTypeOK, Return, Goto
  <2> QED BY <1>3, <2>1, OthersKept
<1> QED BY <1>1, <1>2, <1>3 DEF PickInv

(* A call that goes on to choose, with the same list.                      *)
LEMMA GotoKeeps ==
    ASSUME PickInv, NEW w \in Worker, NEW l \in Choosing, Goto(w, l),
           Len(snap[w]) >= 2, want[w] \notin RangeOf(snap[w]),
           NEW r \in Answers, ans' = [ans EXCEPT ![w] = r], l = "pin" => r \in RangeOf(snap[w]),
           UNCHANGED <<snap, want, pref, live, world>>, rotation' \in Nat
    PROVE  PickInv' /\ pc'[w] # "idle"
<1>1. PickTypeOK' /\ pc'[w] = l /\ ans'[w] = r
  BY DEF PickInv, PickTypeOK, Goto, Choosing
<1>2. CallOK(w)' /\ l # "idle"
  BY <1>1 DEF CallOK, Choosing, RangeOf
<1>3. ASSUME NEW v \in Worker, v # w PROVE CallOK(v)'
  <2>1. pc'[v] = pc[v] /\ snap'[v] = snap[v] /\ ans'[v] = ans[v] /\ want'[v] = want[v]
    BY <1>3 DEF PickInv, PickTypeOK, Goto
  <2> QED BY <1>3, <2>1, OthersKept
<1> QED BY <1>1, <1>2, <1>3 DEF PickInv

LEMMA InTurn == ASSUME NEW m \in Nat, NEW n \in Nat, n > 0 PROVE (m % n) + 1 \in 1..n
  OBVIOUS

(* What a step of w gives, when it is the last of the call.                *)
RightAnswer(w) ==
    pc'[w] = "idle" =>
        /\ snap[w] # <<>> => ans'[w] \in RangeOf(snap[w])
        /\ want[w] \in RangeOf(snap[w]) => ans'[w] = want[w]

(* A call that returns with r.                                             *)
LEMMA AnswerKeeps ==
    ASSUME PickInv, NEW w \in Worker, NEW r, Answer(w, r), UNCHANGED <<pref, live, world>>,
           rotation' \in Nat, snap[w] = <<>> => r = NoRelay,
           snap[w] # <<>> => r \in RangeOf(snap[w]),
           want[w] \in RangeOf(snap[w]) => r = want[w]
    PROVE  PickInv' /\ RightAnswer(w)
<1>1. r \in Answers
  <2>1. snap[w] \in Seq(Relay)
    BY DEF PickInv, PickTypeOK
  <2> QED BY <2>1, RangeOfRelays DEF Answers
<1>2. Return(w) /\ ans' = [ans EXCEPT ![w] = r]
  BY DEF Answer
<1>3. ans'[w] = r
  BY <1>2 DEF PickInv, PickTypeOK
<1> QED BY <1>1, <1>2, <1>3, ReturnKeeps, ZenonT(40) DEF RightAnswer

(* A call that goes on with what it has.                                   *)
LEMMA GoesOn ==
    ASSUME PickInv, NEW w \in Worker, NEW l \in Choosing \ {"pin"}, Goto(w, l),
           Len(snap[w]) >= 2, want[w] \notin RangeOf(snap[w]),
           UNCHANGED <<ans, snap, want, pref, live, world, rotation>>
    PROVE  PickInv' /\ RightAnswer(w)
<1>1. ans[w] \in Answers /\ ans' = [ans EXCEPT ![w] = ans[w]] /\ rotation' \in Nat
  BY DEF PickInv, PickTypeOK
<1> QED BY <1>1, GotoKeeps, Zenon DEF RightAnswer

LEMMA SomeLen == \A s \in Seq(Relay) : s # <<>> => Len(s) # 0
  OBVIOUS

LEMMA StepKeeps ==
    ASSUME PickInv, NEW w \in Worker, Step(w), UNCHANGED world
    PROVE  PickInv' /\ RightAnswer(w)
<1>0. /\ snap[w] \in Seq(Relay) /\ Len(snap[w]) \in Nat /\ rotation \in Nat /\ pc[w] \in Labels
      /\ NoRelay \notin RangeOf(snap[w])
      /\ CallOK(w)
  BY RangeOfRelays DEF PickInv, PickTypeOK
<1>1. Len(snap[w]) >= 2 => snap[w] # <<>>
  <2>1. Len(<<>>) = 0 /\ ~ (0 >= 2)
    OBVIOUS
  <2> QED BY <2>1, Zenon
<1>2. CASE Preferred(w)
  <2>0. /\ UNCHANGED <<pref, live, rotation>> /\ want[w] \in {pref, NoRelay}
        /\ rotation' \in Nat
    BY <1>0, <1>2 DEF Preferred, store, CallOK
  <2>1. CASE Len(snap[w]) < 2 /\ Answer(w, IF snap[w] = <<>> THEN NoRelay ELSE snap[w][1])
    <3> DEFINE r == IF snap[w] = <<>> THEN NoRelay ELSE snap[w][1]
    <3>1. snap[w] # <<>> => Len(snap[w]) = 1
      <4>1. snap[w] # <<>> => Len(snap[w]) # 0
        BY <1>0, SomeLen, ZenonT(40)
      <4>2. Len(snap[w]) \in Nat /\ Len(snap[w]) < 2
        BY <1>0, <2>1, Zenon
      <4>3. \A n \in Nat : n < 2 /\ n # 0 => n = 1
        OBVIOUS
      <4> QED BY <4>1, <4>2, <4>3, ZenonT(40)
    <3>2. snap[w] # <<>> => RangeOf(snap[w]) = {snap[w][1]}
      <4> SUFFICES ASSUME snap[w] # <<>> PROVE RangeOf(snap[w]) = {snap[w][1]}
        OBVIOUS
      <4>0. 1..1 = {1}
        OBVIOUS
      <4>1. 1..Len(snap[w]) = {1}
        BY <3>1, <4>0, Zenon
      <4> QED BY <4>1, Zenon DEF RangeOf
    <3>3. snap[w] = <<>> => RangeOf(snap[w]) = {}
      <4> SUFFICES ASSUME snap[w] = <<>> PROVE RangeOf(snap[w]) = {}
        OBVIOUS
      <4>1. 1..Len(snap[w]) = {}
        BY <1>0
      <4> QED BY <4>1, Zenon DEF RangeOf
    <3>4. /\ snap[w] = <<>> => r = NoRelay
          /\ snap[w] # <<>> => r \in RangeOf(snap[w])
          /\ want[w] \in RangeOf(snap[w]) => r = want[w]
      BY <3>2, <3>3
    <3> HIDE DEF r
    <3> QED BY <2>0, <2>1, <3>4, AnswerKeeps, ZenonT(40) DEF r
  <2>2. CASE Len(snap[w]) >= 2 /\ pref \in RangeOf(snap[w]) /\ Answer(w, pref)
    <3>1. want[w] \in RangeOf(snap[w]) => pref = want[w]
      BY <1>0, <2>0
    <3> QED BY <1>1, <2>0, <2>2, <3>1, AnswerKeeps, ZenonT(40)
  <2>3. CASE /\ Len(snap[w]) >= 2 /\ pref \notin RangeOf(snap[w])
             /\ Goto(w, IF call[w].commit THEN "pinned" ELSE "routes")
             /\ UNCHANGED <<call, snap, sides, ans, history>>
    <3>1. (IF call[w].commit THEN "pinned" ELSE "routes") \in Choosing \ {"pin"}
      BY Zenon DEF Choosing, Labels
    <3>2. UNCHANGED <<ans, snap, want>> /\ want[w] \notin RangeOf(snap[w])
      BY <1>0, <2>0, <2>3 DEF history
    <3> QED BY <2>0, <2>3, <3>1, <3>2, GoesOn, ZenonT(40)
  <2> QED BY <1>2, <2>1, <2>2, <2>3, ZenonT(40) DEF Preferred
<1>3. CASE ~ Preferred(w)
  <2>0. /\ pc[w] \in Choosing /\ Len(snap[w]) >= 2 /\ want[w] \notin RangeOf(snap[w])
        /\ UNCHANGED <<pref, live>> /\ rotation' \in Nat
    <3>1. pc[w] \in Choosing /\ UNCHANGED <<pref, live>>
      BY <1>3, Zenon DEF Step, Pinned, SideRoutes, SideLocate, SideGeo, Choose, Pin, store, Choosing, Labels
    <3>2. rotation' \in Nat
      <4>1. CASE Choose(w)
        <5>1. Rounds \in Nat /\ Rounds > 0
          BY SelectAssumption
        <5>2. (rotation + 1) % Rounds \in Nat
          BY <1>0, <5>1
        <5> QED BY <1>0, <4>1, <5>2, ZenonT(40) DEF Choose
      <4>2. CASE ~ Choose(w)
        BY <1>0, <1>3, <4>2, ZenonT(40) DEF Step, Pinned, SideRoutes, SideLocate, SideGeo, Pin, store
      <4> QED BY <4>1, <4>2, Zenon
    <3> QED BY <1>0, <3>1, <3>2 DEF CallOK
  <2>1. CASE Pinned(w)
    <3> DEFINE r == pins[KeyOf(call[w])].relay
    <3>1. CASE r \in RangeOf(snap[w]) /\ Answer(w, r)
      <4> HIDE DEF r
      <4> QED BY <1>1, <2>0, <3>1, AnswerKeeps
    <3>2. CASE Goto(w, "routes") /\ UNCHANGED <<call, snap, sides, ans, history>>
      <4>1. "routes" \in Choosing \ {"pin"} /\ UNCHANGED <<ans, snap, want, rotation>>
        BY <2>1, <3>2, Zenon DEF Choosing, Labels, history, Pinned, store
      <4> QED BY <2>0, <3>2, <4>1, GoesOn, ZenonT(40)
    <3> QED BY <2>1, <3>1, <3>2, ZenonT(40) DEF Pinned
  <2>2. CASE SideRoutes(w) \/ SideLocate(w) \/ SideGeo(w)
    <3>1. /\ UNCHANGED <<ans, snap, want, rotation>>
          /\ \E l \in Choosing \ {"pin"} : Goto(w, l)
      BY <2>2, Zenon DEF SideRoutes, SideLocate, SideGeo, SideDone, history, store, Choosing, Labels
    <3> QED BY <2>0, <3>1, GoesOn
  <2>3. CASE Choose(w)
    <3> DEFINE r == IF sides[w] = <<>> THEN snap[w][(rotation % Len(snap[w])) + 1]
                    ELSE choose_from(snap[w], sides[w])
    <3>1. r \in RangeOf(snap[w])
      <4>1. (rotation % Len(snap[w])) + 1 \in 1..Len(snap[w])
        <5>1. Len(snap[w]) \in Nat /\ Len(snap[w]) > 0 /\ rotation \in Nat
          BY <1>0, <2>0
        <5> QED BY <5>1, InTurn, ZenonT(40)
      <4>2. choose_from(snap[w], sides[w]) \in RangeOf(snap[w])
        BY <1>0, <1>1, <2>0, ChosenIsHealthy, ZenonT(40)
      <4> QED BY <4>1, <4>2 DEF RangeOf
    <3>2. r \in Answers
      BY <1>0, <3>1, RangeOfRelays, ZenonT(40) DEF Answers
    <3>3. \/ ans' = [ans EXCEPT ![w] = r] /\ Goto(w, "pin") /\ UNCHANGED <<snap, want>>
          \/ Answer(w, r)
      BY <2>3, ZenonT(40) DEF Choose, history
    <3> HIDE DEF r
    <3>4. CASE ans' = [ans EXCEPT ![w] = r] /\ Goto(w, "pin") /\ UNCHANGED <<snap, want>>
      <4>1. "pin" \in Choosing
        BY Zenon DEF Choosing, Labels
      <4> QED BY <2>0, <3>1, <3>2, <3>4, <4>1, GotoKeeps, ZenonT(40) DEF RightAnswer
    <3>5. CASE Answer(w, r)
      BY <1>1, <2>0, <3>1, <3>5, AnswerKeeps, ZenonT(40)
    <3> QED BY <3>3, <3>4, <3>5, ZenonT(40)
  <2>4. CASE Pin(w)
    <3>1. Return(w) /\ UNCHANGED ans /\ ans[w] \in RangeOf(snap[w])
      BY <1>0, <2>4, Zenon DEF Pin, CallOK
    <3>2. ans[w] \in Answers
      BY DEF PickInv, PickTypeOK
    <3> QED BY <2>0, <3>1, <3>2, ReturnKeeps, ZenonT(40) DEF RightAnswer
  <2> QED BY <1>3, <2>1, <2>2, <2>3, <2>4, ZenonT(40) DEF Step
<1> QED BY <1>2, <1>3

(* Nothing of the calls, the list and the preference changes.              *)
LEMMA PickKept ==
    ASSUME PickInv, UNCHANGED <<pc, snap, ans, want, pref, rotation, world>>, live' \in Seq(Relay)
    PROVE  PickInv'
  BY DEF PickInv, PickTypeOK, CallOK, RangeOf

LEMMA PickInvariant == Spec => []PickInv
<1>1. Init => PickInv
  <2> SUFFICES ASSUME Init PROVE PickInv
    OBVIOUS
  <2>1. live \in Seq(Relay) /\ <<>> \in Seq(Relay)
    BY ListsAreSeqs DEF Init
  <2> QED BY <2>1 DEF Init, PickInv, PickTypeOK, CallOK, Labels, Choosing, Answers
<1>2. PickInv /\ [Next]_<<vars, world>> => PickInv'
  <2> SUFFICES ASSUME PickInv, [Next]_<<vars, world>> PROVE PickInv'
    OBVIOUS
  <2>0. UNCHANGED world /\ live \in Seq(Relay) /\ Lists \subseteq Seq(Relay)
    BY ListsAreSeqs DEF Next, PickInv, PickTypeOK
  <2>1. ASSUME NEW w \in Worker, Step(w) PROVE PickInv'
    BY <2>0, <2>1, StepKeeps
  <2>2. ASSUME NEW w \in Worker, NEW c \in Calls, Pick(w, c) PROVE PickInv'
    <3>1. PickTypeOK' /\ pc'[w] = "preferred" /\ want'[w] = pref /\ UNCHANGED pref
      BY <2>0, <2>2, ZenonT(40) DEF Pick, Goto, PickInv, PickTypeOK, Labels, Answers, store
    <3>2. CallOK(w)'
      BY <3>1 DEF CallOK, Choosing
    <3>3. ASSUME NEW v \in Worker, v # w PROVE CallOK(v)'
      <4>1. pc'[v] = pc[v] /\ snap'[v] = snap[v] /\ ans'[v] = ans[v] /\ want'[v] = want[v]
        BY <2>2, <3>3 DEF Pick, Goto, PickInv, PickTypeOK
      <4> QED BY <3>1, <3>3, <4>1, OthersKept, ZenonT(40)
    <3> QED BY <3>1, <3>2, <3>3 DEF PickInv
  <2>3. ASSUME NEW l \in Lists, SetLive(l) PROVE PickInv'
    BY <2>0, <2>3, PickKept DEF SetLive, callers
  <2>4. ASSUME NEW l, Commanded(l) PROVE PickInv'
    <3>1. /\ want' = [w \in Worker |-> IF w \in UnderWay THEN NoRelay ELSE want[w]]
          /\ UNCHANGED <<pc, snap, ans, live, rotation, world>>
      BY <2>0, <2>4 DEF Commanded, callers
    <3>2. PickTypeOK'
      BY <3>1 DEF PickInv, PickTypeOK
    <3>3. ASSUME NEW w \in Worker PROVE CallOK(w)'
      <4>1. snap[w] \in Seq(Relay) /\ RangeOf(snap[w])' = RangeOf(snap[w])
        BY <3>1 DEF PickInv, PickTypeOK, RangeOf
      <4>2. NoRelay \notin RangeOf(snap[w])
        BY <4>1, RangeOfRelays
      <4> QED BY <3>1, <3>3, <4>1, <4>2, ZenonT(40) DEF PickInv, CallOK, UnderWay, Choosing
    <3> QED BY <3>2, <3>3 DEF PickInv
  <2>5. CASE UseNothing \/ UseAuto \/ \E r \in Wanted : UseRelay(r)
    BY <2>4, <2>5 DEF UseNothing, UseAuto, UseRelay
  <2>6. CASE Restart
    <3>1. live' \in Seq(Relay) /\ <<>> \in Seq(Relay)
      BY <2>0, <2>6 DEF Restart
    <3> QED BY <2>0, <2>6, <3>1 DEF Restart, PickInv, PickTypeOK, CallOK, Labels, Choosing, Answers
  <2>7. CASE \/ \E k \in Key : Expire(k)
             \/ \E f \in {"routes", "db", "loc"} :
                   \E x \in {y[f] : y \in Files} : WriteFile(f, x)
             \/ ReloadRoutes \/ LoadGeo \/ SetGeo \/ ClearPins \/ CommandClears
             \/ OpenFile \/ WriteChoice \/ Remove
             \/ UNCHANGED <<vars, world>>
    <3>1. UNCHANGED <<pc, snap, ans, want, pref, rotation, live>>
      BY <2>7, ZenonT(40) DEF Expire, WriteFile, ReloadRoutes, LoadGeo, SetGeo, ClearPins, CommandClears,
                  OpenFile, WriteChoice, Remove, OnFile, AllOpen, store, callers, history, vars
    <3> QED BY <2>0, <3>1, PickKept
  <2> QED BY <2>1, <2>2, <2>3, <2>5, <2>6, <2>7, ZenonT(40) DEF Next
<1> QED BY <1>1, <1>2, PTL DEF Spec

(* pick answers with a relay of the list it was asked about, whoever       *)
(* reloads, commands, expires or chooses at the same time.                 *)
THEOREM AnswerIsHealthyHolds == Spec => AnswerIsHealthy
<1>1. PickInv /\ [Next]_<<vars, world>>
        => [\A w \in Worker : Returns(w) /\ snap[w] # <<>> => ans'[w] \in RangeOf(snap[w])]_vars
  <2> SUFFICES ASSUME PickInv, [Next]_<<vars, world>>, vars' # vars,
                      NEW w \in Worker, Returns(w), snap[w] # <<>>
               PROVE  ans'[w] \in RangeOf(snap[w])
    OBVIOUS
  <2>1. UNCHANGED world /\ Step(w) /\ pc'[w] = "idle"
    BY DEF Next, Returns
  <2> QED BY <2>1, StepKeeps DEF RightAnswer
<1> QED BY <1>1, PickInvariant, PTL DEF Spec, AnswerIsHealthy

(* The relay that is preferred and healthy from the question to the answer *)
(* is the answer.                                                          *)
THEOREM PreferredWinsHolds == Spec => PreferredWins
<1>1. PickInv /\ [Next]_<<vars, world>>
        => [\A w \in Worker :
              Returns(w) /\ want[w] \in RangeOf(snap[w]) => ans'[w] = want[w]]_vars
  <2> SUFFICES ASSUME PickInv, [Next]_<<vars, world>>, vars' # vars,
                      NEW w \in Worker, Returns(w), want[w] \in RangeOf(snap[w])
               PROVE  ans'[w] = want[w]
    OBVIOUS
  <2>1. UNCHANGED world /\ Step(w) /\ pc'[w] = "idle"
    BY DEF Next, Returns
  <2> QED BY <2>1, StepKeeps DEF RightAnswer
<1> QED BY <1>1, PickInvariant, PTL DEF Spec, PreferredWins

-----------------------------------------------------------------------------
(***************************************************************************)
(* One caller at a time.  An answer that was given is the one the next     *)
(* question gets: the only relay, the preferred one, or the one held.  So  *)
(* a call that goes on to choose is about two ends that have no answer.    *)
(***************************************************************************)
OneCaller == \A v, w \in Worker : v = w

StaysWith(k, r) ==
    \/ Len(live) < 2 /\ r = IF live = <<>> THEN NoRelay ELSE live[1]
    \/ Len(live) >= 2 /\ pref \in RangeOf(live) /\ r = pref
    \/ /\ Len(live) >= 2 /\ pref \notin RangeOf(live)
       /\ pins[k].fresh /\ pins[k].relay = r /\ r \in RangeOf(live)

Settled(k) == \A r \in given[k] : given[k] = {r} /\ StaysWith(k, r)

SoloCall(w) ==
    /\ pc[w] # "idle" => KeyOf(call[w]) \in Key
    /\ pc[w] \in {"pinned", "pin"} => call[w].commit
    /\ w \notin raced =>
          /\ pc[w] # "idle" => snap[w] = live
          /\ pc[w] \in Choosing => pref \notin RangeOf(live)
          /\ pc[w] \in Choosing \ {"pinned"} /\ call[w].commit => given[KeyOf(call[w])] = {}

GivenInv ==
    /\ given = [k \in Key |-> given[k]]
    /\ call = [w \in Worker |-> call[w]]
    /\ raced \subseteq UnderWay
    /\ raced # {} => \A k \in Key : given[k] = {}
    /\ \A k \in Key : Settled(k)
    /\ \A w \in Worker : SoloCall(w)

(* A question has one answer.                                              *)
LEMMA StaysWithOne == ASSUME NEW k, NEW r, NEW s, StaysWith(k, r), StaysWith(k, s), Len(live) \in Nat PROVE r = s
<1>1. ~ (Len(live) < 2 /\ Len(live) >= 2)
  OBVIOUS
<1>2. CASE Len(live) < 2
  BY <1>1, <1>2, Zenon DEF StaysWith
<1>3. CASE Len(live) >= 2
  BY <1>1, <1>3, Zenon DEF StaysWith
<1> QED BY <1>2, <1>3

(* What answers depend on changes.                                         *)
LEMMA OpenedKeeps ==
    ASSUME GivenInv, AllOpen, UNCHANGED callers
    PROVE  GivenInv'
<1>1. \A k \in Key : given'[k] = {}
  BY DEF AllOpen
<1>2. UNCHANGED <<pc, call>> /\ raced' = raced \union UnderWay /\ UnderWay' = UnderWay
  BY DEF AllOpen, callers, UnderWay
<1>3. ASSUME NEW w \in Worker PROVE SoloCall(w)'
  <2>1. w \in raced' \/ pc'[w] = "idle"
    BY <1>2, <1>3 DEF UnderWay
  <2>2. pc'[w] = "idle" => pc'[w] \notin Choosing
    BY DEF Choosing
  <2> QED BY <1>2, <1>3, <2>1, <2>2, ZenonT(40) DEF SoloCall, GivenInv, KeyOf
<1>4. given' = [k \in Key |-> given'[k]]
  BY DEF AllOpen
<1> QED BY <1>1, <1>2, <1>3, <1>4, ZenonT(40) DEF GivenInv, Settled

(* The held choices are dropped, all or one, or nothing happens.           *)
LEMMA ForgottenKeeps ==
    ASSUME GivenInv, UNCHANGED <<live, pref, pc, call, snap, raced>>,
           given' = [k \in Key |-> given'[k]],
           \A k \in Key : given'[k] = {} \/ (given'[k] = given[k] /\ pins'[k] = pins[k])
    PROVE  GivenInv'
<1>1. UnderWay' = UnderWay /\ RangeOf(live)' = RangeOf(live)
  BY DEF UnderWay, RangeOf
<1>2. ASSUME NEW k \in Key PROVE Settled(k)'
  <2>1. CASE given'[k] = {}
    BY <2>1, Zenon DEF Settled
  <2>2. CASE given'[k] = given[k] /\ pins'[k] = pins[k]
    <3>1. \A r : StaysWith(k, r) => StaysWith(k, r)'
      BY <1>1, <2>2, ZenonT(40) DEF StaysWith
    <3> QED BY <2>2, <3>1, Zenon DEF GivenInv, Settled
  <2> QED BY <2>1, <2>2
<1>3. ASSUME NEW w \in Worker PROVE SoloCall(w)'
  <2>1. SoloCall(w) /\ KeyOf(call[w])' = KeyOf(call[w])
    BY DEF GivenInv, KeyOf
  <2>2. KeyOf(call[w]) \in Key /\ given[KeyOf(call[w])] = {} => given'[KeyOf(call[w])] = {}
    OBVIOUS
  <2>3. pc[w] \in Choosing => pc[w] # "idle"
    BY DEF Choosing
  <2> QED BY <1>1, <2>1, <2>2, <2>3, ZenonT(40) DEF SoloCall
<1> QED BY <1>1, <1>2, <1>3, ZenonT(40) DEF GivenInv

LEMMA ReturnsAlone ==
    ASSUME OneCaller, GivenInv, PickInv, NEW w \in Worker, Return(w)
    PROVE  /\ raced' = {} /\ pc'[w] = "idle" /\ call' = [v \in Worker |-> call'[v]]
           /\ \A v \in Worker : SoloCall(v)'
<1>1. raced \subseteq Worker /\ raced' = raced \ {w} /\ pc'[w] = "idle"
  BY DEF GivenInv, UnderWay, Return, Goto, PickInv, PickTypeOK
<1>2. raced' = {}
  BY <1>1 DEF OneCaller
<1>3. call' = [v \in Worker |-> call'[v]]
  BY ZenonT(40) DEF Return, GivenInv
<1>4. "idle" \notin Choosing
  BY DEF Choosing
<1>5. ASSUME NEW v \in Worker PROVE SoloCall(v)'
  <2>1. pc'[v] = "idle"
    BY <1>1 DEF OneCaller
  <2> QED BY <1>4, <2>1, Zenon DEF SoloCall
<1> QED BY <1>1, <1>2, <1>3, <1>5, ZenonT(40)

(* A call returns with the answer that questions get.                      *)
LEMMA AnsweredKeeps ==
    ASSUME OneCaller, GivenInv, PickInv, NEW w \in Worker, pc[w] # "idle", NEW r, Answer(w, r),
           UNCHANGED <<live, pref, pins>>,
           call[w].commit /\ w \notin raced => StaysWith(KeyOf(call[w]), r)
    PROVE  GivenInv'
<1> DEFINE k == KeyOf(call[w])
<1>0. Return(w) /\ Len(live) \in Nat
  BY DEF Answer, PickInv, PickTypeOK
<1>1. RangeOf(live)' = RangeOf(live)
  BY DEF RangeOf
<1>2. \A j \in Key : \A x : StaysWith(j, x)' <=> StaysWith(j, x)
  BY <1>1, ZenonT(40) DEF StaysWith
<1>3. CASE call[w].commit /\ w \notin raced
  <2>1. k \in Key /\ given' = [given EXCEPT ![k] = @ \union {r}]
    BY <1>3, ZenonT(40) DEF Answer, KeyOf, GivenInv, SoloCall
  <2>2. given[k] = {} \/ given[k] = {r}
    <3>1. \A s \in given[k] : given[k] = {s} /\ StaysWith(k, s)
      BY <2>1, ZenonT(40) DEF GivenInv, Settled
    <3>2. StaysWith(k, r)
      BY <1>3, Zenon
    <3> HIDE DEF k
    <3>3. \A s \in given[k] : s = r
      BY <1>0, <3>1, <3>2, StaysWithOne, ZenonT(40)
    <3> QED BY <3>1, <3>3, ZenonT(40)
  <2> HIDE DEF k
  <2>3. given'[k] = {r} /\ given' = [j \in Key |-> given'[j]] /\ \A j \in Key : j # k => given'[j] = given[j]
    BY <2>1, <2>2, ZenonT(40) DEF GivenInv
  <2>4. ASSUME NEW j \in Key PROVE Settled(j)'
    <3>1. CASE j = k
      BY <1>2, <1>3, <2>1, <2>3, <3>1, ZenonT(40) DEF Settled, k
    <3>2. CASE j # k
      BY <1>2, <2>3, <2>4, <3>2, ZenonT(40) DEF Settled, GivenInv
    <3> QED BY <3>1, <3>2
  <2> QED BY <1>0, <2>3, <2>4, ReturnsAlone, ZenonT(40) DEF GivenInv
<1>4. CASE ~ (call[w].commit /\ w \notin raced)
  <2>1. given' = given
    BY <1>4, Zenon DEF Answer
  <2>2. \A j \in Key : Settled(j)'
    BY <1>2, <2>1, ZenonT(40) DEF GivenInv, Settled
  <2> QED BY <1>0, <2>1, <2>2, ReturnsAlone, ZenonT(40) DEF GivenInv
<1> QED BY <1>3, <1>4

(* A call goes on; what it drops of the held choices, nobody was given.    *)
LEMMA OnwardKeeps ==
    ASSUME OneCaller, GivenInv, PickInv, NEW w \in Worker, pc[w] # "idle",
           NEW l \in Choosing, Goto(w, l), call' = [v \in Worker |-> call'[v]],
           KeyOf(call[w])' = KeyOf(call[w]), call'[w].commit = call[w].commit,
           UNCHANGED <<live, pref, snap, given, raced>>,
           l \in {"pinned", "pin"} => call[w].commit,
           w \notin raced => pref \notin RangeOf(live),
           w \notin raced /\ call[w].commit /\ l # "pinned" => given[KeyOf(call[w])] = {},
           \A k \in Key : pins'[k] = pins[k] \/ given[k] = {}
    PROVE  GivenInv'
<1>1. pc'[w] = l /\ l # "idle"
  BY DEF Goto, PickInv, PickTypeOK, Choosing
<1>2. RangeOf(live)' = RangeOf(live)
  BY DEF RangeOf
<1>3. raced \subseteq UnderWay'
  BY <1>1 DEF GivenInv, UnderWay, OneCaller
<1>4. ASSUME NEW k \in Key PROVE Settled(k)'
  <2>1. CASE given[k] = {}
    BY <2>1, Zenon DEF Settled
  <2>2. CASE pins'[k] = pins[k]
    <3>1. \A r : StaysWith(k, r) => StaysWith(k, r)'
      BY <1>2, <2>2, ZenonT(40) DEF StaysWith
    <3> QED BY <2>2, <3>1, ZenonT(40) DEF GivenInv, Settled
  <2> QED BY <2>1, <2>2
<1>5. ASSUME NEW v \in Worker PROVE SoloCall(v)'
  <2>1. v = w
    BY DEF OneCaller
  <2> QED BY <1>1, <1>2, <2>1, ZenonT(40) DEF GivenInv, SoloCall
<1> QED BY <1>3, <1>4, <1>5, ZenonT(40) DEF GivenInv

(* The choice is held.  What Room drops to make place is open again.       *)
LEMMA HoldingKeeps ==
    ASSUME OneCaller, Pinning, GivenInv, PickInv, PinsInv, NEW w \in Worker, Pin(w), UNCHANGED world
    PROVE  GivenInv'
<1> DEFINE k == KeyOf(call[w])
           new == [relay |-> ans[w], fresh |-> TRUE, old |-> w \in raced, raced |-> w \in raced]
<1>0. /\ Return(w) /\ pc[w] = "pin" /\ UNCHANGED <<live, pref>> /\ k \in Key /\ call[w].commit
      /\ ans[w] \in RangeOf(snap[w]) /\ Len(snap[w]) >= 2 /\ Len(live) \in Nat
  <2>1. Return(w) /\ pc[w] = "pin" /\ UNCHANGED <<live, pref>> /\ SoloCall(w) /\ CallOK(w)
    BY Zenon DEF Pin, store, GivenInv, PickInv
  <2>2. "pin" \in Choosing /\ "pin" # "idle" /\ Len(live) \in Nat
    BY DEF Choosing, Labels, PickInv, PickTypeOK
  <2> QED BY <2>1, <2>2, ZenonT(40) DEF SoloCall, CallOK
<1>1. /\ pins' = [Room EXCEPT ![k] = new]
      /\ given' = [j \in Key |-> IF j = k /\ w \notin raced THEN given[j] \union {ans[w]}
                                 ELSE IF Held(j) /\ pins'[j] = NoPin THEN {} ELSE given[j]]
  BY Zenon DEF Pin, KeyOf
<1>2. new.relay = ans[w] /\ new.fresh = TRUE /\ NoPin.relay = NoRelay
  BY DEF NoPin
<1> HIDE DEF k, new
<1>3. /\ pins'[k] = new
      /\ \A j \in Key : j # k => pins'[j] = pins[j] \/ pins'[j] = NoPin
  BY <1>0, <1>1, RoomIsMade, ZenonT(40)
<1>4. RangeOf(live)' = RangeOf(live)
  BY <1>0 DEF RangeOf
<1>5. CASE w \in raced
  <2>1. \A j \in Key : given[j] = {}
    BY <1>5, Zenon DEF GivenInv
  <2>2. \A j \in Key : given'[j] = {}
    BY <1>1, <1>5, <2>1
  <2> QED BY <1>0, <1>1, <2>2, ReturnsAlone, ZenonT(40) DEF GivenInv, Settled
<1>6. CASE w \notin raced
  <2>1. snap[w] = live /\ pref \notin RangeOf(live) /\ given[k] = {}
    <3>1. "pin" \in Choosing /\ "pin" # "idle" /\ "pin" # "pinned"
      BY Zenon DEF Choosing, Labels
    <3> QED BY <1>0, <1>6, <3>1, ZenonT(40) DEF GivenInv, SoloCall, k
  <2>2. given'[k] = {ans[w]}
    BY <1>0, <1>1, <1>6, <2>1, ZenonT(40)
  <2>3. ASSUME NEW j \in Key, j = k PROVE Settled(j)'
    <3> SUFFICES ASSUME NEW r \in given'[j] PROVE given'[j] = {r} /\ StaysWith(j, r)'
      BY Zenon DEF Settled
    <3>1. r = ans[w] /\ given'[j] = {r}
      BY <2>2, <2>3
    <3>2. pins'[j].fresh /\ pins'[j].relay = r /\ r \in RangeOf(live)
      BY <1>0, <1>2, <1>3, <2>1, <2>3, <3>1, ZenonT(40)
    <3> QED BY <1>0, <1>4, <2>1, <3>1, <3>2, ZenonT(40) DEF StaysWith
  <2>4. ASSUME NEW j \in Key, j # k PROVE Settled(j)'
    <3> SUFFICES ASSUME NEW r \in given'[j] PROVE given'[j] = {r} /\ StaysWith(j, r)'
      BY ZenonT(40) DEF Settled
    <3>1. given'[j] = given[j] /\ ~ (Held(j) /\ pins'[j] = NoPin)
      BY <1>1, <2>4
    <3>2. given[j] = {r} /\ StaysWith(j, r)
      BY <3>1 DEF GivenInv, Settled
    <3>3. Len(live) >= 2 /\ ~ (Len(live) < 2)
      BY <1>0, <2>1
    <3>4. pins[j].fresh /\ pins[j].relay = r /\ r \in RangeOf(live)
      BY <2>1, <3>2, <3>3, ZenonT(40) DEF StaysWith
    <3>5. r # NoRelay
      BY <3>4, RangeOfRelays DEF PickInv, PickTypeOK
    <3>6. pins'[j] = pins[j]
      BY <1>3, <2>4, <3>1, <3>4, <3>5, ZenonT(40) DEF Held
    <3>7. pins'[j].fresh /\ pins'[j].relay = r
      BY <3>4, <3>6, ZenonT(40)
    <3>8. StaysWith(j, r)'
      BY <1>0, <1>4, <2>1, <3>3, <3>4, <3>7, ZenonT(40) DEF StaysWith
    <3> QED BY <3>1, <3>2, <3>8, ZenonT(40)
  <2> QED BY <1>0, <1>1, <2>3, <2>4, ReturnsAlone, ZenonT(40) DEF GivenInv
<1> QED BY <1>5, <1>6

LEMMA SoloStepKeeps ==
    ASSUME OneCaller, Pinning, GivenInv, PickInv, PinsInv, NEW w \in Worker, Step(w), UNCHANGED world
    PROVE  GivenInv'
<1>0. /\ pc[w] \in Labels /\ Len(live) \in Nat /\ Len(snap[w]) \in Nat /\ SoloCall(w)
      /\ call = [v \in Worker |-> call[v]]
  BY DEF PickInv, PickTypeOK, GivenInv
<1>1. pc[w] \in Choosing => Len(snap[w]) >= 2
  BY Zenon DEF PickInv, CallOK
<1>2. CASE Preferred(w)
  <2>0. pc[w] = "preferred" /\ pc[w] # "idle" /\ UNCHANGED <<live, pref, pins>>
    BY <1>2, Zenon DEF Preferred, store
  <2>1. w \notin raced => snap[w] = live
    BY <1>0, <2>0, ZenonT(40) DEF SoloCall
  <2>2. CASE Len(snap[w]) < 2 /\ Answer(w, IF snap[w] = <<>> THEN NoRelay ELSE snap[w][1])
    <3> DEFINE r == IF snap[w] = <<>> THEN NoRelay ELSE snap[w][1]
    <3>1. w \notin raced => StaysWith(KeyOf(call[w]), r)
      BY <2>1, <2>2, ZenonT(40) DEF StaysWith
    <3> HIDE DEF r
    <3> QED BY <2>0, <2>2, <3>1, AnsweredKeeps, ZenonT(40) DEF r
  <2>3. CASE Len(snap[w]) >= 2 /\ pref \in RangeOf(snap[w]) /\ Answer(w, pref)
    <3>1. w \notin raced => StaysWith(KeyOf(call[w]), pref)
      BY <2>1, <2>3, ZenonT(40) DEF StaysWith
    <3> QED BY <2>0, <2>3, <3>1, AnsweredKeeps, ZenonT(40)
  <2>4. CASE /\ Len(snap[w]) >= 2 /\ pref \notin RangeOf(snap[w])
             /\ Goto(w, IF call[w].commit THEN "pinned" ELSE "routes")
             /\ UNCHANGED <<call, snap, sides, ans, history>>
    <3> DEFINE l == IF call[w].commit THEN "pinned" ELSE "routes"
    <3>1. /\ l \in Choosing /\ (l \in {"pinned", "pin"} => call[w].commit)
          /\ (call[w].commit => l = "pinned")
      BY DEF Choosing, Labels
    <3>2. w \notin raced => pref \notin RangeOf(live)
      BY <2>1, <2>4, ZenonT(40)
    <3>3. /\ call' = [v \in Worker |-> call'[v]] /\ UNCHANGED <<snap, given, raced>>
          /\ KeyOf(call[w])' = KeyOf(call[w]) /\ call'[w].commit = call[w].commit
      BY <1>0, <2>4 DEF history, KeyOf
    <3> HIDE DEF l
    <3> QED BY <2>0, <2>4, <3>1, <3>2, <3>3, OnwardKeeps, ZenonT(40) DEF l
  <2> QED BY <1>2, <2>2, <2>3, <2>4, ZenonT(40) DEF Preferred
<1>3. CASE Pinned(w)
  <2> DEFINE k == KeyOf(call[w])
             good == pins[k].fresh /\ pins[k].relay \in RangeOf(snap[w])
  <2>0. /\ pc[w] = "pinned" /\ pc[w] # "idle" /\ pc[w] \in Choosing /\ k \in Key /\ call[w].commit
        /\ UNCHANGED <<live, pref>>
    <3>1. "pinned" \in Choosing /\ pc[w] = "pinned" /\ UNCHANGED <<live, pref>>
      BY <1>3, Zenon DEF Choosing, Labels, Pinned, store
    <3> QED BY <1>0, <3>1, ZenonT(40) DEF SoloCall
  <2>1. w \notin raced => snap[w] = live /\ pref \notin RangeOf(live) /\ Len(live) >= 2
    BY <1>0, <1>1, <2>0, ZenonT(40) DEF SoloCall
  <2>2. CASE good /\ Answer(w, pins[k].relay) /\ UNCHANGED pins
    <3>1. w \notin raced => StaysWith(k, pins[k].relay)
      BY <2>1, <2>2, ZenonT(40) DEF StaysWith
    <3> QED BY <2>0, <2>2, <3>1, AnsweredKeeps, ZenonT(40)
  <2>3. CASE /\ ~ good /\ pins' = [pins EXCEPT ![k] = NoPin] /\ Goto(w, "routes")
             /\ UNCHANGED <<call, snap, sides, ans, history>>
    <3>1. given[k] = {}
      <4>1. CASE w \in raced
        BY <2>0, <4>1, ZenonT(40) DEF GivenInv
      <4>2. CASE w \notin raced
        <5> SUFFICES ASSUME NEW r \in given[k] PROVE FALSE
          OBVIOUS
        <5>1. StaysWith(k, r) /\ ~ (Len(live) < 2)
          BY <1>0, <2>0, <2>1, <4>2 DEF GivenInv, Settled
        <5> QED BY <2>1, <2>3, <4>2, <5>1, ZenonT(40) DEF StaysWith
      <4> QED BY <4>1, <4>2
    <3>2. \A j \in Key : pins'[j] = pins[j] \/ given[j] = {}
      <4> HIDE DEF k
      <4> QED BY <2>3, <3>1 DEF PinsInv
    <3>3. /\ call' = [v \in Worker |-> call'[v]] /\ UNCHANGED <<snap, given, raced>>
          /\ KeyOf(call[w])' = KeyOf(call[w]) /\ call'[w].commit = call[w].commit
          /\ "routes" \in Choosing
      BY <1>0, <2>3 DEF history, KeyOf, Choosing, Labels
    <3> QED BY <2>0, <2>1, <2>3, <3>1, <3>2, <3>3, OnwardKeeps, ZenonT(40)
  <2> QED BY <1>3, <2>2, <2>3, ZenonT(40) DEF Pinned
<1>4. CASE SideRoutes(w) \/ SideLocate(w) \/ SideGeo(w) \/ Choose(w)
  <2>0. /\ pc[w] \in Choosing \ {"pinned"} /\ pc[w] # "idle"
        /\ UNCHANGED <<live, pref, pins>>
    BY <1>4, Zenon DEF SideRoutes, SideLocate, SideGeo, Choose, Choosing, Labels, store
  <2>1. /\ w \notin raced => pref \notin RangeOf(live)
        /\ w \notin raced /\ call[w].commit => given[KeyOf(call[w])] = {}
    BY <1>0, <2>0, Zenon DEF SoloCall
  <2>2. CASE /\ UNCHANGED <<snap, given, raced>>
             /\ \E l \in Choosing \ {"pinned"} : Goto(w, l) /\ (l = "pin" => call[w].commit)
             /\ call' = [v \in Worker |-> call'[v]]
             /\ KeyOf(call[w])' = KeyOf(call[w]) /\ call'[w].commit = call[w].commit
    <3>1. PICK l \in Choosing \ {"pinned"} : Goto(w, l) /\ (l = "pin" => call[w].commit)
      BY <2>2
    <3> QED BY <2>0, <2>1, <2>2, <3>1, OnwardKeeps, ZenonT(40)
  <2>3. CASE UNCHANGED <<snap, given, raced, call>> /\ \E l \in Choosing \ {"pinned", "pin"} : Goto(w, l)
    BY <1>0, <2>2, <2>3, ZenonT(40) DEF KeyOf
  <2>4. CASE SideRoutes(w) \/ SideGeo(w)
    BY <2>3, <2>4, ZenonT(40) DEF SideRoutes, SideGeo, SideDone, history, Choosing, Labels
  <2>5. CASE SideLocate(w)
    <3>1. CASE UNCHANGED call
      <4>1. UNCHANGED <<snap, given, raced>>
        BY <2>5, ZenonT(40) DEF SideLocate, SideDone, history
      <4>2. \E l \in Choosing \ {"pinned", "pin"} : Goto(w, l)
        BY <2>5, ZenonT(40) DEF SideLocate, SideDone, Choosing, Labels
      <4> QED BY <2>3, <3>1, <4>1, <4>2, ZenonT(40)
    <3>2. CASE /\ call' = [call EXCEPT ![w].at = geo.db[Side(w)]]
               /\ Goto(w, IF pc[w] = "locate" THEN "geo" ELSE "geo2")
               /\ UNCHANGED <<snap, sides, ans, history>>
      <4> DEFINE at == geo.db[Side(w)]
      <4>1. /\ call' = [v \in Worker |-> call'[v]]
            /\ call'[w] = [call[w] EXCEPT !.at = at]
        BY <1>0, <3>2, ZenonT(40)
      <4> HIDE DEF at
      <4>2. call'[w].from = call[w].from /\ call'[w].to = call[w].to /\ call'[w].commit = call[w].commit
        BY <4>1
      <4>3. \E l \in Choosing \ {"pinned"} : Goto(w, l) /\ (l = "pin" => call[w].commit)
        <5>1. {"geo", "geo2"} \subseteq Choosing \ {"pinned", "pin"}
          BY DEF Choosing, Labels
        <5>2. Goto(w, "geo") \/ Goto(w, "geo2")
          BY <3>2, Zenon
        <5> QED BY <5>1, <5>2, ZenonT(40)
      <4> QED BY <2>2, <3>2, <4>1, <4>2, <4>3, ZenonT(40) DEF history, KeyOf
    <3> QED BY <2>5, <3>1, <3>2, ZenonT(40) DEF SideLocate, SideDone
  <2>6. CASE Choose(w)
    <3>1. CASE call[w].commit
      <4>1. Goto(w, "pin") /\ UNCHANGED <<call, snap, given, raced>> /\ "pin" \in Choosing \ {"pinned"}
        BY <2>6, <3>1, ZenonT(40) DEF Choose, history, Choosing, Labels
      <4> QED BY <1>0, <2>2, <3>1, <4>1, ZenonT(40) DEF KeyOf
    <3>2. CASE ~ call[w].commit
      <4>1. PICK r : Answer(w, r)
        BY <2>6, <3>2, ZenonT(40) DEF Choose
      <4> QED BY <2>0, <3>2, <4>1, AnsweredKeeps, ZenonT(40)
    <3> QED BY <3>1, <3>2
  <2> QED BY <1>4, <2>4, <2>5, <2>6, ZenonT(40)
<1>5. CASE Pin(w)
  BY <1>5, HoldingKeeps
<1> QED BY <1>2, <1>3, <1>4, <1>5, ZenonT(40) DEF Step

LEMMA GivenNextInv ==
    ASSUME OneCaller, Pinning, GivenInv, PickInv, PinsInv, [Next]_<<vars, world>>
    PROVE  GivenInv'
<1>0. UNCHANGED world
  BY DEF Next
<1>1. ASSUME NEW w \in Worker, Step(w) PROVE GivenInv'
  BY <1>0, <1>1, SoloStepKeeps
<1>2. ASSUME NEW w \in Worker, NEW c \in Calls, Pick(w, c) PROVE GivenInv'
  <2>1. PICK p \in Pairs : c.from = p[1] /\ c.to = p[2]
    BY DEF Calls
  <2>2. p[1] \in Addr /\ p[2] \in Addr
    BY SelectAssumption DEF PickInv, PickTypeOK, Pairs
  <2>3. KeyOf(c) \in Key
    BY <2>1, <2>2 DEF KeyOf, Key
  <2>4. /\ pc'[w] = "preferred" /\ call'[w] = c /\ snap'[w] = live /\ call' = [v \in Worker |-> call'[v]]
        /\ UNCHANGED <<live, pref, pins, given, raced>>
    BY <1>2, Zenon DEF Pick, Goto, store, GivenInv, PickInv, PickTypeOK
  <2>5. ASSUME NEW v \in Worker PROVE SoloCall(v)'
    <3>1. v = w /\ pc'[w] \notin Choosing /\ pc'[w] \notin {"pinned", "pin"} /\ KeyOf(call[w])' = KeyOf(c)
      BY <2>4 DEF OneCaller, Choosing, KeyOf
    <3> QED BY <2>3, <2>4, <3>1, ZenonT(40) DEF SoloCall
  <2>6. raced \subseteq UnderWay'
    BY <2>4 DEF GivenInv, UnderWay, OneCaller
  <2>7. RangeOf(live)' = RangeOf(live)
    BY <2>4 DEF RangeOf
  <2>8. ASSUME NEW k \in Key PROVE Settled(k)'
    <3>1. \A r : StaysWith(k, r) => StaysWith(k, r)'
      BY <2>4, <2>7, ZenonT(40) DEF StaysWith
    <3> QED BY <2>4, <3>1, ZenonT(40) DEF GivenInv, Settled
  <2> QED BY <2>4, <2>5, <2>6, <2>8, ZenonT(40) DEF GivenInv
<1>3. CASE (\E l \in Lists : SetLive(l)) \/ (\E r \in Wanted : UseRelay(r)) \/ UseAuto \/ UseNothing
  BY <1>3, OpenedKeeps, ZenonT(40) DEF SetLive, UseRelay, UseAuto, UseNothing, Commanded
<1>4. ASSUME UNCHANGED <<live, pref, pins, callers, given, raced>> PROVE GivenInv'
  <2>1. UNCHANGED <<pc, call, snap>>
    BY <1>4 DEF callers
  <2>2. given' = [k \in Key |-> given'[k]]
    BY <1>4, Zenon DEF GivenInv
  <2> QED BY <1>4, <2>1, <2>2, ForgottenKeeps, ZenonT(40)
<1>5. ASSUME NEW k \in Key, Expire(k) PROVE GivenInv'
  <2>1. /\ UNCHANGED <<live, pref, pc, call, snap, raced>>
        /\ given' = [j \in Key |-> IF j = k THEN {} ELSE given[j]]
        /\ pins' = [pins EXCEPT ![k].fresh = FALSE]
    BY <1>5 DEF Expire, Open, store, callers
  <2>2. \A j \in Key : j # k => pins'[j] = pins[j]
    BY <2>1, Zenon DEF PinsInv
  <2> QED BY <2>1, <2>2, ForgottenKeeps
<1>6. CASE ReloadRoutes \/ SetGeo
  <2>1. \/ AllOpen /\ UNCHANGED callers
        \/ UNCHANGED <<live, pref, pins, callers, given, raced>>
    BY <1>6, Zenon DEF ReloadRoutes, SetGeo, history
  <2> QED BY <1>4, <2>1, OpenedKeeps
<1>7. CASE ClearPins \/ CommandClears
  <2>1. /\ UNCHANGED <<live, pref, pc, call, snap, raced>>
        /\ given' = [j \in Key |-> {}]
    BY <1>7 DEF ClearPins, CommandClears, Open, store, callers
  <2> QED BY <2>1, ForgottenKeeps, ZenonT(40)
<1>8. CASE LoadGeo \/ UNCHANGED <<vars, world>>
           \/ \E f \in {"routes", "db", "loc"} : \E x \in {y[f] : y \in Files} : WriteFile(f, x)
  BY <1>4, <1>8, ZenonT(40) DEF LoadGeo, WriteFile, vars, store, history
<1>9. CASE Restart
  <2>1. /\ pc' = [w \in Worker |-> "idle"] /\ call' = [w \in Worker |-> NoCall]
        /\ given' = [k \in Key |-> {}] /\ raced' = {}
    BY <1>9 DEF Restart
  <2> QED BY <2>1 DEF GivenInv, Settled, SoloCall, Choosing
<1>10. CASE OpenFile \/ WriteChoice \/ Remove
  <2>1. UNCHANGED <<live, pref, pins, callers, given, raced>>
    BY <1>10, ZenonT(40) DEF OpenFile, WriteChoice, Remove, OnFile, history
  <2> QED BY <1>4, <2>1
<1> QED BY <1>1, <1>2, <1>3, <1>5, <1>6, <1>7, <1>8, <1>9, <1>10, ZenonT(40) DEF Next

(* "every question about the same attempt gets the same answer": with one  *)
(* caller at a time pick gives two ends, in either order, one answer, for  *)
(* any lists, tables, preferences and number of held choices, as long as   *)
(* the choice has not expired or been dropped and nothing it depends on    *)
(* has changed (pick, pinned_relay, pin_relay).                            *)
THEOREM OneAnswerHolds == OneCaller => (Spec => []OneAnswer)
<1> SUFFICES ASSUME OneCaller PROVE Spec => []OneAnswer
  BY ZenonT(40)
<1> DEFINE I == Pinning => GivenInv
<1>1. Init => I
  BY DEF Init, GivenInv, Settled, SoloCall, Choosing
<1>2. I /\ PickInv /\ PinsInv /\ [Next]_<<vars, world>> => I'
  BY GivenNextInv
<1>3. I => OneAnswer
  <2> SUFFICES ASSUME GivenInv, NEW k \in Key PROVE Cardinality(given[k]) <= 1
    BY DEF OneAnswer
  <2>1. CASE given[k] = {}
    BY <2>1, FS_EmptySet
  <2>2. CASE given[k] # {}
    <3>1. PICK r \in given[k] : given[k] = {r}
      BY <2>2 DEF GivenInv, Settled
    <3>2. Cardinality(given[k]) = 1
      BY <3>1, FS_Singleton, ZenonT(40)
    <3> QED BY <3>2
  <2> QED BY <2>1, <2>2
<1> QED BY <1>1, <1>2, <1>3, PickInvariant, PinsInvariant, PTL DEF Spec

=============================================================================

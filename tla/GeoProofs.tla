------------------------------ MODULE GeoProofs ------------------------------
(***************************************************************************)
(* What updaters leave on the disk and what hbbs reads of it (GeoUpdate,   *)
(* GeoReader), for any number of months, of updaters and of faults.        *)
(***************************************************************************)
EXTENDS GeoReader, SequenceTheorems, TLAPS

(* The provers are given time: SMT first, then Zenon.                      *)
USE SMTT(40), ZenonT(40)

NoOverwrite == "overwrite" \notin faults

Working == {"download", "validate", "rename", "truncate", "record"}

(* A database of one month.                                                *)
IsDb(f) == \E m \in Nat \ {0} : f = <<m, m>>

LEMMA DbFacts ==
    /\ \A f : IsDb(f) => Whole(f) /\ f # NoFile /\ f # Current /\ f[1] \in Nat \ {0} /\ f[2] = f[1]
    /\ NoFile # Current
    /\ \A x : <<x>> # Current /\ <<x>> # NoFile
    /\ \A x, y : <<x, y>> # Current /\ <<x, y>> # NoFile
  BY DEF IsDb, Whole, NoFile, Current

LEMMA TwoParts == ASSUME NEW x, NEW y PROVE Append(<<x>>, y) = <<x, y>>
<1> DEFINE S == {x, y}
<1>1. <<x>> \in Seq(S) /\ <<x, y>> \in Seq(S) /\ Len(<<x>>) = 1 /\ Len(<<x, y>>) = 2
  OBVIOUS
<1>2. /\ Append(<<x>>, y) \in Seq(S) /\ Len(Append(<<x>>, y)) = 2
      /\ Append(<<x>>, y)[1] = x /\ Append(<<x>>, y)[2] = y
  BY <1>1, AppendProperties
<1>3. \A i \in 1..2 : Append(<<x>>, y)[i] = <<x, y>>[i]
  BY <1>2
<1> QED BY <1>1, <1>2, <1>3, SeqEqual, Zenon

(* An updater that works has a month that is published, and renames only a *)
(* file that it found valid.                                               *)
UpdaterInv(p) ==
    /\ pc[p] # "idle" => today[p] \in 1..now
    /\ pc[p] = "try" => cand[p] = today[p] \/ cand[p] = today[p] - 1
    /\ pc[p] \in Working => cand[p] \in 1..pub
    /\ pc[p] = "rename" => tmp[p] = "good"

UpdatersInv ==
    /\ now \in Nat \ {0} /\ pub \in 0..now
    /\ pc \in [Updater -> Working \union {"idle", "try"}]
    /\ tmp \in [Updater -> {"none", "part", "bad", "good"}]
    /\ today \in [Updater -> Nat] /\ cand \in [Updater -> Nat]
    /\ \A p \in Updater : UpdaterInv(p)

GeoInv ==
    /\ UpdatersInv
    /\ NoOverwrite => opc = "idle" /\ (file = NoFile \/ IsDb(file))

LEMMA GeoInitInv == Init => GeoInv
  BY GeoAssumption DEF Init, GeoInit, GeoInv, UpdatersInv, UpdaterInv, Month, Working

(* What the steps of an updater do to the database.                        *)
LEMMA OnlyRenamesChange ==
    ASSUME GeoInv, GeoStep
    PROVE  /\ Renames \/ file' = file
           /\ Renames => IsDb(file')
<1> USE DEF GeoInv, UpdatersInv
<1>1. ASSUME NEW p \in Updater, Rename(p)
      PROVE  /\ Renames \/ file' = file
             /\ Renames => IsDb(file')
  <2>1. CASE Return(p) /\ UNCHANGED disk
    BY <1>1, <2>1 DEF Return, Goto, Renames, disk
  <2>2. CASE file' = <<cand[p], IF tmp[p] = "good" THEN cand[p] ELSE 0>> /\ Goto(p, "truncate")
    <3>1. tmp[p] = "good" /\ cand[p] \in Nat \ {0}
      BY <1>1 DEF Rename, UpdaterInv, Working
    <3> QED BY <1>1, <2>2, <3>1 DEF Rename, Renames, IsDb, Goto
  <2> QED BY <1>1, <2>1, <2>2 DEF Rename
<1>2. ASSUME NEW p \in Updater, Truncate(p) \/ Record(p) PROVE ~ Renames /\ file' = file
  BY <1>2 DEF Truncate, Record, Renames, Return, Goto
<1>3. ASSUME NEW p \in Updater, Try(p) \/ Download(p) \/ Validate(p) \/ Kill(p)
      PROVE  ~ Renames /\ file' = file
  BY <1>3 DEF Try, Download, Validate, Kill, Renames, Return, Goto, disk
<1>4. ASSUME NEW p \in Updater, NEW f \in BOOLEAN, Start(p, f) PROVE ~ Renames /\ file' = file
  BY <1>4 DEF Start, Renames, Goto, disk
<1>5. ASSUME NextMonth \/ Publish PROVE ~ Renames /\ file' = file
  BY <1>5 DEF NextMonth, Publish, Renames, disk
<1> QED BY <1>1, <1>2, <1>3, <1>4, <1>5 DEF GeoStep, Step

LEMMA GeoStepInv == ASSUME UpdatersInv, GeoStep PROVE UpdatersInv' /\ faults' = faults
<1> USE DEF UpdatersInv, UpdaterInv, world, local
<1>1. ASSUME NEW p \in Updater, NEW f \in BOOLEAN, Start(p, f) PROVE UpdatersInv' /\ faults' = faults
  BY <1>1 DEF Start, Goto, Working
<1>2. ASSUME NEW p \in Updater, Return(p), UNCHANGED world PROVE UpdatersInv' /\ faults' = faults
  BY <1>2 DEF Return, Forget, Goto, Working
<1>3. ASSUME NEW p \in Updater, Kill(p) PROVE UpdatersInv' /\ faults' = faults
  BY <1>3 DEF Kill, Forget, Goto, Working
<1>4. ASSUME NEW p \in Updater, Try(p), ~ Return(p) PROVE UpdatersInv' /\ faults' = faults
  <2>1. CASE /\ cand[p] = today[p] /\ cand' = [cand EXCEPT ![p] = previous(@)]
             /\ UNCHANGED <<pc, local, tmp>>
    BY <1>4, <2>1 DEF Try, Working, previous
  <2>2. CASE cand[p] \in 1..pub /\ tmp' = [tmp EXCEPT ![p] = "part"] /\ Goto(p, "download")
             /\ UNCHANGED <<local, cand>>
    BY <1>4, <2>2 DEF Try, Goto, Working
  <2> QED BY <1>4, <2>1, <2>2 DEF Try
<1>5. ASSUME NEW p \in Updater, NEW l \in Working, pc[p] \in Working, Goto(p, l),
             tmp' \in [Updater -> {"none", "part", "bad", "good"}],
             l = "rename" => tmp[p] = "good",
             \A q \in Updater : tmp'[q] = tmp[q] \/ (q = p /\ l # "rename"),
             UNCHANGED <<world, local, cand>>
      PROVE  UpdatersInv' /\ faults' = faults
  BY <1>5 DEF Goto, Working
<1>6. ASSUME NEW p \in Updater, ~ Return(p), Download(p) PROVE UpdatersInv' /\ faults' = faults
  <2>1. pc[p] \in Working /\ Goto(p, "validate") /\ UNCHANGED <<world, local, cand>>
    BY <1>6 DEF Download, Working
  <2>2. /\ tmp' \in [Updater -> {"none", "part", "bad", "good"}]
        /\ \A q \in Updater : tmp'[q] = tmp[q] \/ q = p
    BY <1>6 DEF Download
  <2> QED BY <1>5, <2>1, <2>2, ZenonT(40) DEF Working
<1>7. ASSUME NEW p \in Updater, ~ Return(p), Validate(p) PROVE UpdatersInv' /\ faults' = faults
  BY <1>5, <1>7, ZenonT(40) DEF Validate, Working
<1>8. ASSUME NEW p \in Updater, ~ Return(p), Rename(p) PROVE UpdatersInv' /\ faults' = faults
  <2>1. /\ pc[p] \in Working /\ Goto(p, "truncate") /\ UNCHANGED <<world, local, cand>>
        /\ tmp' = [tmp EXCEPT ![p] = "none"]
    BY <1>8 DEF Rename, Working
  <2> QED BY <1>5, <2>1 DEF Working
<1>9. ASSUME NEW p \in Updater, ~ Return(p), Truncate(p) \/ Record(p) PROVE UpdatersInv' /\ faults' = faults
  BY <1>5, <1>9, ZenonT(40) DEF Truncate, Record, Working
<1>10. ASSUME NextMonth \/ Publish PROVE UpdatersInv' /\ faults' = faults
  BY <1>10 DEF NextMonth, Publish, Working
<1>11. ASSUME NEW p \in Updater, Step(p) PROVE UNCHANGED world
  BY <1>11, ZenonT(40) DEF Step, Try, Download, Validate, Rename, Truncate, Record
<1> QED BY <1>1, <1>2, <1>3, <1>4, <1>6, <1>7, <1>8, <1>9, <1>10, <1>11, ZenonT(40) DEF GeoStep, Step

LEMMA GeoNextInv == ASSUME GeoInv, [Next]_vars PROVE GeoInv'
<1>1. CASE Updates
  <2>1. /\ UpdatersInv' /\ faults' = faults
        /\ NoOverwrite => file' = NoFile \/ IsDb(file')
    BY <1>1, GeoStepInv, OnlyRenamesChange DEF Updates, GeoInv
  <2>2. opc' = "idle" \/ opc' = opc
    BY <1>1 DEF Updates
  <2> QED BY <2>1, <2>2 DEF GeoInv, NoOverwrite
<1>2. CASE Reload \/ Quit \/ UNCHANGED vars
  <2>1. UNCHANGED geoVars /\ opc' = opc
    BY <1>2 DEF Reload, Look, OpenCopy, CopyRest, MapCopy, SetDb, Quit, vars, readVars
  <2> QED BY <2>1 DEF GeoInv, UpdatersInv, UpdaterInv, NoOverwrite, IsDb, geoVars
<1>3. CASE OverwriteBegins \/ OverwriteFirst \/ OverwriteLast
  <2>1. ~ NoOverwrite /\ UNCHANGED <<world, pc, local, cand, tmp>>
    BY <1>3 DEF OverwriteBegins, OverwriteFirst, OverwriteLast, GeoInv, NoOverwrite
  <2> QED BY <2>1 DEF GeoInv, UpdatersInv, UpdaterInv, NoOverwrite, world, local
<1> QED BY <1>1, <1>2, <1>3 DEF Next

(* The database is complete and valid whatever updaters do and wherever    *)
(* one fails or is killed (fetch_month: unpack, sync, validate, rename).   *)
THEOREM FileIsWholeHolds == Spec => []FileIsWhole
<1>1. GeoInv => FileIsWhole
  BY DbFacts DEF GeoInv, FileIsWhole, NoOverwrite, Whole
<1> QED BY <1>1, GeoInitInv, GeoNextInv, PTL DEF Spec

-----------------------------------------------------------------------------
(***************************************************************************)
(* What hbbs holds.  The copy grows part by part; without a fault of the   *)
(* folder neither the copy nor what is in force is the file itself.        *)
(***************************************************************************)
CopyInv ==
    /\ rpc = "copy" => \E x : copy = <<x>>
    /\ rpc = "map" => \E x, y : copy = <<x, y>>
    /\ "folder" \notin faults => db # Current /\ copy # Current

LEMMA CopyInitInv == Init => CopyInv
  BY DbFacts DEF Init, CopyInv

LEMMA CopyNextInv == ASSUME CopyInv, UNCHANGED faults, [Next]_vars PROVE CopyInv'
<1> USE DEF CopyInv
<1>1. CASE Updates
  <2>1. /\ rpc' = rpc
        /\ (copy' = copy \/ copy' = Keep(copy)) /\ (db' = db \/ db' = Keep(db))
    BY <1>1 DEF Updates
  <2>2. /\ copy # Current => copy' = copy
        /\ db # Current => db' = db
    BY <2>1 DEF Keep
  <2>3. rpc \in {"copy", "map"} => copy # Current
    BY DbFacts
  <2> QED BY <2>1, <2>2, <2>3
<1>2. CASE Look \/ SetDb \/ Quit
  BY <1>2, DbFacts DEF Look, SetDb, Quit
<1>3. CASE OpenCopy
  <2>1. CASE "folder" \in faults
    BY <1>3, <2>1 DEF OpenCopy
  <2>2. CASE "folder" \notin faults
    <3>1. copy' = <<file[1]>> /\ rpc' = "copy" /\ db' = db
      BY <1>3, <2>2 DEF OpenCopy
    <3>2. copy' # Current
      BY <3>1, DbFacts
    <3> QED BY <3>1, <3>2
  <2> QED BY <2>1, <2>2
<1>4. CASE CopyRest
  <2>1. PICK x : copy = <<x>>
    BY <1>4 DEF CopyRest
  <2>2. copy' = <<x, RestOf[2]>> /\ rpc' = "map" /\ db' = db
    <3>1. copy' = Append(<<x>>, RestOf[2]) /\ rpc' = "map" /\ db' = db
      BY <1>4, <2>1 DEF CopyRest
    <3> QED BY <3>1, TwoParts
  <2>3. copy' # Current
    BY <2>2, DbFacts
  <2> QED BY <2>2, <2>3
<1>5. CASE MapCopy
  BY <1>5, DbFacts DEF MapCopy
<1>6. CASE OverwriteBegins \/ OverwriteFirst \/ OverwriteLast \/ UNCHANGED vars
  BY <1>6, Zenon DEF OverwriteBegins, OverwriteFirst, OverwriteLast, vars, readVars
<1> QED BY <1>1, <1>2, <1>3, <1>4, <1>5, <1>6 DEF Next, Reload

(* The faults of a behaviour are chosen once.                              *)
LEMMA FaultsFixed == ASSUME UpdatersInv, [Next]_vars PROVE faults' = faults
<1>1. ASSUME Updates PROVE faults' = faults
  BY <1>1, GeoStepInv DEF Updates
<1> QED BY <1>1, ZenonT(40) DEF Next, Reload, Look, OpenCopy, CopyRest, MapCopy, SetDb, Quit, OverwriteBegins,
                    OverwriteFirst, OverwriteLast, vars, geoVars, world

(* Nothing but hbbs itself changes what its lookups read, if it can put a  *)
(* copy somewhere: neither a rename over the database nor a write onto it  *)
(* (GeoDb::open, open_mapped).                                             *)
THEOREM OnlyLoadsChangeHolds == Spec => OnlyLoadsChange
<1> DEFINE A == InForce' # InForce => "folder" \in faults \/ rpc = "set" \/ Quit
<1>1. Init => GeoInv /\ CopyInv
  BY GeoInitInv, CopyInitInv
<1>2. GeoInv /\ CopyInv /\ [Next]_vars => GeoInv' /\ CopyInv'
  BY GeoNextInv, CopyNextInv, FaultsFixed DEF GeoInv
<1>3. GeoInv /\ CopyInv /\ [Next]_vars => [A]_vars
  <2> SUFFICES ASSUME GeoInv, CopyInv, [Next]_vars, "folder" \notin faults, rpc # "set", ~ Quit
               PROVE  InForce' = InForce
    OBVIOUS
  <2>1. CopyInv' /\ faults' = faults
    BY CopyNextInv, FaultsFixed DEF GeoInv
  <2>2. db # Current /\ db' # Current
    BY <2>1, Zenon DEF CopyInv
  <2>3. db' = db
    BY <2>2, ZenonT(40) DEF Next, Updates, Keep, Reload, Look, OpenCopy, CopyRest, MapCopy, SetDb,
                OverwriteBegins, OverwriteFirst, OverwriteLast, vars, readVars
  <2> QED BY <2>2, <2>3 DEF InForce, At
<1> QED BY <1>1, <1>2, <1>3, PTL DEF Spec, OnlyLoadsChange

-----------------------------------------------------------------------------
(***************************************************************************)
(* What hbbs reads where nobody writes onto the database: the file that is *)
(* being copied, under its name or without one, is of one month, and the   *)
(* copy is the first part of it.                                           *)
(***************************************************************************)
Held(x) == x = NoFile \/ IsDb(At(x))

ReadInv ==
    NoOverwrite =>
        /\ Held(db)
        /\ rpc \in {"open", "copy"} => IsDb(file)
        /\ rpc = "copy" => IsDb(At(fd)) /\ copy = <<At(fd)[1]>>
        /\ rpc = "map" => IsDb(copy)
        /\ rpc = "set" => Held(copy)

(* A rename does not change what is held.                                  *)
LEMMA HeldStays ==
    ASSUME IsDb(file) \/ file = NoFile, NEW x, IsDb(At(x)), NEW y,
           \/ file' = file /\ y = x
           \/ y = Keep(x)
    PROVE  IsDb(IF y = Current THEN file' ELSE y) /\ (IF y = Current THEN file' ELSE y) = At(x)
  BY DbFacts DEF Keep, At

LEMMA ReadNextInv == ASSUME GeoInv, CopyInv, ReadInv, [Next]_vars PROVE ReadInv'
<1> SUFFICES ASSUME NoOverwrite, NoOverwrite'
             PROVE  /\ Held(db)'
                    /\ rpc' \in {"open", "copy"} => IsDb(file')
                    /\ rpc' = "copy" => IsDb(At(fd))' /\ copy' = <<At(fd)[1]>>'
                    /\ rpc' = "map" => IsDb(copy')
                    /\ rpc' = "set" => Held(copy)'
  BY FaultsFixed DEF GeoInv, ReadInv, NoOverwrite
<1>0. /\ IsDb(file) \/ file = NoFile
      /\ Held(db)
      /\ rpc \in {"open", "copy"} => IsDb(file)
      /\ rpc = "copy" => IsDb(At(fd)) /\ copy = <<At(fd)[1]>>
      /\ rpc = "map" => IsDb(copy)
      /\ rpc = "set" => Held(copy)
  BY DEF ReadInv, GeoInv
<1>1. CASE Updates
  <2>1. /\ IsDb(file') \/ file' = file
        /\ rpc' = rpc
        /\ \/ file' = file /\ <<db', fd', copy'>> = <<db, fd, copy>>
           \/ <<db', fd', copy'>> = <<Keep(db), Keep(fd), Keep(copy)>>
    BY <1>1, OnlyRenamesChange DEF Updates
  <2>2. ASSUME NEW x, NEW y, Held(x), (file' = file /\ y = x) \/ y = Keep(x)
        PROVE  y = NoFile \/ IsDb(IF y = Current THEN file' ELSE y)
    BY <1>0, <2>2, HeldStays, DbFacts DEF Held, Keep
  <2>3. Held(db)' /\ (rpc = "set" => Held(copy)')
    BY <1>0, <2>1, <2>2 DEF Held, At
  <2>4. rpc = "copy" => IsDb(At(fd))' /\ copy' = <<At(fd)[1]>>'
    <3> SUFFICES ASSUME rpc = "copy" PROVE IsDb(At(fd))' /\ copy' = <<At(fd)[1]>>'
      OBVIOUS
    <3>1. copy' = copy
      BY <1>0, <2>1, DbFacts DEF Keep
    <3>2. IsDb(At(fd)') /\ At(fd)' = At(fd)
      BY <1>0, <2>1, HeldStays DEF At
    <3> QED BY <1>0, <3>1, <3>2
  <2>5. rpc = "map" => copy' = copy
    BY <1>0, <2>1, DbFacts DEF Keep
  <2> QED BY <1>0, <2>1, <2>3, <2>4, <2>5
<1>2. CASE Look
  BY <1>0, <1>2 DEF Look, Held, At, geoVars
<1>3. CASE OpenCopy
  <2>1. UNCHANGED <<file, db>> /\ IsDb(file)
    BY <1>0, <1>3 DEF OpenCopy, geoVars
  <2>2. CASE copy' = Current /\ rpc' = "set"
    BY <1>0, <2>1, <2>2 DEF Held, At
  <2>3. CASE copy' = NoFile /\ rpc' = "set"
    BY <1>0, <2>1, <2>3 DEF Held, At
  <2>4. CASE fd' = Current /\ copy' = <<file[1]>> /\ rpc' = "copy"
    BY <1>0, <2>1, <2>4 DEF Held, At
  <2> QED BY <1>3, <2>2, <2>3, <2>4 DEF OpenCopy
<1>4. CASE CopyRest
  <2>1. /\ IsDb(At(fd)) /\ copy = <<At(fd)[1]>> /\ UNCHANGED <<file, db>> /\ rpc' = "map"
        /\ copy' = Append(copy, At(fd)[2])
    BY <1>0, <1>4 DEF CopyRest, RestOf, geoVars
  <2>2. copy' = <<At(fd)[1], At(fd)[1]>> /\ At(fd)[1] \in Nat \ {0}
    BY <2>1, TwoParts, DbFacts
  <2> QED BY <1>0, <2>1, <2>2, Zenon DEF Held, At, IsDb
<1>5. CASE MapCopy
  <2>1. IsDb(copy) /\ UNCHANGED <<file, db>> /\ rpc' = "set" /\ (copy' = copy \/ copy' = NoFile)
    BY <1>0, <1>5 DEF MapCopy, geoVars
  <2> QED BY <1>0, <2>1, DbFacts DEF Held, At
<1>6. CASE SetDb \/ Quit
  BY <1>0, <1>6 DEF SetDb, Quit, Held, At, geoVars
<1>7. CASE UNCHANGED vars
  BY <1>0, <1>7 DEF vars, readVars, geoVars, Held, At
<1>8. ~ (OverwriteBegins \/ OverwriteFirst \/ OverwriteLast)
  BY DEF OverwriteBegins, OverwriteFirst, OverwriteLast, GeoInv, NoOverwrite
<1> QED BY <1>1, <1>2, <1>3, <1>4, <1>5, <1>6, <1>7, <1>8, ZenonT(40) DEF Next, Reload

(***************************************************************************)
(* What hbbs has not missed, also where the operator writes onto the       *)
(* database: there is a file for good once there is one, and hbbs begins   *)
(* nothing before.                                                         *)
(***************************************************************************)
IsPair(f) == \E x, y : f = <<x, y>>

MissInv ==
    /\ file = NoFile \/ IsPair(file)
    /\ file = NoFile => rpc = "idle" /\ db = NoFile
    /\ NothingMissed

LEMMA PairFacts == ASSUME NEW f, IsPair(f) PROVE f = <<f[1], f[2]>> /\ f # NoFile /\ f # Current
  BY DbFacts DEF IsPair

(* The file changes: it will be looked at again.                           *)
LEMMA ChangeIsSeen ==
    ASSUME MissInv, IsPair(file'), dirty' = TRUE
    PROVE  MissInv'
  BY PairFacts DEF MissInv, NothingMissed

(* Nothing changes that concerns the reader.                               *)
LEMMA MissStutter ==
    ASSUME MissInv, UNCHANGED <<file, faults, readVars>>
    PROVE  MissInv'
  BY DEF MissInv, NothingMissed, readVars, Reading, InForce, At

LEMMA MissNextInv == ASSUME GeoInv, CopyInv, MissInv, [Next]_vars PROVE MissInv'
<1> DEFINE Seen == Reading /\ ~ dirty /\ Whole(file)
<1>0. faults' = faults
  BY FaultsFixed DEF GeoInv
<1>1. CASE Updates
  <2>1. CASE Renames
    <3>1. IsDb(file') /\ dirty' = TRUE
      BY <1>1, <2>1, OnlyRenamesChange, Zenon DEF Updates
    <3> QED BY <3>1, ChangeIsSeen DEF IsPair, IsDb
  <2>2. CASE ~ Renames
    <3>1. file' = file
      BY <1>1, <2>2, OnlyRenamesChange DEF Updates
    <3>2. UNCHANGED <<rpc, fd, copy, left, db, opc, writes>>
      BY <1>1, <2>2 DEF Updates
    <3>3. dirty' <=> dirty
      BY <1>1, <2>2, Zenon DEF Updates
    <3> QED BY <1>0, <3>1, <3>2, <3>3 DEF MissInv, NothingMissed, Reading, InForce, At
  <2> QED BY <2>1, <2>2
<1>2. CASE OverwriteBegins \/ OverwriteFirst \/ OverwriteLast
  <2>1. IsPair(file') /\ dirty' = TRUE
    BY <1>2 DEF OverwriteBegins, OverwriteFirst, OverwriteLast, IsPair
  <2> QED BY <2>1, ChangeIsSeen
<1>3. CASE UNCHANGED vars
  BY <1>3, MissStutter DEF vars, geoVars, world
<1>4. ASSUME Reload \/ Quit PROVE file' = file
  BY <1>4, ZenonT(40) DEF Reload, Look, OpenCopy, CopyRest, MapCopy, SetDb, Quit, geoVars
<1>5. CASE Look
  BY <1>0, <1>4, <1>5, Zenon DEF Look, Reload, MissInv, NothingMissed, InForce, At
<1>6. CASE Quit
  BY <1>0, <1>4, <1>6 DEF Quit, MissInv, NothingMissed
<1>7. CASE OpenCopy
  <2>1. UNCHANGED <<dirty, db>> /\ IsPair(file) /\ file' = file /\ Reading' = Reading
    BY <1>0, <1>4, <1>7, Zenon DEF OpenCopy, Reload, MissInv, Reading
  <2>2. CASE "folder" \in faults
    <3>1. rpc' = "set" /\ (file[2] # 0 => copy' = Current)
      BY <1>7, <2>2 DEF OpenCopy
    <3>2. Whole(file) => file[2] # 0
      BY <2>1, PairFacts DEF Whole
    <3> QED BY <2>1, <3>1, <3>2, PairFacts DEF MissInv, NothingMissed, At
  <2>3. CASE "folder" \notin faults
    <3>1. rpc' = "copy" /\ fd' = Current /\ copy' = <<file[1]>>
      BY <1>7, <2>3 DEF OpenCopy
    <3> QED BY <2>1, <3>1, PairFacts DEF MissInv, NothingMissed
  <2> QED BY <2>2, <2>3
<1>8. CASE CopyRest
  <2>1. UNCHANGED <<dirty, db>> /\ IsPair(file) /\ file' = file /\ Reading' = Reading /\ rpc' = "map"
    BY <1>0, <1>4, <1>8 DEF CopyRest, Reload, MissInv, Reading
  <2>2. ASSUME Seen PROVE copy' = file
    <3>1. fd = Current /\ copy = <<file[1]>>
      BY <1>8, <2>2 DEF MissInv, NothingMissed, CopyRest
    <3>2. copy' = Append(<<file[1]>>, file[2])
      BY <1>8, <3>1 DEF CopyRest, RestOf, At
    <3> QED BY <2>1, <3>2, TwoParts, PairFacts
  <2> QED BY <2>1, <2>2, PairFacts DEF MissInv, NothingMissed
<1>9. CASE MapCopy
  <2>1. UNCHANGED <<dirty, db>> /\ IsPair(file) /\ file' = file /\ Reading' = Reading /\ rpc' = "set"
    BY <1>0, <1>4, <1>9, Zenon DEF MapCopy, Reload, MissInv, Reading
  <2>2. ASSUME Seen PROVE copy' = file
    <3>1. copy = file
      BY <1>9, <2>2 DEF MissInv, NothingMissed, MapCopy
    <3>2. file[2] # 0
      BY <2>1, <2>2, PairFacts DEF Whole
    <3> QED BY <1>9, <3>1, <3>2 DEF MapCopy
  <2> QED BY <2>1, <2>2, PairFacts DEF MissInv, NothingMissed, At
<1>10. CASE SetDb
  <2>1. UNCHANGED dirty /\ IsPair(file) /\ file' = file /\ Reading' = Reading /\ rpc' = "idle"
    BY <1>0, <1>4, <1>10 DEF SetDb, Reload, MissInv, Reading
  <2>2. ASSUME Seen PROVE InForce' = file
    <3>1. At(copy) = file
      BY <1>10, <2>2 DEF MissInv, NothingMissed, SetDb
    <3>2. copy # NoFile
      BY <2>1, <3>1, PairFacts, DbFacts DEF At
    <3>3. db' = copy
      BY <1>10, <3>2 DEF SetDb
    <3> QED BY <2>1, <3>1, <3>3 DEF InForce, At
  <2> QED BY <2>1, <2>2, PairFacts DEF MissInv, NothingMissed
<1> QED BY <1>1, <1>2, <1>3, <1>5, <1>6, <1>7, <1>8, <1>9, <1>10 DEF Next, Reload

(* hbbs reads databases of one month, however many updaters rename files   *)
(* while it copies one, wherever it stops, and whether or not it can put a *)
(* copy somewhere; and where the operator writes onto the database too, a  *)
(* whole file whose time and length hbbs has seen is the one it uses or is *)
(* reading (reload_relay_geo, GeoDb::open).                                *)
THEOREM ReadsSoundHolds == Spec => []ReadsSound
<1> DEFINE I == GeoInv /\ CopyInv /\ ReadInv /\ MissInv
<1>1. Init => I
  <2>1. Init => MissInv
    BY DEF Init, GeoInit, MissInv, NothingMissed
  <2> QED BY <2>1, GeoInitInv, CopyInitInv DEF Init, ReadInv, Held
<1>2. I /\ [Next]_vars => I'
  BY GeoNextInv, CopyNextInv, ReadNextInv, MissNextInv, FaultsFixed DEF GeoInv
<1>3. I => ReadsSound
  <2>1. I => ReadsWhole
    BY DbFacts DEF ReadInv, ReadsWhole, NoOverwrite, Held, InForce, At, Whole
  <2> QED BY <2>1 DEF ReadsSound, MissInv
<1> QED BY <1>1, <1>2, <1>3, PTL DEF Spec

-----------------------------------------------------------------------------
(***************************************************************************)
(* The record, where there is one updater: it never tries a month before   *)
(* the one recorded, forced or not, since what was recorded was published. *)
(***************************************************************************)
OneUpdater == \A p, q \in Updater : p = q

RecordInv ==
    /\ record \in Nat
    /\ NoOverwrite =>
          /\ record <= pub
          /\ record = 0 \/ (file # NoFile /\ record <= file[1])
          /\ \A p \in Updater :
                /\ pc[p] # "idle" => record <= cand[p]
                /\ pc[p] \in {"truncate", "record"} => file = <<cand[p], cand[p]>>

LEMMA RecordNextInv == ASSUME OneUpdater, GeoInv, RecordInv, [Next]_vars PROVE RecordInv'
<1> USE DEF world, local, disk
<1>0. ASSUME ~ NoOverwrite, record' \in Nat PROVE RecordInv'
  BY <1>0, FaultsFixed DEF RecordInv, NoOverwrite, GeoInv
<1>1. ASSUME GeoStep, NoOverwrite PROVE RecordInv'
  <2> USE DEF RecordInv, GeoInv, UpdatersInv, UpdaterInv, OneUpdater
  <2>1. ASSUME NEW p \in Updater, NEW f \in BOOLEAN, Start(p, f) PROVE RecordInv'
    BY <1>1, <2>1 DEF Start, Goto
  <2>2. ASSUME NEW p \in Updater, pc'[p] = "idle", UNCHANGED <<file, record, world>> PROVE RecordInv'
    BY <1>1, <2>2
  <2>3. ASSUME NEW p \in Updater, Return(p) \/ Kill(p) PROVE pc'[p] = "idle"
    BY <2>3 DEF Return, Kill, Goto
  <2>4. ASSUME NEW p \in Updater, Try(p), ~ Return(p) PROVE RecordInv'
    <3>1. CASE /\ cand[p] = today[p] /\ cand' = [cand EXCEPT ![p] = previous(@)]
               /\ cand[p] \notin 1..pub /\ UNCHANGED <<pc, file, record, world>>
      <4>1. pub < today[p] /\ cand'[p] = today[p] - 1 /\ today[p] \in 1..now /\ pc[p] = "try"
        BY <2>4, <3>1 DEF Try, previous
      <4> QED BY <1>1, <3>1, <4>1
    <3>2. CASE Goto(p, "download") /\ UNCHANGED <<cand, file, record, world>>
      BY <1>1, <2>4, <3>2 DEF Try, Goto
    <3> QED BY <2>4, <3>1, <3>2, ZenonT(40) DEF Try
  <2>5. ASSUME NEW p \in Updater, Download(p) \/ Validate(p), ~ Return(p) PROVE RecordInv'
    BY <1>1, <2>5 DEF Download, Validate, Goto
  <2>6. ASSUME NEW p \in Updater, Rename(p), ~ Return(p) PROVE RecordInv'
    <3>1. /\ file' = <<cand[p], cand[p]>> /\ pc' = [pc EXCEPT ![p] = "truncate"]
          /\ UNCHANGED <<record, cand, world>> /\ cand[p] \in Nat /\ record <= cand[p]
      BY <1>1, <2>6 DEF Rename, Goto
    <3>2. file' # NoFile /\ file'[1] = cand[p]
      BY <3>1, DbFacts
    <3> QED BY <1>1, <3>1, <3>2
  <2>7. ASSUME NEW p \in Updater, Truncate(p), ~ Return(p) PROVE RecordInv'
    BY <1>1, <2>7 DEF Truncate, Goto
  <2>8. ASSUME NEW p \in Updater, Record(p) PROVE RecordInv'
    <3>1. /\ pc[p] = "record" /\ pc'[p] = "idle" /\ UNCHANGED <<file, world>>
          /\ record' = record \/ record' = cand[p]
      BY <2>8, <2>3 DEF Record, Recorded
    <3>2. cand[p] \in 1..pub /\ file = <<cand[p], cand[p]>> /\ file # NoFile /\ file[1] = cand[p]
      BY <1>1, <3>1, DbFacts DEF Working
    <3> QED BY <1>1, <3>1, <3>2
  <2>9. ASSUME NEW p \in Updater, Step(p) \/ Kill(p) PROVE UNCHANGED world
    BY <2>9, ZenonT(40) DEF Step, Try, Download, Validate, Rename, Truncate, Record, Kill
  <2>10. ASSUME NEW p \in Updater, Return(p) \/ Kill(p), Step(p) \/ Kill(p), ~ Record(p)
         PROVE  UNCHANGED <<file, record>>
    BY <2>10, ZenonT(40) DEF Step, Try, Download, Validate, Rename, Truncate, Kill, Return, Goto
  <2>11. ASSUME NextMonth \/ Publish PROVE RecordInv'
    BY <1>1, <2>11 DEF NextMonth, Publish
  <2> HIDE DEF RecordInv, GeoInv, UpdatersInv, UpdaterInv, OneUpdater, world, local, disk
  <2>12. ASSUME NEW p \in Updater, Return(p) \/ Kill(p), Step(p) \/ Kill(p), ~ Record(p) PROVE RecordInv'
    <3>1. UNCHANGED <<file, record>> /\ UNCHANGED world /\ pc'[p] = "idle"
      BY <2>3, <2>9, <2>10, <2>12, Zenon
    <3> QED BY <2>2, <3>1
  <2>13. ASSUME NEW p \in Updater, Step(p) \/ Kill(p) PROVE RecordInv'
    BY <2>4, <2>5, <2>6, <2>7, <2>8, <2>12, <2>13, ZenonT(40) DEF Step
  <2> QED BY <1>1, <2>1, <2>11, <2>13, Zenon DEF GeoStep
<1>2. ASSUME GeoStep PROVE record' \in Nat
  <2>1. record \in Nat
    BY DEF RecordInv
  <2>2. ASSUME NEW p \in Updater, Record(p) PROVE record' \in Nat
    BY <2>1, <2>2 DEF Record, Recorded, GeoInv, UpdatersInv
  <2>3. ASSUME NEW p \in Updater, Step(p) \/ Kill(p), ~ Record(p) PROVE record' \in {record, 0}
    BY <2>3, ZenonT(40) DEF Step, Try, Download, Validate, Rename, Truncate, Kill
  <2>4. ASSUME NEW p \in Updater, NEW f \in BOOLEAN, Start(p, f) PROVE record' = record
    BY <2>4, ZenonT(40) DEF Start
  <2>5. ASSUME NextMonth \/ Publish PROVE record' = record
    BY <2>5, ZenonT(40) DEF NextMonth, Publish
  <2>6. \A n \in {record, 0} : n \in Nat
    BY <2>1
  <2> QED BY <1>2, <2>1, <2>2, <2>3, <2>4, <2>5, <2>6, ZenonT(40) DEF GeoStep
<1>3. CASE Updates
  BY <1>0, <1>1, <1>2, <1>3, Zenon DEF Updates
<1>4. CASE Reload \/ Quit \/ UNCHANGED vars
  <2>1. UNCHANGED geoVars
    BY <1>4, Zenon DEF Reload, Look, OpenCopy, CopyRest, MapCopy, SetDb, Quit, vars
  <2> QED BY <2>1 DEF RecordInv, NoOverwrite, geoVars
<1>5. CASE OverwriteBegins \/ OverwriteFirst \/ OverwriteLast
  <2>1. ~ NoOverwrite /\ UNCHANGED record
    BY <1>5 DEF OverwriteBegins, OverwriteFirst, OverwriteLast, GeoInv, NoOverwrite
  <2> QED BY <1>0, <2>1 DEF RecordInv
<1> QED BY <1>3, <1>4, <1>5 DEF Next

(* With one updater the record is never of a month newer than the file,    *)
(* and the file is whole, for any number of months and wherever the        *)
(* updater fails or is killed (update, fetch_month).                       *)
THEOREM DiskSoundHolds == OneUpdater => (Spec => []DiskSound)
<1> SUFFICES ASSUME OneUpdater PROVE Spec => []DiskSound
  OBVIOUS
<1> DEFINE I == GeoInv /\ RecordInv
<1>1. Init => I
  <2> SUFFICES ASSUME Init PROVE RecordInv
    BY GeoInitInv
  <2> QED BY GeoInitInv DEF Init, GeoInit, RecordInv, GeoInv, UpdatersInv
<1>2. I /\ [Next]_vars => I'
  BY GeoNextInv, RecordNextInv, Zenon
<1>3. I => DiskSound
  BY DbFacts DEF GeoInv, RecordInv, DiskSound, FileIsWhole, RecordMatches, NoOverwrite, Whole
<1> QED BY <1>1, <1>2, <1>3, PTL DEF Spec

-----------------------------------------------------------------------------
(***************************************************************************)
(* Nothing is downloaded twice, where there is one updater and nothing     *)
(* fails.  A month that was fetched without force is recorded, or is on    *)
(* its way: fs::write empties the record before it writes the month.  The  *)
(* month that update compares with is the recorded one until then.         *)
(***************************************************************************)
Fetched == {"validate", "rename", "truncate", "record"}

FetchInv ==
    faults = {} =>
        /\ now \in Month
        /\ fetched \in [Month -> Nat]
        /\ \A m \in Month : fetched[m] <= 1
        /\ \A m \in Month : fetched[m] # 0 =>
              m <= record \/ \E p \in Updater : pc[p] \in Fetched /\ m <= cand[p]
        /\ \A p \in Updater :
              /\ pc[p] \notin {"idle", "record"} => have[p] = record
              /\ pc[p] = "download" /\ ~ force[p] => have[p] < cand[p]
              /\ pc[p] = "validate" => tmp[p] = "good"

FetchTypes == have \in [Updater -> Nat] /\ force \in [Updater -> BOOLEAN]

LEMMA FetchTypesNext == ASSUME RecordInv, FetchTypes, [Next]_vars PROVE FetchTypes'
<1>1. ASSUME NEW p \in Updater, NEW f \in BOOLEAN, Start(p, f) PROVE FetchTypes'
  BY <1>1 DEF Start, installed, FetchTypes, RecordInv
<1>2. ASSUME NEW p \in Updater, Forget(p) PROVE FetchTypes'
  BY <1>2 DEF Forget, FetchTypes
<1>3. ASSUME UNCHANGED local PROVE FetchTypes'
  BY <1>3 DEF FetchTypes, local
<1>4. ASSUME NEW p \in Updater, Step(p) \/ Kill(p) PROVE Forget(p) \/ UNCHANGED local
  BY <1>4, Zenon DEF Step, Try, Download, Validate, Rename, Truncate, Record, Kill, Return
<1>5. ASSUME NextMonth \/ Publish PROVE UNCHANGED local
  BY <1>5, Zenon DEF NextMonth, Publish
<1>6. CASE GeoStep
  BY <1>1, <1>2, <1>3, <1>4, <1>5, <1>6, Zenon DEF GeoStep
<1>7. ASSUME ~ Updates PROVE UNCHANGED local
  BY <1>7, ZenonT(40) DEF Next, Reload, Look, OpenCopy, CopyRest, MapCopy, SetDb, Quit, OverwriteBegins,
              OverwriteFirst, OverwriteLast, vars, geoVars, local
<1> QED BY <1>3, <1>6, <1>7 DEF Updates

LEMMA FetchNextInv ==
    ASSUME OneUpdater, GeoInv, RecordInv, FetchTypes, FetchInv, [Next]_vars
    PROVE  FetchInv'
<1> SUFFICES ASSUME faults = {}, faults' = {} PROVE FetchInv'
  BY FaultsFixed DEF FetchInv, GeoInv
<1> USE DEF FetchInv, FetchTypes, Fetched, OneUpdater, world, local, disk
<1>0. NoOverwrite
  BY DEF NoOverwrite
<1>1. ASSUME NEW p \in Updater, NEW f \in BOOLEAN, Start(p, f) PROVE FetchInv'
  <2>1. installed = record
    BY <1>0 DEF installed, RecordInv
  <2> QED BY <1>1, <2>1, ZenonT(40) DEF Start, Goto, GeoInv, UpdatersInv
<1>2. ASSUME NEW p \in Updater, pc[p] = "try", pc' = [pc EXCEPT ![p] = "idle"],
             UNCHANGED <<now, record, fetched>>
      PROVE  FetchInv'
  BY <1>2, ZenonT(40) DEF GeoInv, UpdatersInv
<1>3. ASSUME NEW p \in Updater, Try(p) PROVE FetchInv'
  <2>1. CASE Return(p)
    BY <1>2, <1>3, <2>1, Zenon DEF Try, Return, Goto
  <2>2. CASE cand' = [cand EXCEPT ![p] = previous(@)] /\ UNCHANGED <<pc, local, tmp>>
    BY <1>3, <2>2 DEF Try, GeoInv, UpdatersInv
  <2>3. CASE /\ ~ HaveIt(p) /\ cand[p] \in 1..pub
             /\ Goto(p, "download") /\ UNCHANGED <<local, cand>>
    <3>1. ~ force[p] => have[p] < cand[p]
      BY <2>3 DEF HaveIt, GeoInv, UpdatersInv
    <3> QED BY <1>3, <2>3, <3>1, ZenonT(40) DEF Try, Goto, GeoInv, UpdatersInv
  <2> QED BY <1>3, <2>1, <2>2, <2>3, Zenon DEF Try
<1>4. ASSUME NEW p \in Updater, Download(p) PROVE FetchInv'
  <2>1. cand[p] \in Month /\ pc[p] = "download" /\ (~ force[p] => fetched[cand[p]] = 0)
    <3>1. pc[p] = "download" /\ cand[p] \in 1..pub /\ pub <= now /\ pub \in Nat /\ now \in Nat
      BY <1>4 DEF Download, GeoInv, UpdatersInv, UpdaterInv, Working
    <3>2. cand[p] \in Month
      BY <3>1, GeoAssumption DEF Month
    <3>3. ~ force[p] => ~ (cand[p] <= record)
      BY <3>1, <3>2 DEF RecordInv
    <3> QED BY <3>1, <3>2, <3>3
  <2>2. /\ tmp' = [tmp EXCEPT ![p] = "good"] /\ Goto(p, "validate") /\ UNCHANGED <<now, record, local, cand>>
        /\ fetched' = [fetched EXCEPT ![cand[p]] = IF force[p] \/ @ = 2 THEN @ ELSE @ + 1]
    BY <1>4, Zenon DEF Download
  <2>3. CASE force[p]
    <3>1. fetched' = fetched
      BY <2>1, <2>2, <2>3
    <3> QED BY <2>1, <2>2, <3>1 DEF Goto, GeoInv, UpdatersInv
  <2>4. CASE ~ force[p]
    <3>0. ~ (force[p] \/ fetched[cand[p]] = 2) /\ fetched[cand[p]] + 1 = 1
      BY <2>1, <2>4
    <3>1. fetched' = [fetched EXCEPT ![cand[p]] = 1]
      BY <2>2, <3>0, Zenon
    <3>2. cand[p] \in Nat /\ record <= cand[p] /\ record \in Nat
      BY <1>0, <2>1 DEF GeoInv, UpdatersInv, RecordInv
    <3>3. /\ pc'[p] = "validate" /\ tmp'[p] = "good" /\ have'[p] = have[p] /\ cand'[p] = cand[p]
          /\ have[p] = record /\ record' = record /\ now' = now
      BY <2>1, <2>2 DEF Goto, GeoInv, UpdatersInv
    <3>4. \A m \in Month : fetched'[m] # 0 => m <= record' \/ (pc'[p] \in Fetched /\ m <= cand'[p])
      <4> SUFFICES ASSUME NEW m \in Month, m # cand[p], fetched[m] # 0 PROVE m <= record
        BY <2>1, <3>1, <3>2, <3>3
      <4> QED BY <2>1
    <3>5. fetched' \in [Month -> Nat] /\ \A m \in Month : fetched'[m] <= 1
      BY <2>1, <3>1
    <3> QED BY <3>3, <3>4, <3>5
  <2> QED BY <2>3, <2>4
<1>5. ASSUME NEW p \in Updater, Validate(p) \/ Rename(p) PROVE FetchInv'
  <2>1. /\ UNCHANGED <<now, record, local, cand, fetched>>
        /\ \/ pc[p] = "validate" /\ Goto(p, "rename")
           \/ pc[p] = "rename" /\ Goto(p, "truncate")
    BY <1>5 DEF Validate, Rename
  <2> QED BY <2>1 DEF Goto, GeoInv, UpdatersInv
<1>6. ASSUME NEW p \in Updater, Truncate(p) PROVE FetchInv'
  <2>1. /\ pc[p] = "truncate" /\ Goto(p, "record") /\ UNCHANGED <<now, local, cand, fetched>>
        /\ record \in Nat /\ record <= cand[p] /\ cand[p] \in Nat
    BY <1>0, <1>6, Zenon DEF Truncate, GeoInv, UpdatersInv, RecordInv
  <2> QED BY <2>1 DEF Goto, GeoInv, UpdatersInv, Month
<1>7. ASSUME NEW p \in Updater, Record(p) PROVE FetchInv'
  <2>1. /\ pc[p] = "record" /\ Goto(p, "idle") /\ record' = cand[p] /\ UNCHANGED <<now, fetched>>
        /\ record \in Nat /\ record <= cand[p] /\ cand[p] \in Nat
    BY <1>0, <1>7, Zenon DEF Record, Recorded, Return, GeoInv, UpdatersInv, RecordInv
  <2> QED BY <2>1 DEF Goto, GeoInv, UpdatersInv, Month
<1>8. ASSUME NextMonth \/ Publish PROVE FetchInv'
  BY <1>8, GeoAssumption DEF NextMonth, Publish, Month
<1>9. ~ \E p \in Updater : Kill(p)
  BY DEF Kill
<1>10. CASE GeoStep
  BY <1>1, <1>3, <1>4, <1>5, <1>6, <1>7, <1>8, <1>9, <1>10, ZenonT(40) DEF GeoStep, Step
<1>11. CASE UNCHANGED geoVars
  BY <1>11, Zenon DEF geoVars
<1>12. ASSUME ~ Updates PROVE UNCHANGED geoVars
  BY <1>0, <1>12, ZenonT(40) DEF Next, Reload, Look, OpenCopy, CopyRest, MapCopy, SetDb, Quit, OverwriteBegins,
              OverwriteFirst, OverwriteLast, vars, GeoInv
<1> QED BY <1>10, <1>11, <1>12, Zenon DEF Updates

(* "nothing is downloaded twice": one updater, to which nothing happens,   *)
(* fetches each month at most once unless it is forced, over any number of *)
(* months and of runs, and whenever months begin and files are published   *)
(* (update, installed).                                                    *)
THEOREM DownloadedOnceHolds == OneUpdater => (Spec => []DownloadedOnce)
<1> SUFFICES ASSUME OneUpdater PROVE Spec => []DownloadedOnce
  OBVIOUS
<1> DEFINE I == GeoInv /\ RecordInv /\ FetchTypes /\ FetchInv
<1>1. Init => I
  <2> SUFFICES ASSUME Init PROVE RecordInv /\ FetchTypes /\ FetchInv
    BY GeoInitInv
  <2> QED BY GeoInitInv DEF Init, GeoInit, RecordInv, FetchTypes, FetchInv, GeoInv, UpdatersInv
<1>2. I /\ [Next]_vars => I'
  BY GeoNextInv, RecordNextInv, FetchTypesNext, FetchNextInv, Zenon
<1>3. I => DownloadedOnce
  BY Zenon DEF FetchInv, DownloadedOnce
<1> QED BY <1>1, <1>2, <1>3, PTL DEF Spec
=============================================================================

----------------------------- MODULE GeoReader -----------------------------
(***************************************************************************)
(* hbbs reading the GeoIP database (reload_relay_geo of                    *)
(* src/relay_select.rs, GeoDb::open of src/relay_geo.rs) while updaters    *)
(* rename new files over it and the operator writes onto it.               *)
(*                                                                         *)
(* hbbs copies the file, maps the copy and unlinks it; it maps the file    *)
(* itself when a copy can be put nowhere.  A file that is open or mapped   *)
(* is the one that had the name then: a rename leaves it as it was, a      *)
(* write onto the database changes it (Current).  A step is one system     *)
(* call, and a copy takes two reads.                                       *)
(***************************************************************************)
EXTENDS GeoUpdate, Sequences

CONSTANTS MaxWrites   \* bound: files the operator writes, and starts of hbbs

VARIABLES
    rpc,     \* hbbs: where reload_relay_geo is
    dirty,   \* the file is not as it was when hbbs last looked (db_seen)
    fd,      \* the file that is being copied
    copy,    \* the copy, as far as it is written; or the file mapped in place
    left,    \* a copy lies in the folder
    db,      \* what is mapped: NoFile, a copy, or Current
    opc,     \* the operator: "idle" or at the first or the last part
    writes   \* how many of MaxWrites have happened

readVars == <<rpc, dirty, fd, copy, left, db, opc, writes>>
vars == <<geoVars, readVars>>

Current == <<0, 0, 0>>
Reading == "read" \in faults

Init ==
    /\ GeoInit
    /\ rpc = "idle" /\ dirty = TRUE
    /\ fd = NoFile /\ copy = NoFile /\ left = FALSE /\ db = NoFile
    /\ opc = "idle" /\ writes = 0

(* What a lookup reads.                                                    *)
At(x) == IF x = Current THEN file ELSE x
InForce == At(db)

(* reload_relay_geo: nothing is done unless the time or the length of the  *)
(* file changed.  open_mapped then removes copies that were left.          *)
Look ==
    /\ Reading /\ rpc = "idle" /\ dirty
    /\ dirty' = FALSE
    /\ \/ file = NoFile /\ UNCHANGED <<rpc, left>>
       \/ file # NoFile /\ rpc' = "open" /\ left' = FALSE
    /\ UNCHANGED <<geoVars, fd, copy, db, opc, writes>>

(* Faulty variant: the file is mapped, as if there were no copy.           *)
OpenCopyInPlace ==
    /\ rpc = "open"
    /\ copy' = Current /\ rpc' = "set" /\ UNCHANGED <<fd, left>>
    /\ UNCHANGED <<geoVars, dirty, db, opc, writes>>

(* open_mapped: the copy is begun, in one folder or the other; or, where   *)
(* that fails, the file itself is mapped, if it can be opened.             *)
OpenCopy ==
    /\ rpc = "open"
    /\ IF "folder" \in faults
       THEN copy' = (IF file[2] # 0 THEN Current ELSE NoFile) /\ rpc' = "set" /\ UNCHANGED <<fd, left>>
       ELSE fd' = Current /\ copy' = <<file[1]>> /\ left' = TRUE /\ rpc' = "copy"
    /\ UNCHANGED <<geoVars, dirty, db, opc, writes>>

(* Faulty variant: the rest is read from the file that has the name now.   *)
RestOfByName == file

RestOf == At(fd)

(* ... and completed.                                                      *)
CopyRest ==
    /\ rpc = "copy"
    /\ copy' = Append(copy, RestOf[2]) /\ fd' = NoFile
    /\ rpc' = "map"
    /\ UNCHANGED <<geoVars, dirty, left, db, opc, writes>>

(* ... and mapped and unlinked.  A database without its last part, where   *)
(* the description of the data is, cannot be opened.                       *)
MapCopy ==
    /\ rpc = "map"
    /\ copy' = IF copy[2] # 0 THEN copy ELSE NoFile
    /\ left' = FALSE
    /\ rpc' = "set"
    /\ UNCHANGED <<geoVars, dirty, fd, db, opc, writes>>

(* Faulty variant: the file counts as seen as it is now.                   *)
SetDbLate ==
    /\ rpc = "set"
    /\ db' = IF copy = NoFile THEN db ELSE copy
    /\ copy' = NoFile /\ rpc' = "idle" /\ dirty' = FALSE
    /\ UNCHANGED <<geoVars, fd, left, opc, writes>>

(* reload_relay_geo: a database that was opened replaces the one in force; *)
(* else that is kept.                                                      *)
SetDb ==
    /\ rpc = "set"
    /\ db' = IF copy = NoFile THEN db ELSE copy
    /\ copy' = NoFile /\ rpc' = "idle"
    /\ UNCHANGED <<geoVars, dirty, fd, left, opc, writes>>

(* hbbs is stopped, or dies, and is started again.                         *)
Quit ==
    /\ Reading /\ "quit" \in faults /\ writes < MaxWrites
    /\ writes' = writes + 1
    /\ rpc' = "idle" /\ dirty' = TRUE /\ fd' = NoFile /\ copy' = NoFile /\ db' = NoFile
    /\ UNCHANGED <<geoVars, left, opc>>

(* The operator downloads the newest file onto the database: it is         *)
(* truncated, and written from its start; or the download stops.           *)
OverwriteBegins ==
    /\ "overwrite" \in faults /\ opc = "idle" /\ pub > 0 /\ writes < MaxWrites
    /\ writes' = writes + 1
    /\ file' = <<0, 0>> /\ dirty' = TRUE /\ opc' = "first"
    /\ UNCHANGED <<world, record, pc, local, cand, tmp, fetched, rpc, fd, copy, left, db>>

OverwriteFirst ==
    /\ opc = "first"
    /\ file' = <<pub, 0>> /\ dirty' = TRUE /\ opc' \in {"last", "idle"}
    /\ UNCHANGED <<world, record, pc, local, cand, tmp, fetched, rpc, fd, copy, left, db, writes>>

OverwriteLast ==
    /\ opc = "last"
    /\ file' = <<file[1], file[1]>> /\ dirty' = TRUE /\ opc' = "idle"
    /\ UNCHANGED <<world, record, pc, local, cand, tmp, fetched, rpc, fd, copy, left, db, writes>>

(* An updater's rename: what hbbs holds of the old file stays as it is,    *)
(* and the rest of a download goes to a file that has no name any more.    *)
Renames == \E p \in Updater : pc[p] = "rename" /\ pc'[p] = "truncate"
Keep(x) == IF x = Current THEN file ELSE x

Updates ==
    /\ GeoStep
    /\ dirty' = (dirty \/ Renames)
    /\ IF Renames THEN fd' = Keep(fd) /\ copy' = Keep(copy) /\ db' = Keep(db) /\ opc' = "idle"
       ELSE UNCHANGED <<fd, copy, db, opc>>
    /\ UNCHANGED <<rpc, left, writes>>

Reload == Look \/ OpenCopy \/ CopyRest \/ MapCopy \/ SetDb

Next == Updates \/ Reload \/ Quit \/ OverwriteBegins \/ OverwriteFirst \/ OverwriteLast

(* --loop calls update every day, and a call that is not killed ends (the  *)
(* request has a timeout); the timer of hbbs's io loop keeps ticking, and  *)
(* the operator's download goes on or stops.                               *)
Fairness ==
    /\ \A p \in Updater : WF_vars(Updates /\ Step(p)) /\ WF_vars(Updates /\ \E f \in BOOLEAN : Start(p, f))
    /\ WF_vars(Reload) /\ WF_vars(OverwriteFirst) /\ WF_vars(OverwriteLast)

Spec == Init /\ [][Next]_vars /\ Fairness

-----------------------------------------------------------------------------
(* "Whatever happens to the original afterwards cannot reach the running   *)
(* server" (open_mapped): what lookups read changes only when hbbs puts a  *)
(* database in force, or starts, if it can put a copy somewhere.           *)
OnlyLoadsChange ==
    [][InForce' # InForce => "folder" \in faults \/ rpc = "set" \/ Quit]_vars

(* hbbs reads a database of one month, though updaters rename files while  *)
(* it copies: no part of one month beside a part of another.  (A file that *)
(* the operator writes onto while it is copied may be read in parts.)      *)
ReadsWhole == "overwrite" \notin faults => Whole(InForce)

(* The time and length that reload_relay_geo keeps are from before the     *)
(* file was read (db_now).  So when they are the file's, and it is whole,  *)
(* it is the one that hbbs uses, or has read so far.                       *)
NothingMissed ==
    Reading /\ ~ dirty /\ Whole(file) =>
        \/ rpc = "idle" /\ InForce = file
        \/ rpc = "open"
        \/ rpc = "copy" /\ fd = Current /\ copy = <<file[1]>>
        \/ rpc = "map" /\ copy = file
        \/ rpc = "set" /\ At(copy) = file

(* What hbbs reads is of one month, and nothing that was installed is      *)
(* missed, wherever renames, downloads onto the file and restarts fall     *)
(* between the steps of reload_relay_geo.                                  *)
ReadsSound == ReadsWhole /\ NothingMissed

(* A file that is replaced while it is being copied, and one that was half *)
(* written when it was read, is read again: in the end hbbs uses the file  *)
(* that is installed, if that is whole.                                    *)
DbSettles == Reading => <>[](Whole(file) => InForce = file)
=============================================================================

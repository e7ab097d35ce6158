----------------------------- MODULE GeoUpdate -----------------------------
(***************************************************************************)
(* Keeping the GeoIP database current (src/geo_update.rs): rustdesk-utils  *)
(* geo-update, run by hand, from cron or in a loop, fetches the month's    *)
(* file into a temporary file, validates it, renames it over the database  *)
(* that hbbs reads, and records the month next to it.                      *)
(*                                                                         *)
(* A month is a number; the labels "YYYY-MM" that the code compares order  *)
(* as the months do.  A step is one system call or one request, after any  *)
(* of which the process can be killed.                                     *)
(***************************************************************************)
EXTENDS Naturals

CONSTANTS Updater,    \* processes
          LastMonth,  \* bound: the months are 1..LastMonth
          Outages     \* what may go wrong; each behaviour has one of these sets.
                      \* For an updater: "net", "data", "disk", "kill"; "read": hbbs
                      \* is there too, and reads the database; "folder": it can put
                      \* a copy nowhere; "quit": it stops; "overwrite": the operator
                      \* writes onto the database

ASSUME GeoAssumption == LastMonth \in Nat \ {0}

VARIABLES
    faults,   \* what may fail in this behaviour
    now,      \* the present month
    pub,      \* the latest month that has been published
    file,     \* the installed database: the months of its first and of its
              \* last part, 0 where a part is missing; NoFile: there is none
    record,   \* the month in <db>.version; 0: missing, empty or not a month
    pc,
    today,    \* Options.now, Options.force
    force,
    have,     \* the installed month, as read at the start; 0: None
    cand,     \* the month that is tried
    tmp,      \* the temporary file: "none", "part", "bad", "good"
    fetched   \* history: how often each month was fetched without force, if
              \* nothing may go wrong

geoVars == <<faults, now, pub, file, record, pc, today, force, have, cand, tmp, fetched>>
world == <<faults, now, pub>>
disk == <<file, record>>
local == <<today, force, have>>

Month == 1..LastMonth
NoFile == <<>>
Whole(f) == f = NoFile \/ (f[2] # 0 /\ f[1] = f[2])

GeoInit ==
    /\ faults \in Outages
    /\ now \in Month /\ pub \in {now - 1, now}
    /\ file = NoFile /\ record = 0
    /\ pc = [p \in Updater |-> "idle"]
    /\ today = [p \in Updater |-> 0] /\ force = [p \in Updater |-> FALSE]
    /\ have = [p \in Updater |-> 0] /\ cand = [p \in Updater |-> 0]
    /\ tmp = [p \in Updater |-> "none"]
    /\ fetched = [m \in Month |-> 0]

(* Faulty variant: the record is not found.                                *)
installed_never == 0

(* installed: a record counts only beside a file.                          *)
installed == IF file = NoFile THEN 0 ELSE record

Goto(p, l) == pc' = [pc EXCEPT ![p] = l]

(* update begins.                                                          *)
Start(p, f) ==
    /\ pc[p] = "idle"
    /\ today' = [today EXCEPT ![p] = now]
    /\ force' = [force EXCEPT ![p] = f]
    /\ have' = [have EXCEPT ![p] = installed]
    /\ cand' = [cand EXCEPT ![p] = now]
    /\ tmp' = [tmp EXCEPT ![p] = "none"]
    /\ Goto(p, "try")
    /\ UNCHANGED <<world, disk, fetched>>

Forget(p) ==
    /\ today' = [today EXCEPT ![p] = 0] /\ force' = [force EXCEPT ![p] = FALSE]
    /\ have' = [have EXCEPT ![p] = 0] /\ cand' = [cand EXCEPT ![p] = 0]

(* update returns; a temporary file is removed when it goes out of scope.  *)
Return(p) ==
    /\ tmp' = [tmp EXCEPT ![p] = "none"]
    /\ Goto(p, "idle")
    /\ Forget(p)

previous(m) == m - 1

(* Faulty variant: last month's file counts as current.                    *)
HaveItLoose(p) == ~ force[p] /\ have[p] # 0 /\ have[p] + 1 >= cand[p]

HaveIt(p) == ~ force[p] /\ have[p] # 0 /\ have[p] >= cand[p]

(* update, one round of its loop: nothing to do; the request fails; the    *)
(* month is not published, so the previous one is tried, or update is      *)
(* over; or the download begins.                                           *)
Try(p) ==
    /\ pc[p] = "try"
    /\ \/ HaveIt(p) /\ Return(p)
       \/ ~ HaveIt(p) /\ "net" \in faults /\ Return(p)
       \/ /\ ~ HaveIt(p) /\ cand[p] \notin 1..pub
          /\ \/ /\ cand[p] = today[p]
                /\ cand' = [cand EXCEPT ![p] = previous(@)]
                /\ UNCHANGED <<pc, local, tmp>>
             \/ /\ cand[p] < today[p]
                /\ Return(p)
       \/ /\ ~ HaveIt(p) /\ cand[p] \in 1..pub
          /\ tmp' = [tmp EXCEPT ![p] = "part"]
          /\ Goto(p, "download")
          /\ UNCHANGED <<local, cand>>
    /\ UNCHANGED <<world, disk, fetched>>

(* fetch_month: the body is unpacked into the temporary file and synced.   *)
Download(p) ==
    /\ pc[p] = "download"
    /\ \/ /\ {"net", "disk"} \intersect faults # {}
          /\ Return(p) /\ UNCHANGED fetched
       \/ /\ \/ tmp' = [tmp EXCEPT ![p] = "good"]
             \/ "data" \in faults /\ tmp' = [tmp EXCEPT ![p] = "bad"]
          /\ fetched' = [fetched EXCEPT ![cand[p]] =
                            IF force[p] \/ @ = 2 \/ faults # {} THEN @ ELSE @ + 1]
          /\ Goto(p, "validate")
          /\ UNCHANGED <<local, cand>>
    /\ UNCHANGED <<world, disk>>

(* GeoDb::validate_city.                                                   *)
Validate(p) ==
    /\ pc[p] = "validate"
    /\ \/ tmp[p] = "bad" /\ Return(p)
       \/ tmp[p] = "good" /\ Goto(p, "rename") /\ UNCHANGED <<local, cand, tmp>>
    /\ UNCHANGED <<world, disk, fetched>>

(* fetch_month: the temporary file takes the database's name.              *)
Rename(p) ==
    /\ pc[p] = "rename"
    /\ \/ "disk" \in faults /\ Return(p) /\ UNCHANGED disk
       \/ /\ file' = <<cand[p], IF tmp[p] = "good" THEN cand[p] ELSE 0>>
          /\ tmp' = [tmp EXCEPT ![p] = "none"]
          /\ Goto(p, "truncate")
          /\ UNCHANGED <<record, local, cand>>
    /\ UNCHANGED <<world, fetched>>

(* Faulty variant: what is recorded is the month that was asked for first. *)
RecordedToday(p) == today[p]

Recorded(p) == cand[p]

(* update: fs::write empties the record ...                                *)
Truncate(p) ==
    /\ pc[p] = "truncate"
    /\ \/ "disk" \in faults /\ Return(p) /\ UNCHANGED record
       \/ record' = 0 /\ Goto(p, "record") /\ UNCHANGED <<local, cand, tmp>>
    /\ UNCHANGED <<world, file, fetched>>

(* ... and writes the month.                                               *)
Record(p) ==
    /\ pc[p] = "record"
    /\ \/ "disk" \in faults /\ Return(p) /\ UNCHANGED record
       \/ record' = Recorded(p) /\ Return(p)
    /\ UNCHANGED <<world, file, fetched>>

(* The process is killed; what it has on disk stays.                       *)
Kill(p) ==
    /\ "kill" \in faults
    /\ pc[p] # "idle"
    /\ Goto(p, "idle")
    /\ Forget(p)
    /\ UNCHANGED <<world, disk, tmp, fetched>>

(* A month begins; a month's file is published.                            *)
NextMonth ==
    /\ now < LastMonth /\ now' = now + 1
    /\ UNCHANGED <<faults, pub, disk, pc, local, cand, tmp, fetched>>

Publish ==
    /\ pub < now /\ pub' = pub + 1
    /\ UNCHANGED <<faults, now, disk, pc, local, cand, tmp, fetched>>

Step(p) == Try(p) \/ Download(p) \/ Validate(p) \/ Rename(p) \/ Truncate(p) \/ Record(p)

GeoStep ==
    \/ \E p \in Updater : Step(p) \/ Kill(p) \/ \E f \in BOOLEAN : Start(p, f)
    \/ NextMonth \/ Publish

-----------------------------------------------------------------------------
(* "hbbs ... never sees a half-written one": the database that updaters    *)
(* install is complete and valid, wherever a download fails or a process   *)
(* is killed.                                                              *)
FileIsWhole == "overwrite" \notin faults => Whole(file)

(* "What was fetched is recorded next to the database": a record is never  *)
(* of a month newer than the file, which would keep that month's file from *)
(* being fetched.                                                          *)
RecordMatches ==
    "overwrite" \notin faults => record = 0 \/ (file # NoFile /\ record <= file[1])

(* The two together: what updaters leave on the disk.                      *)
DiskSound == FileIsWhole /\ RecordMatches

(* "nothing is downloaded twice", if nothing fails and force is not given. *)
DownloadedOnce == faults = {} => \A m \in Month : fetched[m] <= 1

(* An updater that keeps running, and for which nothing fails, installs    *)
(* the newest file if it is of the present or the previous month.          *)
KeptCurrent == faults = {} => <>[](pub > 0 /\ pub + 1 >= now => file = <<pub, pub>>)
=============================================================================

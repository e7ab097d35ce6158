--------------------------- MODULE DesktopProofs ---------------------------
(***************************************************************************)
(* Proofs about KeyFiles, for any number of processes and any set of keys: *)
(* processes that serve agree on the key, and a key that was written stays;*)
(* also while the UI of Desktop starts, stops and restarts the processes.  *)
(* Then about Desktop, for channels of any size and any number of logs: the*)
(* window follows the service and the chosen log.                          *)
(***************************************************************************)
EXTENDS Desktop, TLAPS

(* The provers are given time: SMT first, then Zenon.                      *)
USE SMTT(40), ZenonT(40)

Places == {"off", "open", "match", "create", "write", "look", "temp", "publish", "serve"}

TypeOK ==
    /\ sk \in Key \union {Absent, Partial}
    /\ pub \in Key \union {Absent}
    /\ at \in [Proc -> Places]
    /\ key \in [Proc -> Key \union {Absent}]

(* What a process at each place knows.  From the creation of the private   *)
(* key file to the write of its contents it has the file for itself, and   *)
(* nobody publishes, as that takes a whole private key; so what it found   *)
(* of the public key still holds.  After the write, or once it has loaded  *)
(* the key, its key is that of the file, which no longer changes, and the  *)
(* public key, if it was missing, is that key's or still missing.          *)
Knows(p) ==
    /\ at[p] \in {"match", "create", "write"} => key[p] \in Key
    /\ at[p] = "create" /\ sk \notin Key => pub \in {Absent, key[p]}
    /\ at[p] = "write" => sk = Partial /\ pub \in {Absent, key[p]}
    /\ at[p] \in {"look", "temp", "publish", "serve"} => key[p] = sk /\ sk \in Key
    /\ at[p] \in {"temp", "publish", "serve"} => pub \in {Absent, sk}

KeyInv ==
    /\ TypeOK
    /\ \A p \in Proc : Knows(p)
    /\ \A p, q \in Proc : at[p] = "write" /\ at[q] = "write" => p = q

(* The invariant holds of whatever files were installed.                   *)
LEMMA KeyInitInv == KeyInit => KeyInv
  BY DEF KeyInit, KeyInv, TypeOK, Knows, Places

(* Leaving gen_sk, or being killed, disturbs nothing, except that a file   *)
(* it was about to write stays as it is.                                   *)
LEMMA ExitInv ==
    ASSUME KeyInv, NEW p, Exit(p), UNCHANGED files
    PROVE  KeyInv'
  BY ZenonT(40) DEF KeyInv, TypeOK, Knows, Places, Exit, To, files

(* A process that only goes on, its key and the files being as they were.  *)
LEMMA GoesOn ==
    ASSUME KeyInv, NEW p \in Proc, NEW l \in Places, To(p, l), UNCHANGED <<files, key>>,
           l = "create" => key[p] \in Key /\ pub \in {Absent, key[p]},
           l \in {"look", "temp", "publish", "serve"} => key[p] = sk /\ sk \in Key,
           l \in {"temp", "publish", "serve"} => pub \in {Absent, sk},
           l \notin {"match", "write"}
    PROVE  KeyInv'
  BY DEF KeyInv, TypeOK, Knows, Places, To, files

(* Every step preserves the invariant.                                     *)
LEMMA KeyNextInv == KeyInv /\ [KeyNext]_keyVars => KeyInv'
<1> SUFFICES ASSUME KeyInv, [KeyNext]_keyVars
             PROVE  KeyInv'
  OBVIOUS
<1> USE KeyFilesAssumption
<1>1. ASSUME NEW p \in Proc, Spawn(p)
      PROVE  KeyInv'
  BY <1>1, GoesOn DEF Spawn, Places
<1>2. ASSUME NEW p \in Proc, OpenAbsent(p)
      PROVE  KeyInv'
  BY <1>2 DEF OpenAbsent, KeyInv, TypeOK, Knows, Places, To, Fresh, files
<1>3. ASSUME NEW p \in Proc, OpenMalformed(p)
      PROVE  KeyInv'
  BY <1>3, ExitInv DEF OpenMalformed
<1>4. ASSUME NEW p \in Proc, OpenWhole(p)
      PROVE  KeyInv'
  BY <1>4 DEF OpenWhole, KeyInv, TypeOK, Knows, Places, To, files
<1>5. ASSUME NEW p \in Proc, Match(p)
      PROVE  KeyInv'
  <2>1. CASE pub \in {Absent, key[p]}
    BY <1>5, <2>1, GoesOn, ZenonT(40) DEF Match, Places, KeyInv, Knows
  <2>2. CASE pub \notin {Absent, key[p]}
    BY <1>5, <2>2, ExitInv DEF Match
  <2> QED BY <2>1, <2>2
<1>6. ASSUME NEW p \in Proc, Create(p)
      PROVE  KeyInv'
  <2>1. CASE sk = Absent
    BY <1>6, <2>1 DEF Create, KeyInv, TypeOK, Knows, Places, To, files
  <2>2. CASE sk # Absent
    BY <1>6, <2>2, ExitInv DEF Create, files
  <2> QED BY <2>1, <2>2
<1>7. ASSUME NEW p \in Proc, Write(p)
      PROVE  KeyInv'
  BY <1>7 DEF Write, KeyInv, TypeOK, Knows, Places, To, files
<1>8. ASSUME NEW p \in Proc, Look(p)
      PROVE  KeyInv'
  <2>0. key[p] = sk /\ sk \in Key
    BY <1>8 DEF Look, KeyInv, Knows
  <2>1. CASE pub = Absent
    BY <1>8, <2>0, <2>1, GoesOn DEF Look, Places
  <2>2. CASE pub = key[p]
    BY <1>8, <2>0, <2>2, GoesOn DEF Look, Places
  <2>3. CASE pub \notin {Absent, key[p]}
    BY <1>8, <2>3, ExitInv DEF Look
  <2> QED BY <2>1, <2>2, <2>3
<1>9. ASSUME NEW p \in Proc, Temp(p)
      PROVE  KeyInv'
  <2>0. key[p] = sk /\ sk \in Key /\ pub \in {Absent, sk}
    BY <1>9 DEF Temp, KeyInv, Knows
  <2> QED BY <1>9, <2>0, GoesOn DEF Temp, Places
<1>10. ASSUME NEW p \in Proc, Publish(p)
       PROVE  KeyInv'
  <2>0. key[p] = sk /\ sk \in Key
    BY <1>10 DEF Publish, KeyInv, Knows
  <2>1. CASE pub = Absent
    BY <1>10, <2>0, <2>1 DEF Publish, KeyInv, TypeOK, Knows, Places, To
  <2>2. CASE pub = key[p]
    BY <1>10, <2>0, <2>2, GoesOn DEF Publish, Places, files
  <2>3. CASE pub \notin {Absent, key[p]}
    BY <1>10, <2>3, ExitInv DEF Publish, files
  <2> QED BY <2>1, <2>2, <2>3
<1>11. ASSUME NEW p \in Proc, WriteFails(p)
       PROVE  KeyInv'
  BY <1>11 DEF WriteFails, Exit, KeyInv, TypeOK, Knows, Places, To
<1>12. ASSUME NEW p \in Proc, RemoveFails(p)
       PROVE  KeyInv'
  BY <1>12, ExitInv DEF RemoveFails
<1>13. ASSUME NEW p \in Proc, TempRefused(p)
       PROVE  KeyInv'
  <2>1. CASE made[p]
    BY <1>13, <2>1, ExitInv DEF TempRefused
  <2>2. CASE ~ made[p]
    <3>1. key[p] = sk /\ sk \in Key /\ pub \in {Absent, sk}
      BY <1>13 DEF TempRefused, KeyInv, Knows
    <3> QED BY <1>13, <2>2, <3>1, GoesOn DEF TempRefused, Places
  <2> QED BY <2>1, <2>2
<1>14. ASSUME NEW p \in Proc, Dies(p)
       PROVE  KeyInv'
  BY <1>14, ExitInv DEF Dies
<1>15. CASE UNCHANGED keyVars
  BY <1>15 DEF KeyInv, TypeOK, Knows, keyVars
<1> QED
  BY <1>1, <1>2, <1>3, <1>4, <1>5, <1>6, <1>7, <1>8, <1>9, <1>10, <1>11, <1>12, <1>13,
     <1>14, <1>15 DEF KeyNext, GenSk, KeyFault

(* A pair that has been made and not yet written is nobody else's and in   *)
(* no file; and a private key file was left without contents exactly when  *)
(* there is one that nobody is going to write.                             *)
Making == {"match", "create", "write"}

Unused(p) ==
    at[p] \in Making => /\ key[p] # sk /\ key[p] # pub
                       /\ \A q \in Proc \ {p} : key[q] # key[p]

TornOK ==
    /\ faults \in [left : Nat, torn : BOOLEAN]
    /\ faults.torn => sk = Partial /\ \A p \in Proc : at[p] # "write"
    /\ NotAbandoned

FreshInv == (\A p \in Proc : Unused(p)) /\ TornOK

LEMMA FreshInit == KeyInit => FreshInv
<1> SUFFICES ASSUME KeyInit PROVE FreshInv
  OBVIOUS
<1>1. faults \in [left : Nat, torn : BOOLEAN] /\ ~ faults.torn
  <2>1. faults \in [left : 0..MaxFaults, torn : {FALSE}]
    BY Zenon DEF KeyInit
  <2>2. 0..MaxFaults \subseteq Nat
    BY KeyFilesAssumption
  <2> QED BY <2>1, <2>2, Zenon
<1>2. \A p \in Proc : at[p] \notin Making
  <2>1. (\A p \in Proc : at[p] = "off") \/ \A p \in Proc : at[p] = "serve"
    BY Zenon DEF KeyInit
  <2>2. "off" \notin Making /\ "serve" \notin Making
    BY DEF Making
  <2> QED BY <2>1, <2>2, Zenon
<1>3. sk # Partial
  BY KeyFilesAssumption DEF KeyInit
<1> QED BY <1>1, <1>2, <1>3, Zenon DEF FreshInv, Unused, TornOK, NotAbandoned

(* A fault that is counted.                                                *)
LEMMA Counted ==
    ASSUME TornOK, NEW b \in BOOLEAN, Fault(b) \/ (faults' = [faults EXCEPT !.torn = @ \/ b])
    PROVE  /\ faults' \in [left : Nat, torn : BOOLEAN]
           /\ faults'.torn = (faults.torn \/ b)
<1>1. faults \in [left : Nat, torn : BOOLEAN] /\ faults.torn \in BOOLEAN /\ faults.left \in Nat
  BY DEF TornOK
<1>2. (faults.torn \/ b) \in BOOLEAN
  OBVIOUS
<1>3. CASE Fault(b)
  <2>1. faults.left - 1 \in Nat
    BY <1>1, <1>3 DEF Fault
  <2> QED BY <1>2, <1>3, <2>1, Zenon DEF Fault
<1>4. CASE faults' = [faults EXCEPT !.torn = @ \/ b]
  BY <1>1, <1>2, <1>4, Zenon
<1> QED BY <1>3, <1>4

(* What each step of a process does to the pairs.                          *)
LEMMA UnusedStep ==
    ASSUME KeyInv, FreshInv, NEW p \in Proc, Spawn(p) \/ GenSk(p) \/ KeyFault(p) \/
                (UNCHANGED files /\ Exit(p))
    PROVE  \A q \in Proc : Unused(q)'
<1> USE KeyFilesAssumption DEF KeyInv, FreshInv, TypeOK, Knows, Unused, Making, To, files
<1>1. CASE OpenAbsent(p)
  BY <1>1 DEF OpenAbsent, Fresh
<1>2. CASE OpenWhole(p)
  BY <1>2 DEF OpenWhole
<1>3. CASE Spawn(p) \/ Temp(p)
  BY <1>3 DEF Spawn, Temp
<1>4. ASSUME Exit(p), UNCHANGED pub, sk' \in {sk, Absent} PROVE \A q \in Proc : Unused(q)'
  BY <1>4 DEF Exit
<1>5. CASE Match(p) \/ Create(p)
  BY <1>4, <1>5 DEF Match, Create
<1>6. CASE Write(p)
  BY <1>6 DEF Write
<1>7. CASE Look(p)
  BY <1>4, <1>7 DEF Look
<1>8. CASE Publish(p)
  <2>1. CASE pub = Absent /\ pub' = key[p] /\ To(p, "serve") /\ UNCHANGED <<sk, key>>
    <3>1. key[p] = sk
      BY <1>8 DEF Publish
    <3> QED BY <2>1, <3>1
  <2>2. CASE UNCHANGED pub
    BY <1>4, <1>8, <2>2 DEF Publish
  <2> QED BY <1>8, <2>1, <2>2 DEF Publish
<1>9. CASE TempRefused(p)
  BY <1>4, <1>9 DEF TempRefused
<1>10. CASE OpenMalformed(p) \/ WriteFails(p) \/ RemoveFails(p) \/ Dies(p)
  <2>1. Exit(p) /\ UNCHANGED pub /\ sk' \in {sk, Absent}
    BY <1>10, Zenon DEF OpenMalformed, WriteFails, RemoveFails, Dies
  <2> QED BY <1>4, <2>1
<1>11. CASE UNCHANGED files /\ Exit(p)
  BY <1>4, <1>11
<1> QED BY <1>1, <1>2, <1>3, <1>5, <1>6, <1>7, <1>8, <1>9, <1>10, <1>11, ZenonT(40) DEF GenSk, KeyFault

(* ... and to the record of what was left behind.                          *)
LEMMA TornStep ==
    ASSUME KeyInv, FreshInv, NEW p \in Proc, Spawn(p) \/ GenSk(p) \/ KeyFault(p) \/
                (UNCHANGED files /\ Killed(p))
    PROVE  TornOK'
<1> USE KeyFilesAssumption DEF KeyInv, FreshInv, TypeOK, Knows, TornOK, NotAbandoned, To, files
<1>1. ASSUME at[p] # "write", UNCHANGED <<sk, faults>>, NEW l, l # "write", To(p, l) PROVE TornOK'
  BY <1>1
<1>2. CASE Spawn(p) \/ OpenAbsent(p) \/ OpenMalformed(p) \/ OpenWhole(p) \/ Match(p) \/ Look(p)
           \/ Temp(p) \/ Publish(p)
  BY <1>1, <1>2, ZenonT(40) DEF Spawn, OpenAbsent, OpenMalformed, OpenWhole, Match, Look, Temp, Publish, Exit
<1>3. CASE Create(p)
  BY <1>1, <1>3 DEF Create, Exit
<1>4. CASE Write(p)
  BY <1>4 DEF Write
<1>5. CASE WriteFails(p)
  <2>1. faults'.torn = faults.torn /\ faults' \in [left : Nat, torn : BOOLEAN]
    BY <1>5, Counted, Zenon DEF WriteFails
  <2> QED BY <1>5, <2>1 DEF WriteFails, Exit
<1>6. ASSUME at[p] = "write", faults'.torn, faults' \in [left : Nat, torn : BOOLEAN],
             UNCHANGED sk, Exit(p)
      PROVE  TornOK'
  BY <1>6 DEF Exit
<1>7. ASSUME at[p] # "write", faults'.torn = faults.torn, faults' \in [left : Nat, torn : BOOLEAN],
             UNCHANGED sk, NEW l, l # "write", To(p, l)
      PROVE  TornOK'
  BY <1>7
<1>8. CASE RemoveFails(p)
  <2>1. faults'.torn /\ faults' \in [left : Nat, torn : BOOLEAN]
    BY <1>8, Counted, Zenon DEF RemoveFails
  <2> QED BY <1>6, <1>8, <2>1 DEF RemoveFails
<1>9. CASE TempRefused(p)
  <2>1. faults'.torn = faults.torn /\ faults' \in [left : Nat, torn : BOOLEAN]
    BY <1>9, Counted, Zenon DEF TempRefused
  <2> QED BY <1>7, <1>9, <2>1 DEF TempRefused, Exit
<1>10. CASE Dies(p) \/ (UNCHANGED files /\ Killed(p))
  <2>1. /\ faults'.torn = (faults.torn \/ at[p] = "write")
        /\ faults' \in [left : Nat, torn : BOOLEAN]
    <3>1. (at[p] = "write") \in BOOLEAN
      OBVIOUS
    <3>2. Fault(at[p] = "write") \/ faults' = [faults EXCEPT !.torn = @ \/ at[p] = "write"]
      BY <1>10, Zenon DEF Dies, Killed
    <3> QED BY <3>1, <3>2, Counted, Zenon
  <2>2. Exit(p) /\ UNCHANGED sk
    BY <1>10, Zenon DEF Dies, Killed
  <2>3. CASE at[p] = "write"
    <3>1. faults'.torn
      BY <2>1, <2>3, Zenon
    <3> QED BY <1>6, <2>1, <2>2, <2>3, <3>1
  <2>4. CASE at[p] # "write"
    <3>1. faults'.torn = faults.torn
      BY <1>1, <2>1, <2>4, Zenon
    <3> QED BY <1>7, <2>1, <2>2, <2>4, <3>1 DEF Exit
  <2> QED BY <2>3, <2>4
<1> QED BY <1>2, <1>3, <1>4, <1>5, <1>8, <1>9, <1>10, ZenonT(40) DEF GenSk, KeyFault

(* Only a process that is about to write changes the private key file once *)
(* it exists, and it does not exist for anyone else then.                  *)
LEMMA KeptStep ==
    ASSUME KeyInv, [KeyNext]_keyVars
    PROVE  \/ UNCHANGED keyVars
           \/ /\ sk \in Key => sk' = sk
              /\ pub \in Key => pub' = pub
              /\ sk' \in Key /\ pub' \in Key \ {sk'} => UNCHANGED files
<1> USE KeyFilesAssumption
<1> DEFINE Kept == /\ sk \in Key => sk' = sk
                   /\ pub \in Key => pub' = pub
                   /\ sk' \in Key /\ pub' \in Key \ {sk'} => UNCHANGED files
<1>1. ASSUME NEW p \in Proc, Create(p)
      PROVE  Kept
  BY <1>1 DEF Create, files
<1>2. ASSUME NEW p \in Proc, Write(p)
      PROVE  Kept
  BY <1>2 DEF Write, KeyInv, TypeOK, Knows, files
<1>3. ASSUME NEW p \in Proc, Publish(p)
      PROVE  Kept
  BY <1>3 DEF Publish, KeyInv, TypeOK, Knows, files
<1>4. ASSUME NEW p \in Proc, WriteFails(p)
      PROVE  Kept
  BY <1>4 DEF WriteFails, KeyInv, TypeOK, Knows, files
<1>5. ASSUME NEW p \in Proc,
             \/ Spawn(p) \/ OpenAbsent(p) \/ OpenMalformed(p) \/ OpenWhole(p) \/ Match(p)
             \/ Look(p) \/ Temp(p) \/ RemoveFails(p) \/ TempRefused(p) \/ Dies(p)
      PROVE  Kept
  BY <1>5, Zenon DEF Spawn, OpenAbsent, OpenMalformed, OpenWhole, Match, Look, Temp, RemoveFails,
              TempRefused, Dies, files
<1> QED
  BY <1>1, <1>2, <1>3, <1>4, <1>5 DEF KeyNext, GenSk, KeyFault

(* Files that fit are made to fit no longer by no step.                    *)
LEMMA FitStep ==
    ASSUME KeyInv, FreshInv, NEW p \in Proc, Spawn(p) \/ GenSk(p) \/ KeyFault(p),
           pub' \in Key \ {sk'}, sk' # Partial
    PROVE  pub \in Key \ {sk} /\ sk # Partial
<1> USE KeyFilesAssumption DEF KeyInv, FreshInv, TypeOK, Knows, Unused, Making, files
<1>1. CASE UNCHANGED files
  BY <1>1
<1>2. CASE Create(p) /\ ~ UNCHANGED files
  BY <1>2 DEF Create
<1>3. CASE Write(p)
  BY <1>3 DEF Write
<1>4. CASE WriteFails(p)
  BY <1>4 DEF WriteFails
<1>5. CASE Publish(p) /\ ~ UNCHANGED files
  BY <1>5 DEF Publish
<1>6. CASE \/ Spawn(p) \/ OpenAbsent(p) \/ OpenMalformed(p) \/ OpenWhole(p) \/ Match(p)
           \/ Look(p) \/ Temp(p) \/ RemoveFails(p) \/ TempRefused(p) \/ Dies(p)
  <2>1. UNCHANGED files
    BY <1>6, Zenon DEF Spawn, OpenAbsent, OpenMalformed, OpenWhole, Match, Look, Temp,
                RemoveFails, TempRefused, Dies
  <2> QED BY <1>1, <2>1
<1> QED BY <1>1, <1>2, <1>3, <1>4, <1>5, <1>6, ZenonT(40) DEF GenSk, KeyFault

(* So they are spoilt only when a file is left without contents.           *)
LEMMA SpoiltStep ==
    ASSUME KeyInv, FreshInv, TornOK', Spoilt', ~ Spoilt,
           \/ \E p \in Proc : Spawn(p) \/ GenSk(p) \/ KeyFault(p)
           \/ UNCHANGED files
    PROVE  faults'.torn /\ ~ faults.torn
<1>1. ~ faults.torn
  BY DEF FreshInv, TornOK, Spoilt
<1>2. ASSUME ~ faults'.torn PROVE FALSE
  <2>1. pub' \in Key \ {sk'} /\ sk' # Partial
    BY <1>2 DEF Spoilt
  <2>2. ~ (pub \in Key \ {sk} /\ sk # Partial)
    BY Zenon DEF Spoilt
  <2> QED BY <2>1, <2>2, FitStep DEF files
<1> QED BY <1>1, <1>2

(* The scripts and the presenter deal with the two services.               *)
Task == [op : {"stop", "run"}, p : Proc]
ScriptsOK == scripts \in Seq(Seq(Task)) /\ p_todo \in Seq(Proc)

LEMMA ScriptsInit == Init => ScriptsOK
<1>1. Init => scripts = <<>> /\ p_todo = <<>>
  BY Zenon DEF Init
<1>2. <<>> \in Seq(Seq(Task)) /\ <<>> \in Seq(Proc)
  OBVIOUS
<1> QED BY <1>1, <1>2, Zenon DEF ScriptsOK

LEMMA ScriptsStep == ScriptsOK /\ [Next]_vars => ScriptsOK'
<1> SUFFICES ASSUME ScriptsOK, [Next]_vars PROVE ScriptsOK'
  OBVIOUS
<1>1. StopScript \in Seq(Task) /\ StartScript \in Seq(Task) /\ <<Hbbs, Hbbr>> \in Seq(Proc)
  BY DesktopAssumption DEF StopScript, StartScript, Task
<1>2. CASE PresenterEvent
  <2>1. /\ \/ UNCHANGED scripts
           \/ \E x \in {StopScript, StartScript} : scripts' = Append(scripts, x)
        /\ p_todo' \in {p_todo, <<Hbbs, Hbbr>>}
    BY <1>2, Zenon DEF PresenterEvent
  <2>2. ASSUME NEW T, NEW x \in T, NEW t \in Seq(T) PROVE Append(t, x) \in Seq(T)
    OBVIOUS
  <2>3. scripts' \in Seq(Seq(Task))
    BY <1>1, <2>1, <2>2, Zenon DEF ScriptsOK
  <2>4. p_todo' \in Seq(Proc)
    BY <1>1, <2>1, Zenon DEF ScriptsOK
  <2> QED BY <2>3, <2>4 DEF ScriptsOK
<1>3. CASE PresenterRestarts
  BY <1>3 DEF PresenterRestarts, ScriptsOK
<1>4. ASSUME NEW i \in DOMAIN scripts, ScriptStep(i) PROVE ScriptsOK'
  <2>1. scripts[i] \in Seq(Task) /\ scripts[i] # <<>> /\ p_todo' = p_todo
    BY <1>4 DEF ScriptsOK, ScriptStep, presenter
  <2>2. Tail(scripts[i]) \in Seq(Task)
    BY <2>1
  <2> QED BY <1>4, <2>1, <2>2 DEF ScriptsOK, ScriptStep
<1>5. CASE \/ Keys \/ PresenterSend \/ PresenterRests \/ PresenterChecks
           \/ ViewEvent \/ IterationEnds \/ PageSaves \/ PageInit \/ ViewSend
           \/ \E a \in File \union {"start", "stop", "restart", "exit"} : Click(a)
           \/ \E f \in File : FileChanges(f)
           \/ WatcherSend \/ WatchFails \/ Watch \/ PageReads \/ PageShows \/ PageFails
           \/ UNCHANGED vars
  <2>1. UNCHANGED <<scripts, p_todo>>
    BY <1>5, Zenon DEF Keys, PresenterSend, PresenterRests, PresenterChecks, ViewEvent,
                IterationEnds, PageSaves, PageInit, ViewSend, Click, FileChanges, WatcherSend, WatchFails,
                Watch, PageReads, PageShows, PageFails, presenter, uiVars, vars
  <2> QED BY <2>1 DEF ScriptsOK
<1> QED BY <1>2, <1>3, <1>4, <1>5, Zenon DEF Next

(* A step of the UI, its scripts or its page: it ends a process or leaves  *)
(* the processes and the files alone.                                      *)
LEMMA DesktopStep ==
    ASSUME ScriptsOK, [Next]_vars
    PROVE  \/ [KeyNext]_keyVars
           \/ UNCHANGED files /\ \E p \in Proc : Killed(p)
           \/ UNCHANGED <<files, at, key, faults>>
<1>1. ASSUME NEW i \in DOMAIN scripts, ScriptStep(i)
      PROVE  UNCHANGED files /\ ((\E p \in Proc : Killed(p)) \/ UNCHANGED <<files, at, key, faults>>)
  <2>1. Head(scripts[i]) \in Task
    BY <1>1 DEF ScriptsOK, ScriptStep
  <2>2. Head(scripts[i]).p \in Proc
    BY <2>1 DEF Task
  <2> QED BY <1>1, <2>2, Zenon DEF ScriptStep, files
<1>2. CASE PresenterRestarts
  <2>1. Head(p_todo) \in Proc
    BY <1>2 DEF ScriptsOK, PresenterRestarts
  <2> QED BY <1>2, <2>1, Zenon DEF PresenterRestarts, files
<1>3. CASE \/ PresenterEvent \/ PresenterSend \/ PresenterRests \/ PresenterChecks
           \/ ViewEvent \/ IterationEnds \/ PageSaves \/ PageInit \/ ViewSend
           \/ \E a \in File \union {"start", "stop", "restart", "exit"} : Click(a)
           \/ \E f \in File : FileChanges(f)
           \/ WatcherSend \/ WatchFails \/ Watch \/ PageReads \/ PageShows \/ PageFails
  BY <1>3, ZenonT(40) DEF PresenterEvent, PresenterSend, PresenterRests, PresenterChecks, ViewEvent,
              IterationEnds, PageSaves, PageInit, ViewSend, Click, FileChanges, WatcherSend, WatchFails,
              Watch, PageReads, PageShows, PageFails, keyVars, files
<1>4. CASE UNCHANGED vars
  BY <1>4 DEF vars, keyVars, files
<1> QED
  BY <1>1, <1>2, <1>3, <1>4, Zenon DEF Next, Keys

-----------------------------------------------------------------------------
(* The invariant, in every state of every run of the processes.            *)
AllKeyInv == KeyInv /\ FreshInv /\ ScriptsOK

THEOREM KeyInvariant == Spec => []AllKeyInv
<1>1. Init => AllKeyInv
  BY KeyInitInv, FreshInit, ScriptsInit DEF Init, AllKeyInv
<1>2. ASSUME AllKeyInv, [Next]_vars
      PROVE  AllKeyInv'
  <2>0. KeyInv /\ FreshInv /\ ScriptsOK /\ ScriptsOK'
    BY <1>2, ScriptsStep DEF AllKeyInv
  <2>1. CASE UNCHANGED <<files, at, key, faults>>
    <3>1. KeyInv'
      BY <2>0, <2>1 DEF files, KeyInv, TypeOK, Knows
    <3>2. FreshInv'
      BY <2>0, <2>1, Zenon DEF files, FreshInv, Unused, TornOK, NotAbandoned
    <3> QED BY <2>0, <3>1, <3>2 DEF AllKeyInv
  <2>2. CASE KeyNext
    BY <2>0, <2>2, KeyNextInv, UnusedStep, TornStep, Zenon DEF AllKeyInv, FreshInv, KeyNext
  <2>3. CASE UNCHANGED files /\ \E p \in Proc : Killed(p)
    <3>1. PICK p \in Proc : Killed(p)
      BY <2>3
    <3>2. KeyInv'
      BY <2>0, <2>3, <3>1, ExitInv DEF Killed
    <3> QED BY <2>0, <2>3, <3>1, <3>2, UnusedStep, TornStep, Zenon DEF AllKeyInv, FreshInv, Killed
  <2> QED BY <1>2, <2>0, <2>1, <2>2, <2>3, DesktopStep, Zenon DEF keyVars, files
<1> QED BY <1>1, <1>2, PTL DEF Spec

(* Processes that serve agree on the key of the private key file, which the*)
(* public key file belongs to if it is there; and a private key file that  *)
(* is without contents is about to be written, unless its process died.    *)
THEOREM KeysSoundHolds == Spec => []KeysSound
<1>1. AllKeyInv => KeysSound
  BY DEF AllKeyInv, KeyInv, Knows, FreshInv, TornOK, KeysSound, KeysAgree
<1> QED BY <1>1, KeyInvariant, PTL

(* gen_sk never overwrites or removes a key that was written, does not put *)
(* a private key beside a public key of another pair, and spoils no files  *)
(* however many processes make a pair at once.                             *)
THEOREM KeyKeptHolds == Spec => KeyKept
<1>1. ASSUME AllKeyInv, AllKeyInv', [Next]_vars
      PROVE  [/\ sk \in Key => sk' = sk
              /\ pub \in Key => pub' = pub
              /\ sk' \in Key /\ pub' \in Key \ {sk'} => UNCHANGED files
              /\ Spoilt' /\ ~ Spoilt => faults'.torn /\ ~ faults.torn]_keyVars
  <2>0. KeyInv /\ FreshInv /\ ScriptsOK /\ TornOK'
    BY <1>1 DEF AllKeyInv, FreshInv
  <2>1. CASE UNCHANGED keyVars
    BY <2>1
  <2>2. CASE ~ UNCHANGED keyVars
    <3>1. KeyNext \/ UNCHANGED files
      BY <1>1, <2>0, <2>2, DesktopStep DEF files
    <3>2. /\ sk \in Key => sk' = sk
          /\ pub \in Key => pub' = pub
          /\ sk' \in Key /\ pub' \in Key \ {sk'} => UNCHANGED files
      BY <2>0, <2>2, <3>1, KeptStep DEF files
    <3>3. Spoilt' /\ ~ Spoilt => faults'.torn /\ ~ faults.torn
      BY <2>0, <3>1, SpoiltStep DEF KeyNext
    <3> QED BY <3>2, <3>3
  <2> QED BY <2>1, <2>2
<1> QED BY <1>1, KeyInvariant, PTL DEF Spec, KeyKept

-----------------------------------------------------------------------------
(* The window.  What a queue of events still holds when one is added.      *)
LEMMA NoneAppend ==
    ASSUME NEW S, NEW s \in Seq(S), NEW e \in S, NEW type
    PROVE  NoneOf(Append(s, e), type) <=> NoneOf(s, type) /\ e.type # type
<1> DEFINE t == Append(s, e)
<1>1. Len(t) = Len(s) + 1 /\ Len(s) \in Nat /\ t[Len(s) + 1] = e
  OBVIOUS
<1>2. \A i \in 1..Len(s) : t[i] = s[i]
  OBVIOUS
<1> HIDE DEF t
<1>3. NoneOf(t, type) <=> NoneOf(s, type) /\ e.type # type
  BY <1>1, <1>2 DEF NoneOf
<1> QED BY <1>3 DEF t

LEMMA LastAppend ==
    ASSUME NEW S, NEW s \in Seq(S), NEW e \in S, NEW d
    PROVE  /\ LastIs(Append(s, e), e)
           /\ LastIs(s, d) /\ e.type # d.type => LastIs(Append(s, e), d)
<1> DEFINE t == Append(s, e)
<1>1. Len(t) = Len(s) + 1 /\ Len(s) \in Nat /\ t[Len(s) + 1] = e
  OBVIOUS
<1>2. \A i \in 1..Len(s) : t[i] = s[i]
  OBVIOUS
<1> HIDE DEF t
<1>3. LastIs(t, e)
  BY <1>1 DEF LastIs
<1>4. ASSUME LastIs(s, d), e.type # d.type PROVE LastIs(t, d)
  <2>1. PICK i \in 1..Len(s) : s[i] = d /\ \A j \in (i + 1)..Len(s) : s[j].type # d.type
    BY <1>4 DEF LastIs
  <2>2. i \in 1..Len(t) /\ t[i] = d
    BY <1>1, <1>2, <2>1
  <2>3. ASSUME NEW j \in (i + 1)..Len(t) PROVE t[j].type # d.type
    BY <1>1, <1>2, <1>4, <2>1
  <2> QED BY <2>2, <2>3 DEF LastIs
<1> QED BY <1>3, <1>4 DEF t

LEMMA HasAppend ==
    ASSUME NEW S, NEW s \in Seq(S), NEW e \in S, NEW X
    PROVE  Has(Append(s, e), X) <=> Has(s, X) \/ e \in X
<1> DEFINE t == Append(s, e)
<1>1. Len(t) = Len(s) + 1 /\ Len(s) \in Nat /\ t[Len(s) + 1] = e
  OBVIOUS
<1>2. \A i \in 1..Len(s) : t[i] = s[i]
  OBVIOUS
<1> HIDE DEF t
<1>3. Has(t, X) <=> Has(s, X) \/ e \in X
  BY <1>1, <1>2 DEF Has
<1> QED BY <1>3 DEF t

(* And when the first one is read.                                         *)
LEMMA QueueTail ==
    ASSUME NEW S, NEW s \in Seq(S), s # <<>>
    PROVE  /\ \A X : Has(s, X) => Has(Tail(s), X) \/ Head(s) \in X
           /\ \A type : NoneOf(s, type) => NoneOf(Tail(s), type)
           /\ \A type : NoneOf(Tail(s), type) /\ Head(s).type # type => NoneOf(s, type)
           /\ \A d : LastIs(s, d) => \/ LastIs(Tail(s), d)
                                     \/ Head(s) = d /\ NoneOf(Tail(s), d.type)
<1> DEFINE t == Tail(s)
<1>1. Len(s) \in Nat \ {0} /\ Len(t) = Len(s) - 1 /\ Head(s) = s[1]
  OBVIOUS
<1>2. \A i \in 1..Len(t) : t[i] = s[i + 1]
  OBVIOUS
<1> HIDE DEF t
<1>3. ASSUME NEW type, NoneOf(s, type) PROVE NoneOf(t, type)
  BY <1>1, <1>2, <1>3 DEF NoneOf
<1>4. ASSUME NEW type, NoneOf(t, type), Head(s).type # type PROVE NoneOf(s, type)
  <2>1. ASSUME NEW i \in 1..Len(s), i # 1 PROVE s[i].type # type
    <3>1. i - 1 \in 1..Len(t) /\ (i - 1) + 1 = i
      BY <1>1, <2>1
    <3> QED BY <1>2, <1>4, <3>1, Zenon DEF NoneOf
  <2> QED BY <1>1, <1>4, <2>1 DEF NoneOf
<1>5. ASSUME NEW d, LastIs(s, d)
      PROVE  LastIs(t, d) \/ (Head(s) = d /\ NoneOf(t, d.type))
  <2>1. PICK i \in 1..Len(s) : s[i] = d /\ \A j \in (i + 1)..Len(s) : s[j].type # d.type
    BY <1>5 DEF LastIs
  <2>2. \A j \in i..Len(t) : t[j].type # d.type
    BY <1>1, <1>2, <2>1
  <2>3. CASE i = 1
    BY <1>1, <2>1, <2>2, <2>3 DEF NoneOf
  <2>4. CASE i # 1
    <3>1. i - 1 \in 1..Len(t) /\ (i - 1) + 1 = i
      BY <1>1, <2>4
    <3>2. t[i - 1] = d
      BY <1>2, <2>1, <3>1
    <3> QED BY <2>2, <3>1, <3>2 DEF LastIs
  <2> QED BY <2>3, <2>4
<1>6. ASSUME NEW X, Has(s, X) PROVE Has(t, X) \/ Head(s) \in X
  <2>1. PICK i \in 1..Len(s) : s[i] \in X
    BY <1>6 DEF Has
  <2>2. CASE i # 1
    <3>1. i - 1 \in 1..Len(t) /\ (i - 1) + 1 = i
      BY <1>1, <2>2
    <3> QED BY <1>2, <2>1, <3>1, Zenon DEF Has
  <2> QED BY <1>1, <2>1, <2>2
<1> QED BY <1>3, <1>4, <1>5, <1>6 DEF t

PageOf(f, u, c, r, s, m) ==
    [file |-> f, up |-> u, changed |-> c, reading |-> r, shows |-> s, missed |-> m]

(* The page, and that what it reads is of the log it is to show, unless it *)
(* was told of another since.                                              *)
PageType ==
    /\ page = PageOf(page.file, page.up, page.changed, page.reading, page.shows, page.missed)
    /\ page.reading # None /\ ~ page.changed => page.reading[1] = page.file

UiType ==
    /\ to_view \in Seq(Event) /\ p_out \in Event \union {None}
    /\ to_presenter \in Seq(Event) /\ v_out \in Event \union {None}
    /\ w_out \in Seq(File) /\ file \in File
    /\ service_state \in {"Unknown", "Started", "Stopped"}
    /\ version \in [File -> Nat]
    /\ PageType

(* The last log the page was told of, or will be, is the chosen one.       *)
FileFollows == NoneOf(OnItsWay, "file") \/ LastIs(OnItsWay, Update(file))

UiInv == UiType /\ StateFollows /\ FileFollows /\ LogFollows

(* The events that are sent are events, and None is not one of them.       *)
LEMMA Events ==
    /\ \A x \in {"Unknown", "Started", "Stopped"} : Show(x) \in Event
    /\ \A f \in File : Update(f) \in Event
    /\ \A a \in File \union {"start", "stop", "restart", "exit"} : Do(a) \in Event
    /\ \A f \in File : Change(f) \in Event
    /\ AppExit \in Event /\ BrowserInit \in Event /\ ViewInit \in Event
    /\ None \notin Event
<1>1. None \notin Event
  BY DesktopAssumption
<1>2. \A x \in {"Unknown", "Started", "Stopped"} : Show(x) \in Event
  BY DEF Show, Event
<1>3. \A f \in File : Update(f) \in Event
  BY DEF Update, Event
<1>4. AppExit \in Event /\ BrowserInit \in Event /\ ViewInit \in Event
  BY DEF AppExit, BrowserInit, ViewInit, Event
<1>5. \A a \in File \union {"start", "stop", "restart", "exit"} : Do(a) \in Event
  BY DEF Do, Event
<1>6. \A f \in File : Change(f) \in Event
  BY DEF Change, Event
<1> QED BY <1>1, <1>2, <1>3, <1>4, <1>5, <1>6

LEMMA StatusType == Status \subseteq {"Started", "Stopped"}
<1>1. CASE Hbbs \notin wanted
  BY <1>1 DEF Status
<1>2. CASE Hbbs \in wanted /\ at[Hbbs] = "off"
  BY <1>2 DEF Status
<1>3. CASE Hbbs \in wanted /\ at[Hbbs] # "off"
  BY <1>3 DEF Status
<1> QED BY <1>1, <1>2, <1>3

LEMMA WayType ==
    ASSUME UiType
    PROVE  OnItsWay \in Seq(Event)
<1>1. CASE p_out = None
  BY <1>1 DEF UiType, OnItsWay
<1>2. CASE p_out # None
  <2>1. p_out \in Event /\ to_view \in Seq(Event)
    BY <1>2 DEF UiType
  <2>2. Append(to_view, p_out) \in Seq(Event)
    BY <2>1
  <2> QED BY <1>2, <2>2 DEF OnItsWay
<1> QED BY <1>1, <1>2

LEMMA UiInitInv ==
    ASSUME Init
    PROVE  UiInv
<1>1. /\ to_presenter = <<ViewInit>> /\ to_view = <<>>
      /\ file = FirstFile /\ service_state = "Unknown"
      /\ p_out = Show("Unknown") /\ v_out = None
      /\ w_out = <<>> /\ version = [f \in File |-> 0]
      /\ page = [file |-> None, up |-> FALSE, changed |-> FALSE,
                 reading |-> None, shows |-> None, missed |-> FALSE]
  BY Zenon DEF Init
<1>2. p_out \in Event /\ ViewInit \in Event /\ p_out # None
  BY <1>1, Events, Zenon
<1>3. to_presenter \in Seq(Event) /\ to_view \in Seq(Event) /\ w_out \in Seq(File)
  BY <1>1, <1>2
<1>4. PageType
  BY <1>1, Zenon DEF PageType, PageOf
<1>5. version \in [File -> Nat]
  BY <1>1
<1>6. UiType
  BY <1>1, <1>2, <1>3, <1>4, <1>5, DesktopAssumption DEF UiType
<1>7. OnItsWay = Append(to_view, Show("Unknown"))
  BY <1>1, <1>2 DEF OnItsWay
<1>8. LastIs(OnItsWay, Show("Unknown"))
  BY <1>1, <1>2, <1>3, <1>7, LastAppend, Zenon
<1>9. NoneOf(to_view, "file")
  BY <1>1 DEF NoneOf
<1>10. NoneOf(OnItsWay, "file")
  <2>1. Show("Unknown").type # "file"
    BY DEF Show
  <2> QED BY <1>1, <1>2, <1>3, <1>7, <1>9, <2>1, NoneAppend, Zenon
<1>11. LogFollows
  BY <1>1 DEF LogFollows
<1> QED BY <1>1, <1>6, <1>8, <1>10, <1>11, Zenon DEF UiInv, StateFollows, FileFollows

-----------------------------------------------------------------------------
(* What each step does to the variables the invariant is about.            *)
LEMMA PresenterEventDoes ==
    ASSUME UiType, PresenterEvent
    PROVE  /\ to_presenter # <<>> /\ to_presenter' = Tail(to_presenter)
           /\ p_out = None /\ p_out' \in {None, AppExit, Update(file')}
           /\ file' \in File
           /\ \/ file' = file /\ Head(to_presenter) \notin {BrowserInit, Change(file)}
              \/ p_out' = Update(file')
           /\ UNCHANGED <<to_view, service_state, shown, v_out, w_out, unseen, version, page>>
<1> DEFINE e == Head(to_presenter)
<1>1. /\ to_presenter # <<>> /\ to_presenter' = Tail(to_presenter) /\ p_out = None
      /\ UNCHANGED <<to_view, service_state, shown, v_out, w_out, unseen, version, page>>
  BY Zenon DEF PresenterEvent, Ready, view, watcher
<1>2. file \in File
  BY DEF UiType
<1> HIDE DEF e
<1>3. CASE e = BrowserInit /\ p_out' = Update(file) /\ file' = file
  BY <1>1, <1>2, <1>3, Zenon DEF e
<1>4. CASE e.type = "change" /\ file' = file /\ p_out' = IF e.arg = file THEN Update(file) ELSE None
  <2>1. CASE e.arg = file
    BY <1>1, <1>2, <1>4, <2>1, Zenon
  <2>2. CASE e.arg # file
    <3>1. e # BrowserInit /\ e # Change(file)
      BY <1>4, <2>2 DEF BrowserInit, Change
    <3> QED BY <1>1, <1>2, <1>4, <2>2, <3>1, Zenon DEF e
  <2> QED BY <2>1, <2>2
<1>5. CASE e.arg \in File /\ file' = e.arg /\ p_out' = Update(e.arg)
  BY <1>1, <1>5, Zenon
<1>6. CASE e \in {Do("start"), Do("stop"), Do("restart"), ViewInit} /\ p_out' = p_out /\ file' = file
  <2>1. e # BrowserInit /\ e # Change(file)
    BY <1>6 DEF BrowserInit, Change, Do, ViewInit
  <2> QED BY <1>1, <1>2, <1>6, <2>1, ZenonT(40) DEF e
<1>7. CASE e = Do("exit") /\ p_out' = AppExit /\ file' = file
  <2>1. e # BrowserInit /\ e # Change(file)
    BY <1>7 DEF BrowserInit, Change, Do
  <2> QED BY <1>1, <1>2, <1>7, <2>1, Zenon DEF e
<1> QED BY <1>3, <1>4, <1>5, <1>6, <1>7, Zenon DEF PresenterEvent, e

LEMMA PresenterChecksDoes ==
    ASSUME UiType, PresenterChecks
    PROVE  /\ p_out = None /\ p_out' \in {None, Show(service_state')}
           /\ service_state' \in {"Started", "Stopped"}
           /\ service_state' = service_state \/ p_out' = Show(service_state')
           /\ UNCHANGED <<to_view, to_presenter, file, shown, v_out, w_out, unseen, version, page>>
<1>1. service_state' \in {"Started", "Stopped"}
  BY StatusType DEF PresenterChecks
<1>2. /\ p_out = None
      /\ p_out' = IF service_state' # service_state THEN Show(service_state') ELSE None
      /\ UNCHANGED <<to_view, to_presenter, file, shown, v_out, w_out, unseen, version, page>>
  BY Zenon DEF PresenterChecks, RoundOver, Ready, channels, view, watcher
<1> QED BY <1>1, <1>2, Zenon

(* The steps that leave the window, the page and the events alone.         *)
Aside ==
    UNCHANGED <<to_presenter, to_view, file, service_state, p_out, v_out, shown, w_out, unseen,
                version, page>>

LEMMA AsideDoes ==
    ASSUME \/ Keys \/ PresenterRestarts \/ PresenterRests
           \/ \E i \in DOMAIN scripts : ScriptStep(i)
           \/ IterationEnds \/ WatchFails \/ Watch \/ UNCHANGED vars
    PROVE  Aside
BY Zenon DEF Keys, PresenterRestarts, PresenterRests, ScriptStep, IterationEnds, WatchFails, Watch, vars,
             uiVars, channels, presenter, view, watcher, Aside

(* A callback of the window, which sends an event when it ends.            *)
LEMMA CallbackDoes ==
    ASSUME \/ \E a \in File \union {"start", "stop", "restart", "exit"} : Click(a)
           \/ PageSaves \/ PageInit
    PROVE  /\ v_out = None /\ v_out' \in Event
           /\ (v_out' = BrowserInit /\ page' = [page EXCEPT !.up = TRUE]) \/ page' = page
           /\ UNCHANGED <<to_presenter, to_view, file, service_state, p_out, shown, w_out, unseen,
                          version>>
<1>1. ASSUME NEW a \in File \union {"start", "stop", "restart", "exit"}, Click(a)
      PROVE  /\ v_out = None /\ v_out' = Do(a) /\ page' = page
             /\ UNCHANGED <<to_presenter, to_view, file, service_state, p_out, shown, w_out, unseen,
                            version>>
  BY <1>1, Zenon DEF Click, channels, presenter, watcher
<1>2. CASE PageSaves
  <2>1. "restart" \in File \union {"start", "stop", "restart", "exit"}
    OBVIOUS
  <2> QED BY <1>2, <2>1, Events, Zenon DEF PageSaves, channels, presenter, watcher
<1>3. CASE PageInit
  BY <1>3, Events, Zenon DEF PageInit, channels, presenter, watcher
<1> QED BY <1>1, <1>2, <1>3, Events, Zenon

(* The record of the page keeps its fields.                                *)
LEMMA PageComesUp ==
    ASSUME PageType, page' = [page EXCEPT !.up = TRUE]
    PROVE  page' = PageOf(page.file, TRUE, page.changed, page.reading, page.shows, page.missed)
<1> DEFINE a == page.file
           b == page.up
           c == page.changed
           d == page.reading
           e == page.shows
           g == page.missed
<1>0. page = PageOf(a, b, c, d, e, g)
  BY DEF PageType
<1> HIDE DEF a, b, c, d, e, g
<1>1. \A u : [page EXCEPT !.up = u] = PageOf(a, u, c, d, e, g)
  BY <1>0 DEF PageOf
<1> QED BY <1>1, Zenon DEF a, b, c, d, e, g

LEMMA PageIsTold ==
    ASSUME PageType, NEW f, page' = [page EXCEPT !.file = f, !.changed = TRUE]
    PROVE  page' = PageOf(f, page.up, TRUE, page.reading, page.shows, page.missed)
<1> DEFINE a == page.file
           b == page.up
           c == page.changed
           d == page.reading
           e == page.shows
           g == page.missed
<1>0. page = PageOf(a, b, c, d, e, g)
  BY DEF PageType
<1> HIDE DEF a, b, c, d, e, g
<1>1. [page EXCEPT !.file = f] = PageOf(f, b, c, d, e, g)
  BY <1>0 DEF PageOf
<1>2. \A u : [PageOf(f, b, c, d, e, g) EXCEPT !.changed = u] = PageOf(f, b, u, d, e, g)
  BY DEF PageOf
<1>3. \A u : [page EXCEPT !.file = f, !.changed = u] = [[page EXCEPT !.file = f] EXCEPT !.changed = u]
  OBVIOUS
<1>4. page' = [PageOf(f, b, c, d, e, g) EXCEPT !.changed = TRUE]
  BY <1>1, <1>3, Zenon
<1> QED BY <1>2, <1>4, Zenon DEF a, b, c, d, e, g

LEMMA PageBegins ==
    ASSUME PageType, NEW r, page' = [page EXCEPT !.changed = FALSE, !.reading = r]
    PROVE  page' = PageOf(page.file, page.up, FALSE, r, page.shows, page.missed)
<1> DEFINE a == page.file
           b == page.up
           c == page.changed
           d == page.reading
           e == page.shows
           g == page.missed
<1>0. page = PageOf(a, b, c, d, e, g)
  BY DEF PageType
<1> HIDE DEF a, b, c, d, e, g
<1>1. \A u : [page EXCEPT !.changed = u] = PageOf(a, b, u, d, e, g)
  BY <1>0 DEF PageOf
<1>2. \A u : [PageOf(a, b, u, d, e, g) EXCEPT !.reading = r] = PageOf(a, b, u, r, e, g)
  BY DEF PageOf
<1>3. \A u : [page EXCEPT !.changed = u, !.reading = r] = [[page EXCEPT !.changed = u] EXCEPT !.reading = r]
  OBVIOUS
<1>4. page' = [PageOf(a, b, FALSE, d, e, g) EXCEPT !.reading = r]
  BY <1>1, <1>3, Zenon
<1> QED BY <1>2, <1>4, Zenon DEF a, b, c, d, e, g

LEMMA PageEnds ==
    ASSUME PageType, NEW m, NEW x, page' = [page EXCEPT !.reading = None, !.missed = m, !.shows = x]
    PROVE  page' = PageOf(page.file, page.up, page.changed, None, x, m)
<1> DEFINE a == page.file
           b == page.up
           c == page.changed
           d == page.reading
           e == page.shows
           g == page.missed
<1>0. page = PageOf(a, b, c, d, e, g)
  BY DEF PageType
<1> HIDE DEF a, b, c, d, e, g
<1>1. [page EXCEPT !.reading = None] = PageOf(a, b, c, None, e, g)
  BY <1>0 DEF PageOf
<1>2. [PageOf(a, b, c, None, e, g) EXCEPT !.missed = m] = PageOf(a, b, c, None, e, m)
  BY DEF PageOf
<1>3. [PageOf(a, b, c, None, e, m) EXCEPT !.shows = x] = PageOf(a, b, c, None, x, m)
  BY DEF PageOf
<1>4. [page EXCEPT !.reading = None, !.missed = m, !.shows = x] =
        [[[page EXCEPT !.reading = None] EXCEPT !.missed = m] EXCEPT !.shows = x]
  OBVIOUS
<1>5. page' = [[PageOf(a, b, c, None, e, g) EXCEPT !.missed = m] EXCEPT !.shows = x]
  BY <1>1, <1>4, Zenon
<1>6. page' = PageOf(a, b, c, None, x, m)
  BY <1>2, <1>3, <1>5, Zenon
<1> QED BY <1>6, Zenon DEF a, b, c, d, e, g

LEMMA PageGivesUp ==
    ASSUME PageType, NEW m, page' = [page EXCEPT !.reading = None, !.missed = m]
    PROVE  page' = PageOf(page.file, page.up, page.changed, None, page.shows, m)
<1> DEFINE a == page.file
           b == page.up
           c == page.changed
           d == page.reading
           e == page.shows
           g == page.missed
<1>0. page = PageOf(a, b, c, d, e, g)
  BY DEF PageType
<1> HIDE DEF a, b, c, d, e, g
<1>1. [page EXCEPT !.reading = None] = PageOf(a, b, c, None, e, g)
  BY <1>0 DEF PageOf
<1>2. [PageOf(a, b, c, None, e, g) EXCEPT !.missed = m] = PageOf(a, b, c, None, e, m)
  BY DEF PageOf
<1>3. [page EXCEPT !.reading = None, !.missed = m] = [[page EXCEPT !.reading = None] EXCEPT !.missed = m]
  OBVIOUS
<1>4. page' = [PageOf(a, b, c, None, e, g) EXCEPT !.missed = m]
  BY <1>1, <1>3, Zenon
<1> QED BY <1>2, <1>4, Zenon DEF a, b, c, d, e, g

(* The fields of such a record.                                            *)
LEMMA PageFields ==
    ASSUME NEW a, NEW b, NEW c, NEW d, NEW e, NEW g, NEW p, p = PageOf(a, b, c, d, e, g)
    PROVE  p.file = a /\ p.up = b /\ p.changed = c /\ p.reading = d /\ p.shows = e /\ p.missed = g
BY Zenon DEF PageOf

(* What the view's read of an event, and a step of the page, do to it.     *)
LEMMA ViewEventDoes ==
    ASSUME UiType, ViewEvent
    PROVE  /\ to_view # <<>> /\ to_view' = Tail(to_view)
           /\ \/ Head(to_view).type = "state" /\ shown' = Head(to_view).arg /\ page' = page
              \/ Head(to_view).type = "file" /\ shown' = shown /\ AppAction(Head(to_view).arg)
              \/ Head(to_view).type = "exit" /\ shown' = shown /\ page' = page
           /\ UNCHANGED <<to_presenter, file, service_state, p_out, v_out, w_out, unseen, version>>
<1>1. AppExit.type = "exit"
  BY DEF AppExit
<1> QED BY <1>1, Zenon DEF ViewEvent, presenter, watcher

LEMMA PageDoes ==
    ASSUME PageReads \/ PageShows \/ PageFails
    PROVE  UNCHANGED <<to_presenter, to_view, file, service_state, p_out, v_out, shown, w_out, unseen,
                       version>>
BY Zenon DEF PageReads, PageShows, PageFails, channels, presenter, view, watcher

-----------------------------------------------------------------------------
(* Types.                                                                  *)
LEMMA PageTypeStep ==
    ASSUME PageType,
           \/ page' = page \/ page' = [page EXCEPT !.up = TRUE]
           \/ PageReads \/ PageShows \/ PageFails \/ \E f : AppAction(f)
    PROVE  PageType'
<1>1. ASSUME NEW f, NEW u, NEW x, NEW r, NEW s, NEW m, page' = PageOf(f, u, x, r, s, m),
             r # None /\ ~ x => r[1] = f
      PROVE  PageType'
  <2>1. page'.file = f /\ page'.up = u /\ page'.changed = x /\ page'.reading = r
        /\ page'.shows = s /\ page'.missed = m
    BY <1>1, Zenon DEF PageOf
  <2> QED BY <1>1, <2>1, Zenon DEF PageType
<1>2. CASE page' = page
  BY <1>2, Zenon DEF PageType
<1>3. CASE page' = [page EXCEPT !.up = TRUE]
  <2>1. page' = PageOf(page.file, TRUE, page.changed, page.reading, page.shows, page.missed)
    BY <1>3, PageComesUp, Zenon
  <2> QED BY <1>1, <2>1, Zenon DEF PageType
<1>4. CASE PageReads
  <2>1. PICK later \in BOOLEAN :
           page' = [page EXCEPT !.changed = FALSE, !.reading = <<page.file, version[page.file], later>>]
    BY <1>4, Zenon DEF PageReads
  <2> DEFINE r == <<page.file, version[page.file], later>>
  <2>3. r[1] = page.file
    OBVIOUS
  <2> HIDE DEF r
  <2>2. page' = PageOf(page.file, page.up, FALSE, r, page.shows, page.missed)
    BY <2>1, PageBegins, Zenon DEF r
  <2> QED BY <1>1, <2>2, <2>3, Zenon
<1>5. CASE PageShows
  <2>1. PICK m, x : page' = [page EXCEPT !.reading = None, !.missed = m, !.shows = x]
    BY <1>5, Zenon DEF PageShows
  <2>2. page' = PageOf(page.file, page.up, page.changed, None, x, m)
    BY <2>1, PageEnds, Zenon
  <2> QED BY <1>1, <2>2, Zenon
<1>6. ASSUME NEW f, AppAction(f), page' # page PROVE PageType'
  <2>1. page' = [page EXCEPT !.file = f, !.changed = TRUE]
    BY <1>6, Zenon DEF AppAction
  <2>2. page' = PageOf(f, page.up, TRUE, page.reading, page.shows, page.missed)
    BY <2>1, PageIsTold, Zenon
  <2> QED BY <1>1, <2>2, Zenon
<1>7. CASE PageFails
  <2>1. PICK m : page' = [page EXCEPT !.reading = None, !.missed = m]
    BY <1>7, Zenon DEF PageFails
  <2>2. page' = PageOf(page.file, page.up, page.changed, None, page.shows, m)
    BY <2>1, PageGivesUp, Zenon
  <2> QED BY <1>1, <2>2, Zenon
<1> QED BY <1>2, <1>3, <1>4, <1>5, <1>6, <1>7, Zenon

LEMMA UiTypeStep ==
    ASSUME UiType, [Next]_vars
    PROVE  UiType'
<1> USE DEF UiType
<1>1. CASE PresenterEvent
  <2>1. /\ to_presenter # <<>> /\ to_presenter' = Tail(to_presenter)
        /\ p_out' \in {None, AppExit, Update(file')} /\ file' \in File
        /\ UNCHANGED <<to_view, service_state, v_out, w_out, version, page>>
    BY <1>1, PresenterEventDoes, Zenon
  <2>2. p_out' \in Event \union {None}
    BY <2>1, Events, Zenon
  <2> QED BY <2>1, <2>2 DEF PageType
<1>2. CASE PresenterSend
  <2>1. /\ p_out \in Event /\ to_view' = Append(to_view, p_out) /\ p_out' = None
        /\ UNCHANGED <<to_presenter, file, service_state, v_out, w_out, version, page>>
    BY <1>2, Zenon DEF PresenterSend, view, watcher
  <2> QED BY <2>1 DEF PageType
<1>3. CASE PresenterChecks
  BY <1>3, PresenterChecksDoes, Events DEF PageType
<1>4. CASE ViewEvent
  <2>1. PageType'
    BY <1>4, ViewEventDoes, PageTypeStep, Zenon
  <2>2. /\ to_view # <<>> /\ to_view' = Tail(to_view)
        /\ UNCHANGED <<to_presenter, file, service_state, p_out, v_out, w_out, version>>
    BY <1>4, ViewEventDoes, Zenon
  <2> QED BY <2>1, <2>2
<1>5. CASE \/ \E a \in File \union {"start", "stop", "restart", "exit"} : Click(a)
           \/ PageSaves \/ PageInit
  <2>1. PageType'
    BY <1>5, CallbackDoes, PageTypeStep, Zenon
  <2> QED BY <1>5, <2>1, CallbackDoes
<1>6. CASE ViewSend
  <2>1. /\ v_out \in Event /\ to_presenter' = Append(to_presenter, v_out) /\ v_out' = None
        /\ UNCHANGED <<to_view, file, service_state, p_out, w_out, version, page>>
    BY <1>6, Zenon DEF ViewSend, presenter, watcher
  <2> QED BY <2>1 DEF PageType
<1>7. ASSUME NEW f \in File, FileChanges(f) PROVE UiType'
  <2>1. /\ version' = [version EXCEPT ![f] = @ + 1]
        /\ w_out' = Append(w_out, f) \/ w_out' = w_out
        /\ UNCHANGED <<to_presenter, to_view, file, service_state, p_out, v_out, page>>
    BY <1>7, Zenon DEF FileChanges, channels, presenter, view
  <2>2. version' \in [File -> Nat]
    <3>1. version[f] + 1 \in Nat
      OBVIOUS
    <3> QED BY <2>1, <3>1, Zenon
  <2>3. w_out' \in Seq(File)
    <3>1. Append(w_out, f) \in Seq(File)
      OBVIOUS
    <3> QED BY <2>1, <3>1, Zenon
  <2> QED BY <2>1, <2>2, <2>3 DEF PageType
<1>8. CASE WatcherSend
  <2>1. /\ w_out # <<>> /\ w_out' = Tail(w_out)
        /\ to_presenter' = Append(to_presenter, Change(Head(w_out)))
        /\ UNCHANGED <<to_view, file, service_state, p_out, v_out, version, page>>
    BY <1>8, Zenon DEF WatcherSend, presenter, view
  <2>2. Head(w_out) \in File
    BY <2>1
  <2>3. Change(Head(w_out)) \in Event
    BY <2>2, Events, Zenon
  <2> QED BY <2>1, <2>3 DEF PageType
<1>9. CASE PageReads \/ PageShows \/ PageFails
  <2>1. PageType'
    BY <1>9, PageTypeStep, Zenon
  <2> QED BY <1>9, <2>1, PageDoes
<1>10. CASE Aside
  BY <1>10 DEF Aside, PageType
<1> QED BY <1>1, <1>2, <1>3, <1>4, <1>5, <1>6, <1>7, <1>8, <1>9, <1>10, AsideDoes, ZenonT(40) DEF Next

-----------------------------------------------------------------------------
(* What is on its way, when the presenter has begun to send an event or    *)
(* has not, and when the view has read one.                                *)
LEMMA WayAdded ==
    ASSUME UiType, UiType', p_out = None, to_view' = to_view
    PROVE  \/ p_out' = None /\ OnItsWay' = OnItsWay
           \/ p_out' \in Event /\ OnItsWay' = Append(OnItsWay, p_out')
<1>1. OnItsWay = to_view /\ p_out' \in Event \union {None}
  BY Zenon DEF OnItsWay, UiType
<1>2. CASE p_out' = None
  BY <1>1, <1>2, Zenon DEF OnItsWay
<1>3. CASE p_out' # None
  BY <1>1, <1>3, Zenon DEF OnItsWay
<1> QED BY <1>2, <1>3

LEMMA WayRead ==
    ASSUME UiType, p_out' = p_out, to_view # <<>>, to_view' = Tail(to_view)
    PROVE  OnItsWay # <<>> /\ OnItsWay' = Tail(OnItsWay) /\ Head(OnItsWay) = Head(to_view)
<1>1. CASE p_out = None
  BY <1>1 DEF OnItsWay
<1>2. CASE p_out # None
  <2>1. p_out \in Event /\ to_view \in Seq(Event)
    BY <1>2 DEF UiType
  <2>2. /\ Append(to_view, p_out) # <<>>
        /\ Tail(Append(to_view, p_out)) = Append(Tail(to_view), p_out)
        /\ Head(Append(to_view, p_out)) = Head(to_view)
    BY <2>1
  <2> QED BY <1>2, <2>2, Zenon DEF OnItsWay
<1> QED BY <1>1, <1>2

(* The last state and the last log on their way stay the presenter's.      *)
LEMMA FollowsAdded ==
    ASSUME UiType, UiType', StateFollows, FileFollows, p_out = None, UNCHANGED <<to_view, shown>>,
           p_out' \in {None, AppExit, Update(file'), Show(service_state')},
           file' = file \/ p_out' = Update(file'),
           service_state' = service_state \/ p_out' = Show(service_state')
    PROVE  StateFollows' /\ FileFollows' /\ (~ NoneOf(OnItsWay, "file") => ~ NoneOf(OnItsWay, "file")')
<1>0. OnItsWay \in Seq(Event)
  BY WayType
<1>1. CASE p_out' = None /\ OnItsWay' = OnItsWay
  <2>1. Update(file') # None /\ Show(service_state') # None
    BY Events, Zenon DEF UiType
  <2>2. file' = file /\ service_state' = service_state
    BY <1>1, <2>1, Zenon
  <2> QED BY <1>1, <2>2, Zenon DEF StateFollows, FileFollows
<1>2. CASE p_out' \in Event /\ OnItsWay' = Append(OnItsWay, p_out')
  <2>1. \A type : NoneOf(OnItsWay', type) <=> NoneOf(OnItsWay, type) /\ p_out'.type # type
    BY <1>0, <1>2, NoneAppend, Zenon
  <2>2. LastIs(OnItsWay', p_out')
    BY <1>0, <1>2, LastAppend, Zenon
  <2>3. \A d : LastIs(OnItsWay, d) /\ p_out'.type # d.type => LastIs(OnItsWay', d)
    BY <1>0, <1>2, LastAppend, Zenon
  <2>4. CASE p_out' = Show(service_state')
    <3>1. p_out'.type = "state" /\ Update(file).type = "file" /\ p_out' # Update(file')
      BY <2>4 DEF Show, Update
    <3>2. file' = file
      BY <3>1
    <3>3. StateFollows'
      BY <2>2, <2>4, Zenon DEF StateFollows
    <3>4. FileFollows'
      BY <2>1, <2>3, <3>1, <3>2 DEF FileFollows
    <3> QED BY <2>1, <3>3, <3>4, Zenon
  <2>5. CASE p_out' = Update(file')
    <3>1. p_out'.type = "file" /\ Show(service_state).type = "state" /\ p_out' # Show(service_state')
      BY <2>5 DEF Show, Update
    <3>2. service_state' = service_state
      BY <3>1
    <3>3. FileFollows'
      BY <2>2, <2>5, Zenon DEF FileFollows
    <3>4. StateFollows'
      BY <2>1, <2>3, <3>1, <3>2 DEF StateFollows
    <3> QED BY <2>1, <3>3, <3>4, Zenon
  <2>6. CASE p_out' = AppExit
    <3>1. /\ p_out'.type = "exit" /\ p_out' # Show(service_state') /\ p_out' # Update(file')
          /\ Show(service_state).type = "state" /\ Update(file).type = "file"
      BY <2>6 DEF Show, Update, AppExit
    <3>2. service_state' = service_state /\ file' = file
      BY <3>1
    <3>3. FileFollows'
      BY <2>1, <2>3, <3>1, <3>2 DEF FileFollows
    <3>4. StateFollows'
      BY <2>1, <2>3, <3>1, <3>2 DEF StateFollows
    <3> QED BY <2>1, <3>3, <3>4, Zenon
  <2> QED BY <1>2, <2>4, <2>5, <2>6, Events, Zenon
<1> QED BY <1>1, <1>2, WayAdded, Zenon

LEMMA FollowsRead ==
    ASSUME UiType, StateFollows, FileFollows, ViewEvent
    PROVE  /\ StateFollows' /\ FileFollows'
           /\ \/ ~ NoneOf(OnItsWay, "file")'
              \/ IF Head(to_view).type = "file" THEN Head(to_view).arg = file ELSE NoneOf(OnItsWay, "file")
<1> DEFINE e == Head(to_view)
           w == OnItsWay
           t == OnItsWay'
<1>1. /\ UNCHANGED <<file, service_state, p_out>> /\ to_view # <<>> /\ to_view' = Tail(to_view)
      /\ (e.type = "state" /\ shown' = e.arg) \/ (e.type # "state" /\ shown' = shown)
  <2>1. "state" # "file" /\ "state" # "exit"
    OBVIOUS
  <2> QED BY <2>1, ViewEventDoes, Zenon
<1>2. w \in Seq(Event) /\ w # <<>> /\ t = Tail(w) /\ Head(w) = e
  BY <1>1, WayType, WayRead, Zenon
<1> HIDE DEF e, w, t
<1>3. /\ \A type : NoneOf(w, type) => NoneOf(t, type)
      /\ \A type : NoneOf(t, type) /\ e.type # type => NoneOf(w, type)
      /\ \A d : LastIs(w, d) => LastIs(t, d) \/ (e = d /\ NoneOf(t, d.type))
  BY <1>2, QueueTail, Zenon
<1>4. \A d : LastIs(t, d) => ~ NoneOf(t, d.type)
  BY DEF LastIs, NoneOf
<1>5. \A d : LastIs(w, d) => ~ NoneOf(w, d.type)
  BY DEF LastIs, NoneOf
<1>6. /\ Show(service_state).type = "state" /\ Show(service_state).arg = service_state
      /\ Update(file).type = "file" /\ Update(file).arg = file
  BY DEF Show, Update
<1>7. (NoneOf(t, "state") /\ shown' = service_state) \/ LastIs(t, Show(service_state))
  <2>1. CASE NoneOf(w, "state") /\ shown = service_state
    <3>1. e.type # "state"
      BY <1>2, <2>1 DEF NoneOf
    <3> QED BY <1>1, <1>3, <2>1, <3>1, Zenon
  <2>2. CASE LastIs(w, Show(service_state))
    BY <1>1, <1>3, <1>6, <2>2, Zenon
  <2> QED BY <2>1, <2>2, Zenon DEF StateFollows, w
<1>8. NoneOf(t, "file") \/ LastIs(t, Update(file))
  BY <1>3, <1>6, Zenon DEF FileFollows, w
<1>9. \/ ~ NoneOf(t, "file")
      \/ IF e.type = "file" THEN e.arg = file ELSE NoneOf(w, "file")
  <2>1. ASSUME NoneOf(t, "file"), e.type = "file" PROVE e.arg = file
    <3>1. ~ NoneOf(w, "file")
      BY <1>2, <2>1 DEF NoneOf
    <3>2. LastIs(w, Update(file))
      BY <3>1, Zenon DEF FileFollows, w
    <3>3. ~ LastIs(t, Update(file))
      BY <1>4, <1>6, <2>1, Zenon
    <3> QED BY <1>3, <1>6, <3>2, <3>3, Zenon
  <2>2. ASSUME NoneOf(t, "file"), e.type # "file" PROVE NoneOf(w, "file")
    BY <1>3, <2>2, Zenon
  <2> QED BY <2>1, <2>2, Zenon
<1>10. StateFollows'
  BY <1>1, <1>7, Zenon DEF StateFollows, t
<1>11. FileFollows'
  BY <1>1, <1>8, Zenon DEF FileFollows, t
<1> QED BY <1>9, <1>10, <1>11, Zenon DEF e, w, t

-----------------------------------------------------------------------------
(* The page.  A step keeps what it knows when nothing that would tell it   *)
(* more gets lost, or when it is told.                                     *)
LEMMA PageKept ==
    ASSUME LogFollows, UNCHANGED <<file, unseen, page, version>>, Told => Told'
    PROVE  LogFollows'
BY Zenon DEF LogFollows

LEMMA PageTold ==
    ASSUME Told' \/ file' \in unseen' \/ ~ page'.up
    PROVE  LogFollows'
BY Zenon DEF LogFollows

LEMMA PageViewEvent ==
    ASSUME UiInv, ViewEvent
    PROVE  LogFollows'
<1> DEFINE e == Head(to_view)
<1>0. UiType /\ PageType /\ StateFollows /\ FileFollows /\ LogFollows
  BY DEF UiInv, UiType
<1>1. /\ \/ e.type # "file" /\ page' = page
         \/ e.type = "file" /\ AppAction(e.arg)
      /\ UNCHANGED <<to_presenter, file, v_out, w_out, unseen, version>>
  <2>1. "file" # "state" /\ "file" # "exit"
    OBVIOUS
  <2> QED BY <1>0, <2>1, ViewEventDoes, Zenon
<1>2. \/ ~ NoneOf(OnItsWay, "file")'
      \/ IF e.type = "file" THEN e.arg = file ELSE NoneOf(OnItsWay, "file")
  BY <1>0, FollowsRead, Zenon
<1> HIDE DEF e
<1>3. CASE ~ NoneOf(OnItsWay, "file")'
  BY <1>3, PageTold, Zenon DEF Told
<1>4. CASE e.type # "file" /\ page' = page /\ NoneOf(OnItsWay, "file")
  BY <1>0, <1>1, <1>4, PageKept, Zenon DEF Told
<1>5. CASE AppAction(e.arg) /\ e.arg = file
  <2>1. CASE page.up
    <3>1. page' = PageOf(file, page.up, TRUE, page.reading, page.shows, page.missed)
      BY <1>0, <1>5, <2>1, PageIsTold, Zenon DEF AppAction
    <3>2. page'.file = file' /\ page'.changed
      BY <1>1, <3>1, Zenon DEF PageOf
    <3> QED BY <3>2, Zenon DEF LogFollows
  <2>2. CASE ~ page.up
    BY <1>5, <2>2, PageTold, Zenon DEF AppAction
  <2> QED BY <2>1, <2>2
<1> QED BY <1>1, <1>2, <1>3, <1>4, <1>5, Zenon

LEMMA PageItself ==
    ASSUME UiInv, PageReads \/ PageShows \/ PageFails
    PROVE  LogFollows'
<1>0. PageType /\ LogFollows /\ file \in File /\ version \in [File -> Nat]
  BY DEF UiInv, UiType
<1>1. UNCHANGED <<file, unseen, version>> /\ (Told' <=> Told)
  BY PageDoes, Zenon DEF Told, OnItsWay
<1>2. SUFFICES ASSUME ~ Told, file \notin unseen, page'.up PROVE LogFollows'
  BY <1>1, PageTold, Zenon
<1>3. CASE PageReads
  <2>1. PICK later \in BOOLEAN :
           page' = [page EXCEPT !.changed = FALSE, !.reading = <<page.file, version[page.file], later>>]
    BY <1>3, Zenon DEF PageReads
  <2>2. page' = PageOf(page.file, page.up, FALSE, <<page.file, version[page.file], later>>, page.shows,
                       page.missed)
    BY <1>0, <2>1, PageBegins, Zenon
  <2>3. page'.file = page.file /\ page'.up = page.up
        /\ page'.reading = <<page.file, version[page.file], later>>
    BY <2>2, Zenon DEF PageOf
  <2>4. page.file = file
    BY <1>0, <1>2, <2>3, Zenon DEF LogFollows
  <2>5. page'.file = file' /\ page'.reading = <<file', version'[file'], later>>
    BY <1>1, <2>3, <2>4, Zenon
  <2> QED BY <2>1, <2>5, Zenon DEF LogFollows
<1>4. CASE PageShows
  <2>1. PICK v \in page.reading[2]..version[page.reading[1]] :
           page' = [page EXCEPT !.reading = None,
                                !.missed = ~ page.reading[3] /\ ~ page.changed,
                                !.shows = IF page.reading[3] /\ ~ page.changed
                                          THEN <<page.reading[1], v>> ELSE @]
    BY <1>4, Zenon DEF PageShows
  <2> DEFINE m == ~ page.reading[3] /\ ~ page.changed
             x == IF page.reading[3] /\ ~ page.changed THEN <<page.reading[1], v>> ELSE page.shows
  <2>2. page' = [page EXCEPT !.reading = None, !.missed = m, !.shows = x]
    BY <2>1, Zenon
  <2> HIDE DEF m, x
  <2>3. page' = PageOf(page.file, page.up, page.changed, None, x, m)
    BY <1>0, <2>2, PageEnds, Zenon
  <2>4. /\ page'.file = page.file /\ page'.up = page.up /\ page'.changed = page.changed
        /\ page'.reading = None /\ page'.shows = x /\ page'.missed = m
    BY <2>3, Zenon DEF PageOf
  <2>5. /\ page.file = file /\ page.reading # None
        /\ \/ page.changed
           \/ \E later \in BOOLEAN : page.reading = <<file, version[file], later>>
    BY <1>0, <1>2, <1>4, <2>4, Zenon DEF LogFollows, PageShows
  <2>6. CASE page.changed
    BY <1>1, <2>4, <2>5, <2>6, Zenon DEF LogFollows
  <2>7. ASSUME NEW later \in BOOLEAN, page.reading = <<file, version[file], later>>, ~ page.changed
        PROVE  LogFollows'
    <3>1. page.reading[1] = file /\ page.reading[2] = version[file] /\ page.reading[3] = later
      <4>1. \A l, r : r = <<file, version[file], l>> =>
               r[1] = file /\ r[2] = version[file] /\ r[3] = l
        OBVIOUS
      <4> QED BY <2>7, <4>1, Zenon
    <3>2. v = version[file]
      <4>1. version[file] \in Nat /\ v \in version[file]..version[file]
        BY <1>0, <2>1, <3>1
      <4> QED BY <4>1
    <3>3. CASE later
      <4>1. x = <<file, version[file]>>
        BY <2>7, <3>1, <3>2, <3>3, Zenon DEF x
      <4> QED BY <1>1, <2>4, <2>5, <4>1, Zenon DEF LogFollows
    <3>4. CASE ~ later
      <4>1. m
        BY <2>7, <3>1, <3>4, Zenon DEF m
      <4> QED BY <1>1, <2>4, <2>5, <4>1, Zenon DEF LogFollows
    <3> QED BY <3>3, <3>4
  <2> QED BY <2>5, <2>6, <2>7, Zenon
<1>5. CASE PageFails
  <2> DEFINE m == ~ page.changed
  <2>1. page.reading # None /\ page' = [page EXCEPT !.reading = None, !.missed = m]
    BY <1>5, Zenon DEF PageFails
  <2>2. m \/ page.changed
    OBVIOUS
  <2> HIDE DEF m
  <2>3. page' = PageOf(page.file, page.up, page.changed, None, page.shows, m)
    BY <1>0, <2>1, PageGivesUp, Zenon
  <2>4. /\ page'.file = page.file /\ page'.up = page.up /\ page'.changed = page.changed
        /\ page'.reading = None /\ page'.missed = m
    BY <2>3, Zenon DEF PageOf
  <2>5. page.file = file
    BY <1>0, <1>2, <2>4, Zenon DEF LogFollows
  <2> QED BY <1>1, <2>2, <2>4, <2>5, Zenon DEF LogFollows
<1> QED BY <1>3, <1>4, <1>5

LEMMA PagePresenter ==
    ASSUME UiInv, UiType', PresenterEvent \/ PresenterChecks \/ PresenterSend
    PROVE  StateFollows' /\ FileFollows' /\ LogFollows'
<1>0. UiType /\ StateFollows /\ FileFollows /\ LogFollows
  BY DEF UiInv
<1>1. CASE PresenterEvent
  <2>1. /\ to_presenter # <<>> /\ to_presenter' = Tail(to_presenter)
        /\ p_out = None /\ p_out' \in {None, AppExit, Update(file')}
        /\ \/ file' = file /\ Head(to_presenter) \notin {BrowserInit, Change(file)}
           \/ p_out' = Update(file')
        /\ UNCHANGED <<to_view, service_state, shown, v_out, w_out, unseen, version, page>>
    BY <1>0, <1>1, PresenterEventDoes, Zenon
  <2>2. StateFollows' /\ FileFollows' /\ (~ NoneOf(OnItsWay, "file") => ~ NoneOf(OnItsWay, "file")')
    BY <1>0, <2>1, FollowsAdded, Zenon
  <2>3. CASE p_out' = Update(file')
    <3>1. OnItsWay \in Seq(Event) /\ file' \in File
      BY <1>0, WayType, Zenon DEF UiType
    <3>2. p_out' # None /\ p_out' \in Event
      BY <2>3, <3>1, Events, Zenon
    <3>3. OnItsWay' = Append(OnItsWay, p_out')
      BY <1>0, <2>1, <3>2, WayAdded, Zenon
    <3>4. p_out'.type = "file"
      BY <2>3 DEF Update
    <3>5. ~ NoneOf(OnItsWay, "file")'
      BY <3>1, <3>2, <3>3, <3>4, NoneAppend, Zenon
    <3> QED BY <2>2, <3>5, PageTold, Zenon DEF Told
  <2>4. CASE file' = file /\ Head(to_presenter) \notin {BrowserInit, Change(file)}
    <3>1. to_presenter \in Seq(Event)
      BY <1>0 DEF UiType
    <3>2. \A X : Has(to_presenter, X) => Has(to_presenter', X) \/ Head(to_presenter) \in X
      BY <2>1, <3>1, QueueTail, Zenon
    <3>3. Change(file') = Change(file)
      BY <2>4, Zenon
    <3>4. Told => Told'
      BY <2>1, <2>2, <2>4, <3>2, <3>3, Zenon DEF Told
    <3> QED BY <1>0, <2>1, <2>2, <2>4, <3>4, PageKept, Zenon
  <2> QED BY <2>1, <2>3, <2>4, Zenon
<1>2. CASE PresenterChecks
  <2>1. /\ p_out = None /\ p_out' \in {None, Show(service_state')}
        /\ service_state' = service_state \/ p_out' = Show(service_state')
        /\ UNCHANGED <<to_view, to_presenter, file, shown, v_out, w_out, unseen, version, page>>
    BY <1>0, <1>2, PresenterChecksDoes, Zenon
  <2>2. StateFollows' /\ FileFollows' /\ (~ NoneOf(OnItsWay, "file") => ~ NoneOf(OnItsWay, "file")')
    BY <1>0, <2>1, FollowsAdded, Zenon
  <2>3. Told => Told'
    BY <2>1, <2>2, Zenon DEF Told, Change
  <2> QED BY <1>0, <2>1, <2>2, <2>3, PageKept, Zenon
<1>3. CASE PresenterSend
  <2>1. /\ p_out # None /\ to_view' = Append(to_view, p_out) /\ p_out' = None
        /\ UNCHANGED <<to_presenter, file, service_state, v_out, shown, w_out, unseen, version, page>>
    BY <1>3, Zenon DEF PresenterSend, view, watcher
  <2>2. OnItsWay' = OnItsWay
    BY <2>1, Zenon DEF OnItsWay
  <2>3. StateFollows' /\ FileFollows'
    BY <1>0, <2>1, <2>2, Zenon DEF StateFollows, FileFollows
  <2>4. Told => Told'
    BY <2>1, <2>2, Zenon DEF Told, Change
  <2> QED BY <1>0, <2>1, <2>3, <2>4, PageKept, Zenon
<1> QED BY <1>1, <1>2, <1>3

(* The steps of the callbacks, the watcher and the logs.                   *)
LEMMA PageElse ==
    ASSUME UiInv, UiType',
           \/ \E a \in File \union {"start", "stop", "restart", "exit"} : Click(a)
           \/ PageSaves \/ PageInit \/ ViewSend \/ WatcherSend
           \/ \E f \in File : FileChanges(f)
    PROVE  LogFollows'
<1>0. UiType /\ LogFollows /\ to_presenter \in Seq(Event) /\ w_out \in Seq(File) /\ file \in File
  BY DEF UiInv, UiType
<1>1. CASE \/ \E a \in File \union {"start", "stop", "restart", "exit"} : Click(a)
           \/ PageSaves \/ PageInit
  <2>1. /\ v_out = None
        /\ (v_out' = BrowserInit /\ page' = [page EXCEPT !.up = TRUE]) \/ page' = page
        /\ UNCHANGED <<to_presenter, to_view, file, p_out, w_out, unseen, version>>
    BY <1>1, CallbackDoes, Zenon
  <2>2. CASE v_out' = BrowserInit
    BY <2>2, PageTold, Zenon DEF Told
  <2>3. CASE page' = page
    <3>1. v_out # BrowserInit
      BY <2>1, Events, Zenon
    <3>2. Told => Told'
      BY <2>1, <3>1, Zenon DEF Told, OnItsWay, Change
    <3> QED BY <1>0, <2>1, <2>3, <3>2, PageKept, Zenon
  <2> QED BY <2>1, <2>2, <2>3, Zenon
<1>2. CASE ViewSend
  <2>1. /\ v_out # None /\ to_presenter' = Append(to_presenter, v_out)
        /\ UNCHANGED <<to_view, file, p_out, w_out, unseen, version, page>>
    BY <1>2, Zenon DEF ViewSend, presenter, watcher
  <2>2. v_out \in Event
    BY <1>0, <2>1 DEF UiType
  <2>3. \A X : Has(to_presenter, X) \/ v_out \in X => Has(to_presenter', X)
    BY <1>0, <2>1, <2>2, HasAppend, Zenon
  <2>4. BrowserInit \in {BrowserInit, Change(file)} /\ Change(file') = Change(file)
    BY <2>1, Zenon
  <2>5. Told => Told'
    BY <2>1, <2>3, <2>4, Zenon DEF Told, OnItsWay
  <2> QED BY <1>0, <2>1, <2>5, PageKept, Zenon
<1>3. CASE WatcherSend
  <2>1. /\ w_out # <<>> /\ w_out' = Tail(w_out)
        /\ to_presenter' = Append(to_presenter, Change(Head(w_out)))
        /\ UNCHANGED <<to_view, file, p_out, v_out, unseen, version, page>>
    BY <1>3, Zenon DEF WatcherSend, presenter, view
  <2>2. Head(w_out) \in File
    BY <1>0, <2>1
  <2>3. \A X : Has(to_presenter, X) \/ Change(Head(w_out)) \in X => Has(to_presenter', X)
    BY <1>0, <2>1, <2>2, HasAppend, Events, ZenonT(40)
  <2>4. \A X : Has(w_out, X) => Has(w_out', X) \/ Head(w_out) \in X
    BY <1>0, <2>1, QueueTail, Zenon
  <2>5. Change(file) \in {BrowserInit, Change(file)} /\ Change(file') = Change(file)
    BY <2>1, Zenon
  <2>6. Told => Told'
    BY <2>1, <2>3, <2>4, <2>5, Zenon DEF Told, OnItsWay
  <2> QED BY <1>0, <2>1, <2>6, PageKept, Zenon
<1>4. ASSUME NEW f \in File, FileChanges(f) PROVE LogFollows'
  <2>1. /\ version' = [version EXCEPT ![f] = @ + 1]
        /\ \/ w_out' = Append(w_out, f) /\ unseen' = unseen \ {f}
           \/ w_out' = w_out /\ unseen' = unseen \union {f}
        /\ UNCHANGED <<to_presenter, to_view, file, p_out, v_out, page>>
    BY <1>4, Zenon DEF FileChanges, channels, presenter, view
  <2>2. \A X : Has(Append(w_out, f), X) <=> Has(w_out, X) \/ f \in X
    BY <1>0, HasAppend, Zenon
  <2>3. CASE f = file
    <3>1. CASE w_out' = Append(w_out, f)
      <4>1. Has(w_out', {file'})
        BY <2>1, <2>2, <2>3, <3>1, Zenon
      <4> QED BY <4>1, PageTold, Zenon DEF Told
    <3>2. CASE unseen' = unseen \union {f}
      BY <2>1, <2>3, <3>2, PageTold, Zenon
    <3> QED BY <2>1, <3>1, <3>2, Zenon
  <2>4. CASE f # file
    <3>1. version'[file'] = version[file]
      BY <1>0, <2>1, <2>4 DEF UiType
    <3>2. file' \notin unseen' => file \notin unseen
      BY <2>1, <2>4, Zenon
    <3>3. Told => Told'
      BY <2>1, <2>2, Zenon DEF Told, OnItsWay, Change
    <3> QED BY <1>0, <2>1, <3>1, <3>2, <3>3, Zenon DEF LogFollows
  <2> QED BY <2>3, <2>4
<1> QED BY <1>1, <1>2, <1>3, <1>4, Zenon

(* Steps that leave the two channels' ends at the window alone.            *)
LEMMA FollowsKept ==
    ASSUME StateFollows, FileFollows, UNCHANGED <<to_view, p_out, file, service_state, shown>>
    PROVE  StateFollows' /\ FileFollows'
BY Zenon DEF StateFollows, FileFollows, OnItsWay

(* The invariant of the window, for any order of clicks, looks at the      *)
(* service, changes of the logs and failures of the watcher.               *)
THEOREM WindowInvariant == Spec => []UiInv
<1>1. Init => UiInv
  BY UiInitInv
<1>2. ASSUME UiInv, [Next]_vars
      PROVE  UiInv'
  <2>0. UiType /\ StateFollows /\ FileFollows /\ LogFollows /\ UiType'
    BY <1>2, UiTypeStep DEF UiInv
  <2>1. CASE PresenterEvent \/ PresenterChecks \/ PresenterSend
    BY <1>2, <2>0, <2>1, PagePresenter, Zenon DEF UiInv
  <2>2. CASE ViewEvent
    BY <1>2, <2>0, <2>2, FollowsRead, PageViewEvent, Zenon DEF UiInv
  <2>3. CASE PageReads \/ PageShows \/ PageFails
    <3>1. StateFollows' /\ FileFollows'
      BY <2>0, <2>3, PageDoes, FollowsKept, Zenon
    <3> QED BY <1>2, <2>0, <2>3, <3>1, PageItself, Zenon DEF UiInv
  <2>4. CASE \/ \E a \in File \union {"start", "stop", "restart", "exit"} : Click(a)
             \/ PageSaves \/ PageInit \/ ViewSend \/ WatcherSend
             \/ \E f \in File : FileChanges(f)
    <3>1. UNCHANGED <<to_view, p_out, file, service_state, shown>>
      BY <2>4, Zenon DEF Click, PageSaves, PageInit, ViewSend, WatcherSend, FileChanges, channels,
                         presenter, view
    <3>2. StateFollows' /\ FileFollows'
      BY <2>0, <3>1, FollowsKept, Zenon
    <3> QED BY <1>2, <2>0, <2>4, <3>2, PageElse, Zenon DEF UiInv
  <2>5. CASE Aside
    <3>1. StateFollows' /\ FileFollows'
      BY <2>0, <2>5, FollowsKept, Zenon DEF Aside
    <3>2. Told => Told'
      BY <2>5, Zenon DEF Aside, Told, OnItsWay, Change
    <3> QED BY <2>0, <2>5, <3>1, <3>2, PageKept, Zenon DEF UiInv, Aside
  <2> QED BY <1>2, <2>1, <2>2, <2>3, <2>4, <2>5, AsideDoes, ZenonT(40) DEF Next
<1> QED BY <1>1, <1>2, PTL DEF Spec

(* What a step makes appear in the page.                                   *)
LEMMA ShowsStep ==
    ASSUME UiInv, [Next]_vars
    PROVE  ShowsChosen
<1>0. UiType /\ PageType
  BY DEF UiInv, UiType
<1>1. ASSUME NEW f, NEW u, NEW c, NEW r, NEW m, page' = PageOf(f, u, c, r, page.shows, m)
      PROVE  ShowsChosen
  BY <1>1, Zenon DEF PageOf, ShowsChosen
<1>2. CASE PageShows
  <2>1. PICK v : page' = [page EXCEPT !.reading = None,
                                      !.missed = ~ page.reading[3] /\ ~ page.changed,
                                      !.shows = IF page.reading[3] /\ ~ page.changed
                                                THEN <<page.reading[1], v>> ELSE @]
    BY <1>2, Zenon DEF PageShows
  <2> DEFINE m == ~ page.reading[3] /\ ~ page.changed
             x == IF page.reading[3] /\ ~ page.changed THEN <<page.reading[1], v>> ELSE page.shows
  <2>2. page' = [page EXCEPT !.reading = None, !.missed = m, !.shows = x]
    BY <2>1, Zenon
  <2>3. x = page.shows \/ (~ page.changed /\ x = <<page.reading[1], v>>)
    BY Zenon
  <2> HIDE DEF m, x
  <2>4. page' = PageOf(page.file, page.up, page.changed, None, x, m)
    BY <1>0, <2>2, PageEnds, Zenon
  <2>5. page'.file = page.file /\ page'.shows = x
    BY <2>4, Zenon DEF PageOf
  <2>6. \A y, z : y = <<z, v>> => y[1] = z
    OBVIOUS
  <2>7. page.reading # None /\ ~ page.changed => page.reading[1] = page.file
    BY <1>0, Zenon DEF PageType
  <2>8. page.reading # None
    BY <1>2, Zenon DEF PageShows
  <2> QED BY <2>3, <2>5, <2>6, <2>7, <2>8, Zenon DEF ShowsChosen
<1>3. CASE PageReads
  <2>1. PICK r : page' = [page EXCEPT !.changed = FALSE, !.reading = r]
    BY <1>3, Zenon DEF PageReads
  <2>2. page' = PageOf(page.file, page.up, FALSE, r, page.shows, page.missed)
    BY <1>0, <2>1, PageBegins, Zenon
  <2> QED BY <1>1, <2>2, Zenon
<1>4. CASE PageFails
  <2>1. PICK m : page' = [page EXCEPT !.reading = None, !.missed = m]
    BY <1>4, Zenon DEF PageFails
  <2>2. page' = PageOf(page.file, page.up, page.changed, None, page.shows, m)
    BY <1>0, <2>1, PageGivesUp, Zenon
  <2> QED BY <1>1, <2>2, Zenon
<1>5. CASE page' = page
  BY <1>5, Zenon DEF ShowsChosen
<1>6. CASE page' = [page EXCEPT !.up = TRUE]
  <2>1. page' = PageOf(page.file, TRUE, page.changed, page.reading, page.shows, page.missed)
    BY <1>0, <1>6, PageComesUp, Zenon
  <2> QED BY <1>1, <2>1, Zenon
<1>7. ASSUME NEW f, AppAction(f) PROVE ShowsChosen
  <2>1. page' = page \/ page' = [page EXCEPT !.file = f, !.changed = TRUE]
    BY <1>7, Zenon DEF AppAction
  <2>2. ASSUME page' = [page EXCEPT !.file = f, !.changed = TRUE] PROVE ShowsChosen
    <3>1. page' = PageOf(f, page.up, TRUE, page.reading, page.shows, page.missed)
      BY <1>0, <2>2, PageIsTold, Zenon
    <3> QED BY <1>1, <3>1, Zenon
  <2> QED BY <1>5, <2>1, <2>2, Zenon
<1>8. CASE ViewEvent
  BY <1>0, <1>5, <1>7, <1>8, ViewEventDoes, Zenon
<1>9. CASE \/ \E a \in File \union {"start", "stop", "restart", "exit"} : Click(a)
           \/ PageSaves \/ PageInit
  BY <1>5, <1>6, <1>9, CallbackDoes, Zenon
<1>10. CASE \/ PresenterEvent \/ PresenterSend \/ PresenterChecks \/ ViewSend \/ WatcherSend
            \/ \E f \in File : FileChanges(f)
  BY <1>5, <1>10, Zenon DEF PresenterEvent, PresenterSend, PresenterChecks, ViewSend, WatcherSend, FileChanges
<1>11. CASE Aside
  BY <1>5, <1>11, Zenon DEF Aside
<1> QED BY <1>2, <1>3, <1>4, <1>8, <1>9, <1>10, <1>11, AsideDoes, ZenonT(40) DEF Next

(* Nothing is lost between the presenter, the watcher and the window: what *)
(* the window shows is what the presenter saw last and the newest of the   *)
(* chosen log, or an event on its way will make it so, or the page could   *)
(* not read the log; and what it comes to show is of the log it is to show.*)
THEOREM WindowFollowsHolds == Spec => WindowFollows
<1>1. UiInv => StateFollows /\ LogFollows
  BY Zenon DEF UiInv
<1>2. UiInv /\ [Next]_vars => [ShowsChosen]_vars
  BY ShowsStep
<1> QED BY <1>1, <1>2, WindowInvariant, PTL DEF Spec, WindowFollows
=============================================================================

------------------------------ MODULE KeyFiles ------------------------------
(***************************************************************************)
(* gen_sk (src/common.rs): hbbs and, with the key "_", hbbr share the pair *)
(* of files id_ed25519 and id_ed25519.pub in their working directory.      *)
(* Whichever starts first makes the pair, the other loads it; each may be  *)
(* killed, or meet a full or broken disk, at any step, and is started      *)
(* again by its supervisor.                                                *)
(*                                                                         *)
(* A step is one system call on the files.  Opening and reading the private*)
(* key are one: what is read is what the name stood for at one of the two  *)
(* moments.  hbbr sleeps 300 ms before it looks if there is no key; that   *)
(* makes a race rarer and excludes none, and here it is a late step.       *)
(***************************************************************************)
EXTENDS Naturals

CONSTANTS Proc,       \* the processes that use the files
          Key,        \* key pairs
          Absent,     \* no such file, or no key in memory
          Partial,    \* the private key file before its contents are written
          MaxFaults   \* bound: failures of the disk, and kills

ASSUME KeyFilesAssumption ==
    /\ Absent \notin Key /\ Partial \notin Key /\ Absent # Partial
    /\ MaxFaults \in Nat

VARIABLES
    sk,       \* id_ed25519
    pub,      \* id_ed25519.pub
    at,       \* at[p]: where process p is in gen_sk; "off": not running
    key,      \* key[p]: the pair p has made or loaded
    made,     \* made[p]: p made the pair, so that it must publish it too
    wanted,   \* the processes the supervisor keeps running
    faults    \* failures and kills still to come; history: whether one left
              \* a private key file without contents

files == <<sk, pub>>
keyVars == <<sk, pub, at, key, made, wanted, faults>>

(* The files as they are installed: none, a pair, one of the two, or files *)
(* that do not belong together.  The processes are down, or up with a pair.*)
KeyInit ==
    /\ sk \in Key \union {Absent}
    /\ pub \in Key \union {Absent}
    /\ wanted \in {{}, Proc}
    /\ \/ at = [p \in Proc |-> "off"] /\ key = [p \in Proc |-> Absent]
       \/ /\ wanted = Proc /\ sk \in Key /\ pub = sk
          /\ at = [p \in Proc |-> "serve"] /\ key = [p \in Proc |-> sk]
    /\ made = [p \in Proc |-> FALSE]
    /\ faults \in [left : 0..MaxFaults, torn : {FALSE}]

To(p, l) == at' = [at EXCEPT ![p] = l]

(* gen_sk returns an error, or the process is killed: it exits.            *)
Exit(p) ==
    /\ To(p, "off")
    /\ key' = [key EXCEPT ![p] = Absent]
    /\ made' = [made EXCEPT ![p] = FALSE]

(* A failure after which the private key file is as it should be, or not.  *)
Fault(torn) ==
    /\ faults.left > 0
    /\ faults' = [left |-> faults.left - 1, torn |-> faults.torn \/ torn]

(* The process is killed.                                                  *)
Killed(p) == Exit(p) /\ faults' = [faults EXCEPT !.torn = @ \/ at[p] = "write"]

Spawn(p) ==
    /\ p \in wanted /\ at[p] = "off"
    /\ To(p, "open")
    /\ UNCHANGED <<files, key, made, wanted, faults>>

(* A new pair is unlike any that exists.                                   *)
Fresh == {k \in Key : k # sk /\ k # pub /\ \A p \in Proc : k # key[p]}

OpenAbsent(p) ==
    /\ at[p] = "open" /\ sk = Absent
    /\ \E k \in Fresh : key' = [key EXCEPT ![p] = k]
    /\ made' = [made EXCEPT ![p] = TRUE]
    /\ To(p, "match")
    /\ UNCHANGED <<files, wanted, faults>>

OpenMalformed(p) ==
    /\ at[p] = "open" /\ sk = Partial
    /\ Exit(p)
    /\ UNCHANGED <<files, wanted, faults>>

OpenWhole(p) ==
    /\ at[p] = "open" /\ sk \in Key
    /\ key' = [key EXCEPT ![p] = sk]
    /\ To(p, "look")
    /\ UNCHANGED <<files, made, wanted, faults>>

(* Faulty variant: an existing public key is not looked at.                *)
MatchNot(p) ==
    /\ at[p] = "match"
    /\ To(p, "create")
    /\ UNCHANGED <<files, key, made, wanted, faults>>

(* missing_public_key_path, before the private key is created.             *)
Match(p) ==
    /\ at[p] = "match"
    /\ IF pub \in {Absent, key[p]}
       THEN To(p, "create") /\ UNCHANGED <<key, made>>
       ELSE Exit(p)
    /\ UNCHANGED <<files, wanted, faults>>

(* Faulty variant: create(true).truncate(true) in place of create_new.     *)
CreateOver(p) ==
    /\ at[p] = "create"
    /\ sk' = Partial /\ To(p, "write") /\ UNCHANGED <<key, made>>
    /\ UNCHANGED <<pub, wanted, faults>>

(* create_private_key_file: create_new, which an existing file refuses.    *)
Create(p) ==
    /\ at[p] = "create"
    /\ IF sk = Absent
       THEN sk' = Partial /\ To(p, "write") /\ UNCHANGED <<key, made>>
       ELSE Exit(p) /\ UNCHANGED sk
    /\ UNCHANGED <<pub, wanted, faults>>

Write(p) ==
    /\ at[p] = "write"
    /\ sk' = key[p]
    /\ To(p, "look")
    /\ UNCHANGED <<pub, key, made, wanted, faults>>

(* Faulty variant: the file that could not be written is left behind.      *)
WriteFailsLeft(p) ==
    /\ at[p] = "write" /\ Fault(FALSE)
    /\ Exit(p)
    /\ UNCHANGED <<files, wanted>>

(* The write fails: the file is removed, if that does not fail as well.    *)
WriteFails(p) ==
    /\ at[p] = "write" /\ Fault(FALSE)
    /\ sk' = Absent
    /\ Exit(p)
    /\ UNCHANGED <<pub, wanted>>

RemoveFails(p) ==
    /\ at[p] = "write" /\ Fault(TRUE)
    /\ Exit(p)
    /\ UNCHANGED <<files, wanted>>

(* write_public_key: missing_public_key_path once more.                    *)
Look(p) ==
    /\ at[p] = "look"
    /\ \/ pub = Absent /\ To(p, "temp") /\ UNCHANGED <<key, made>>
       \/ pub = key[p] /\ To(p, "serve") /\ UNCHANGED <<key, made>>
       \/ pub \notin {Absent, key[p]} /\ Exit(p)
    /\ UNCHANGED <<files, wanted, faults>>

(* The temporary file is created, written and synced.                      *)
Temp(p) ==
    /\ at[p] = "temp"
    /\ To(p, "publish")
    /\ UNCHANGED <<files, key, made, wanted, faults>>

(* It cannot be created: only a warning, for a pair that was loaded.       *)
TempRefused(p) ==
    /\ at[p] = "temp" /\ Fault(FALSE)
    /\ IF made[p] THEN Exit(p) ELSE To(p, "serve") /\ UNCHANGED <<key, made>>
    /\ UNCHANGED <<files, wanted>>

(* publish_public_key: persist_noclobber, or what is there must match.     *)
Publish(p) ==
    /\ at[p] = "publish"
    /\ \/ pub = Absent /\ pub' = key[p] /\ To(p, "serve") /\ UNCHANGED <<key, made>>
       \/ pub = key[p] /\ To(p, "serve") /\ UNCHANGED <<pub, key, made>>
       \/ pub \notin {Absent, key[p]} /\ Exit(p) /\ UNCHANGED pub
    /\ UNCHANGED <<sk, wanted, faults>>

(* Any other system call fails; or the process is killed.                  *)
Dies(p) ==
    /\ at[p] # "off" /\ Fault(at[p] = "write")
    /\ Exit(p)
    /\ UNCHANGED <<files, wanted>>

GenSk(p) ==
    \/ OpenAbsent(p) \/ OpenMalformed(p) \/ OpenWhole(p) \/ Match(p) \/ Create(p)
    \/ Write(p) \/ Look(p) \/ Temp(p) \/ Publish(p)

KeyFault(p) == WriteFails(p) \/ RemoveFails(p) \/ TempRefused(p) \/ Dies(p)

KeyNext == \E p \in Proc : Spawn(p) \/ GenSk(p) \/ KeyFault(p)

(* The supervisor starts what is down, and a process that can run does.    *)
KeyFairness == \A p \in Proc : WF_keyVars(Spawn(p) \/ GenSk(p))

KeySpec == KeyInit /\ [][KeyNext]_keyVars /\ KeyFairness

-----------------------------------------------------------------------------
(* A process serves with the key in the private key file, beside which is  *)
(* no public key or the one that belongs to it: hbbs and hbbr, however     *)
(* their starts interleave, and whatever was installed, never serve with   *)
(* two keys.                                                               *)
KeysAgree ==
    \A p \in Proc : at[p] = "serve" => key[p] = sk /\ pub \in {Absent, sk}

(* A private key file without contents is about to be written, unless the  *)
(* process that created it was killed before it wrote, or could not write  *)
(* nor remove it: no race of processes leaves one behind.                  *)
NotAbandoned == sk = Partial => faults.torn \/ \E p \in Proc : at[p] = "write"

(* Both: what a process that starts can rely on.                           *)
KeysSound == KeysAgree /\ NotAbandoned

(* A private key file that nobody is going to write, because the process   *)
(* that created it was killed before it wrote or could not remove it; or   *)
(* files that do not belong together: gen_sk refuses them at every start.  *)
Spoilt ==
    \/ sk = Partial /\ faults.torn
    \/ pub \in Key \ {sk} /\ sk # Partial

(* "never overwrites an existing key", "preserves existing files": a key   *)
(* once written is not changed or removed, whatever fails and whoever is   *)
(* killed; no step puts a private key beside a public key of another; and  *)
(* files that can be used are spoilt by nothing but a private key file that*)
(* was left without contents.                                              *)
KeyKept ==
    [][/\ sk \in Key => sk' = sk
       /\ pub \in Key => pub' = pub
       /\ sk' \in Key /\ pub' \in Key \ {sk'} => UNCHANGED files
       /\ Spoilt' /\ ~ Spoilt => faults'.torn /\ ~ faults.torn]_keyVars

(* Every process that is kept running ends up serving, also if both made a *)
(* key at the same time, or a disk was full for a while; unless the files  *)
(* are spoilt.                                                             *)
KeysSettle == \A p \in Proc : <>[](p \in wanted) => <>[](Spoilt \/ at[p] = "serve")
=============================================================================

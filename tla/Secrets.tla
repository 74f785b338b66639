------------------------------- MODULE Secrets -------------------------------
(***************************************************************************)
(* The secrets of an install and who makes them: install.key, which signs  *)
(* container headers, and master.pub, which containers are sealed to       *)
(* (secrets.rs); first-run setup (vault-app main.rs) and master-init       *)
(* (vault-cli main.rs), which hand the recovery code to the user.          *)
(*                                                                         *)
(* Processes share the two files.  std::fs::write first empties a file and *)
(* then fills it; any call may fail and a process may die anywhere.        *)
(* Start-up recovery and the operations are VaultOps, the Explorer entries *)
(* Registration; here an operation is the key it signs with and the master *)
(* key it seals the container to.                                          *)
(***************************************************************************)
EXTENDS FiniteSets

CONSTANTS
    Procs,
    InstallKeys,  \* random install keys; bounds how many are ever drawn
    MasterKeys,   \* random master key pairs; likewise
    NoKey

ASSUME NoKeyAssumption == NoKey \notin InstallKeys \cup MasterKeys

AppCommands == {"lock", "open", "setup"}   \* "delete" goes the way of "open"
CliCommands == {"master-init", "master-init --force", "cli lock", "cli unlock"}
Commands == AppCommands \cup CliCommands

VARIABLES
    install,   \* install.key
    master,    \* master.pub
    pc, cmd,
    hk,        \* per process: hmac_key
    mk,        \* per process: master public key, or none
    drawn,     \* keys random_bytes has given out
    signed,    \* history: install keys that headers were signed with
    sealed,    \* history: master keys that containers were sealed to
    known,     \* history: master keys whose code the user has got
    unprinted, \* history: keys master-init has saved but not printed
    raced      \* history: two processes were making install.key at once

files == <<install, master>>
local == <<pc, cmd, hk, mk>>
codes == <<known, unprinted>>
uses  == <<signed, sealed>>
vars  == <<files, local, drawn, uses, codes, raced>>

-----------------------------------------------------------------------------
(* A protected file: absent, shorter than its tag, tagged but not whole,   *)
(* a raw one of an earlier version, or a tagged and whole one.             *)

Absent == [form |-> "absent", key |-> NoKey]
Short  == [form |-> "short", key |-> NoKey]
Torn   == [form |-> "torn", key |-> NoKey]
Raw(k) == [form |-> "raw", key |-> k]
Protected(k) == [form |-> "protected", key |-> k]

Forms(K) == {Absent, Short, Torn} \cup {Raw(k) : k \in K} \cup {Protected(k) : k \in K}

(* read_protected: the 32 bytes, where there are that many *)
read_protected(f) == IF f.form \in {"raw", "protected"} THEN f.key ELSE NoKey

(* read_protected returns an error: the tag is there, unprotect fails *)
Unreadable(f) == f.form = "torn"

(* an error counts as none *)
load_master_pub == read_protected(master)

(* what write_protected leaves when it fails after File::create *)
Remnants == {Short, Torn}

-----------------------------------------------------------------------------
(* An install that is new, or one of an earlier version with raw files and *)
(* containers made with both keys.                                         *)
Init ==
    /\ \/ /\ install = Absent /\ master = Absent
          /\ drawn = {} /\ signed = {} /\ sealed = {} /\ known = {}
       \/ \E k \in InstallKeys, m \in MasterKeys :
            /\ install = Raw(k) /\ master = Raw(m)
            /\ drawn = {k, m} /\ signed = {k} /\ sealed = {m} /\ known = {m}
    /\ pc = [p \in Procs |-> "off"]
    /\ cmd = [p \in Procs |-> "setup"]
    /\ hk = [p \in Procs |-> NoKey]
    /\ mk = [p \in Procs |-> NoKey]
    /\ unprinted = {} /\ raced = FALSE

Goto(p, l) == pc' = [pc EXCEPT ![p] = l] /\ UNCHANGED cmd

(* the process ends and forgets *)
End(p) ==
    /\ pc' = [pc EXCEPT ![p] = "off"]
    /\ cmd' = [cmd EXCEPT ![p] = "setup"]
    /\ hk' = [hk EXCEPT ![p] = NoKey]
    /\ mk' = [mk EXCEPT ![p] = NoKey]

Start(p) ==
    /\ pc[p] = "off"
    /\ pc' = [pc EXCEPT ![p] = "key"]
    /\ \E c \in Commands : cmd' = [cmd EXCEPT ![p] = c]
    /\ UNCHANGED <<files, hk, mk, drawn, uses, codes, raced>>

-----------------------------------------------------------------------------
(* load_or_create_install_key *)

KeyFound(p) ==
    /\ pc[p] = "key" /\ read_protected(install) # NoKey
    /\ hk' = [hk EXCEPT ![p] = read_protected(install)]
    /\ Goto(p, "ready")
    /\ UNCHANGED <<files, mk, drawn, uses, codes, raced>>

(* no file, or one that is too short: a new key is drawn *)
KeyMissing(p) ==
    /\ pc[p] = "key" /\ read_protected(install) = NoKey /\ ~Unreadable(install)
    /\ \E k \in InstallKeys \ drawn :
         hk' = [hk EXCEPT ![p] = k] /\ drawn' = drawn \cup {k}
    /\ Goto(p, "create")
    /\ raced' = (raced \/ \E q \in Procs : pc[q] \in {"create", "fill"})
    /\ UNCHANGED <<files, mk, uses, codes>>

(* mutant: a file that cannot be read is taken for one that is not there *)
KeyFailsOver(p) ==
    /\ pc[p] = "key"
    /\ \E k \in InstallKeys \ drawn :
         hk' = [hk EXCEPT ![p] = k] /\ drawn' = drawn \cup {k}
    /\ Goto(p, "create")
    /\ UNCHANGED <<files, mk, uses, codes, raced>>

(* mutant: an error is passed over and the process goes on without a key *)
KeyFailsOn(p) ==
    /\ pc[p] \in {"key", "create"} /\ Goto(p, "ready")
    /\ UNCHANGED <<files, hk, mk, drawn, uses, codes, raced>>

(* Any other read error, and one from unprotect, ends the process; so does *)
(* a failure of protect or of creating directory or file.                  *)
KeyFails(p) ==
    /\ pc[p] \in {"key", "create"}
    /\ End(p)
    /\ UNCHANGED <<files, drawn, uses, codes, raced>>

KeyCreate(p) ==
    /\ pc[p] = "create" /\ Goto(p, "fill")
    /\ install' = Short
    /\ UNCHANGED <<master, hk, mk, drawn, uses, codes, raced>>

KeyFill(p) ==
    /\ pc[p] = "fill"
    /\ \/ install' = Protected(hk[p]) /\ Goto(p, "ready") /\ UNCHANGED <<hk, mk>>
       \/ install' \in Remnants /\ End(p)
    /\ UNCHANGED <<master, drawn, uses, codes, raced>>

(* main and run, once recovery has run *)
Dispatch(p) ==
    /\ pc[p] = "ready"
    /\ Goto(p, CASE cmd[p] \in {"lock", "cli lock"}    -> "master"
                 [] cmd[p] \in {"open", "cli unlock"}  -> "operate"
                 [] cmd[p] = "setup"                   -> "setup"
                 [] OTHER                              -> "master-init")
    /\ UNCHANGED <<files, hk, mk, drawn, uses, codes, raced>>

-----------------------------------------------------------------------------
(* The master key *)

(* A lock looks for the master key: the application runs setup where there *)
(* is none, the command line goes without.                                 *)
FindMaster(p) ==
    /\ pc[p] = "master"
    /\ mk' = [mk EXCEPT ![p] = load_master_pub]
    /\ Goto(p, IF load_master_pub = NoKey /\ cmd[p] = "lock" THEN "setup" ELSE "operate")
    /\ UNCHANGED <<files, hk, drawn, uses, codes, raced>>

(* back from run_setup: a lock goes on, with a key or without *)
SetUp(p, m) ==
    IF cmd[p] = "lock"
    THEN mk' = [mk EXCEPT ![p] = m] /\ Goto(p, "operate") /\ UNCHANGED hk
    ELSE End(p)

(* run_setup looks again ... *)
AlreadyEnrolled(p) ==
    /\ pc[p] = "setup" /\ load_master_pub # NoKey
    /\ SetUp(p, load_master_pub)
    /\ UNCHANGED <<files, drawn, uses, codes, raced>>

(* random_bytes in recovery::generate *)
generate(p, next) ==
    /\ \E m \in MasterKeys \ drawn :
         mk' = [mk EXCEPT ![p] = m] /\ drawn' = drawn \cup {m}
    /\ Goto(p, next)
    /\ UNCHANGED <<files, hk, uses, codes, raced>>

(* ... and shows a new code *)
ShowCode(p) == pc[p] = "setup" /\ load_master_pub = NoKey /\ generate(p, "code")

(* "I saved it" *)
Confirm(p) ==
    /\ pc[p] = "code" /\ Goto(p, "save")
    /\ known' = known \cup {mk[p]}
    /\ UNCHANGED <<files, hk, mk, drawn, uses, unprinted, raced>>

(* mutant: the key is enrolled whatever the answer *)
DismissEnrols(p) ==
    /\ pc[p] = "code" /\ Goto(p, "save")
    /\ UNCHANGED <<files, hk, mk, drawn, uses, codes, raced>>

(* X or Esc *)
Dismiss(p) ==
    /\ pc[p] = "code" /\ SetUp(p, NoKey)
    /\ UNCHANGED <<files, drawn, uses, codes, raced>>

(* master-init: an enrolled key is replaced only with --force *)
MasterInitRefused(p) ==
    /\ pc[p] = "master-init" /\ cmd[p] = "master-init" /\ load_master_pub # NoKey
    /\ End(p)
    /\ UNCHANGED <<files, drawn, uses, codes, raced>>

MasterInit(p) ==
    /\ pc[p] = "master-init"
    /\ load_master_pub = NoKey \/ cmd[p] = "master-init --force"
    /\ generate(p, "save")

(* save_master_pub: the file is emptied, then filled *)
SaveCreate(p) ==
    /\ pc[p] = "save" /\ Goto(p, "saving")
    /\ master' = Short
    /\ UNCHANGED <<install, hk, mk, drawn, uses, codes, raced>>

(* master-init prints the code only after this *)
SaveFill(p) ==
    /\ pc[p] = "saving"
    /\ master' = Protected(mk[p])
    /\ IF cmd[p] \in CliCommands
       THEN Goto(p, "print") /\ unprinted' = unprinted \cup {mk[p]} /\ UNCHANGED <<hk, mk>>
       ELSE SetUp(p, mk[p]) /\ UNCHANGED unprinted
    /\ UNCHANGED <<install, drawn, uses, known, raced>>

(* an error: run_setup returns none, master-init prints no code *)
SaveFails(p) ==
    /\ \/ pc[p] = "save" /\ UNCHANGED master
       \/ pc[p] = "saving" /\ master' \in Remnants
    /\ IF cmd[p] \in CliCommands THEN End(p) ELSE SetUp(p, NoKey)
    /\ UNCHANGED <<install, drawn, uses, codes, raced>>

PrintCode(p) ==
    /\ pc[p] = "print" /\ End(p)
    /\ known' = known \cup {mk[p]}
    /\ unprinted' = unprinted \ {mk[p]}
    /\ UNCHANGED <<files, drawn, uses, raced>>

-----------------------------------------------------------------------------
(* lock seals the data key to the master key it was given; lock, unlock    *)
(* and delete sign the header with the install key                         *)
Operate(p) ==
    /\ pc[p] = "operate" /\ End(p)
    /\ signed' = signed \cup {hk[p]}
    /\ sealed' = sealed \cup ({mk[p]} \ {NoKey})
    /\ UNCHANGED <<files, drawn, codes, raced>>

(* the process dies, or its dialog is closed *)
Crash(p) ==
    /\ pc[p] # "off" /\ End(p)
    /\ UNCHANGED <<files, drawn, uses, codes, raced>>

InstallKey(p) == KeyFound(p) \/ KeyMissing(p) \/ KeyFails(p) \/ KeyCreate(p) \/ KeyFill(p)

Enrol(p) ==
    \/ FindMaster(p) \/ AlreadyEnrolled(p) \/ ShowCode(p) \/ Confirm(p) \/ Dismiss(p)
    \/ MasterInitRefused(p) \/ MasterInit(p)
    \/ SaveCreate(p) \/ SaveFill(p) \/ SaveFails(p) \/ PrintCode(p)

Next == \E p \in Procs : \/ Start(p) \/ InstallKey(p) \/ Dispatch(p) \/ Enrol(p)
                         \/ Operate(p) \/ Crash(p)

Spec == Init /\ [][Next]_vars

-----------------------------------------------------------------------------
(* Properties *)

Steps == {"off", "key", "create", "fill", "ready", "master", "setup", "code", "master-init",
          "save", "saving", "print", "operate"}

(* Files and processes keep their types; whoever is past the first step    *)
(* holds an install key, and whoever shows or saves a code its master key. *)
TypeOK ==
    /\ install \in Forms(InstallKeys) /\ master \in Forms(MasterKeys)
    /\ pc \in [Procs -> Steps] /\ cmd \in [Procs -> Commands]
    /\ \A p \in Procs :
         /\ hk[p] \in InstallKeys \cup {NoKey} /\ mk[p] \in MasterKeys \cup {NoKey}
         /\ pc[p] \notin {"off", "key"} => hk[p] # NoKey
         /\ pc[p] \in {"code", "save", "saving", "print"} => mk[p] # NoKey
    /\ drawn \subseteq InstallKeys \cup MasterKeys
    /\ signed \subseteq InstallKeys /\ sealed \cup known \cup unprinted \subseteq MasterKeys
    /\ raced \in BOOLEAN

(* "the master public key is persisted ONLY after the user confirms they   *)
(* saved the one-time code": whatever setup and master-init do beside each *)
(* other and wherever they die, a master key that is enrolled, or that a   *)
(* container is sealed to, is one whose code the user has got; or one that *)
(* master-init, which saves before it prints, has not printed.             *)
CodeIsKnown ==
    (sealed \cup {load_master_pub}) \ {NoKey} \subseteq known \cup unprinted

(* load_or_create_install_key: every header this install has signed        *)
(* verifies under the key on disk, so its own containers are never taken   *)
(* for foreign ones: a key file is made anew only before the first use of  *)
(* its key.  Two first runs at once are the exception.                     *)
OneInstallKey == raced \/ signed \subseteq {read_protected(install)}

=============================================================================

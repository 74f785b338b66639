------------------------------ MODULE VaultInv ------------------------------
(***************************************************************************)
(* The inductive invariant behind NoDataLoss, for FolderVault processes    *)
(* that run one after another: what each step of a command has established *)
(* about the two copies, the two staging paths and the journal.            *)
(***************************************************************************)
EXTENDS VaultOps

(* Processes follow each other: there is at most one slot. *)
Serial == \A p, q \in Procs : p = q

(* A container, wherever it came from, is whole and holds everything; with *)
(* no container, the folder does.  NoDataLoss alone is not inductive: it   *)
(* would allow a half container beside a whole folder, and lock would then *)
(* remove the folder.                                                      *)
DataSafe ==
    IF cont # Absent THEN data \subseteq cont.toc /\ Whole(cont)
                     ELSE data \subseteq FilesIn(folder)

(* While an unlock record exists no step removes files from the folder, so *)
(* replaying the record may drop the container.                            *)
UnlockRecordSafe ==
    \A u \in Uuids : journal[u] = "unlock" =>
                        folder = Absent \/ data \subseteq folder

(* A lock record and an unlock record never meet in the journal: otherwise *)
(* finishing the lock could leave half a folder for the unlock record to   *)
(* trust.                                                                  *)
RecordsDoNotMix ==
    \A u, v \in Uuids : ~(journal[u] = "lock" /\ journal[v] = "unlock")

(* recover() still has every record ahead of it *)
RecoverInv(p) ==
    /\ pc[p] = "recover" => \A u \in Uuids : journal[u] # "none" => u \in todo[p]
    /\ pc[p] \in RecoverSteps \ {"recover"} =>
         /\ my[p] \in Uuids
         /\ \A u \in Uuids : journal[u] # "none" => u \in todo[p] \cup {my[p]}
    /\ pc[p] \in {"rLock", "rLockUnstage", "rLockFinish"} => journal[my[p]] = "lock"
    /\ pc[p] \in {"rUnlock", "rUnlockUnstage", "rUnlockFinish"}
         => journal[my[p]] = "unlock"
    /\ pc[p] = "rLockFinish" => cont # Absent
    /\ pc[p] = "rUnlockFinish" => folder # Absent /\ cont # Absent

(* after recovery, only records of the process's own command appear *)
CommandInv(p) ==
    /\ pc[p] \notin {"off"} \cup RecoverSteps =>
         \A u \in Uuids : journal[u] \in {"none", "torn", cmd[p]}
    /\ pc[p] \in LockSteps => cmd[p] = "lock"
    /\ pc[p] \in UnlockSteps => cmd[p] = "unlock"
    /\ pc[p] \in SharedSteps => cmd[p] \in {"lock", "unlock"} /\ my[p] \in Uuids
    /\ pc[p] \in {"auth", "dRecycle"} => cmd[p] \in {"unlock", "delete"}
    /\ pc[p] = "dRecycle" => cmd[p] = "delete"

Committing(p) == pc[p] \in {"begin", "beginWrite", "rename"}

LockInv(p) ==
    /\ pc[p] \in {"lClean", "lScan", "lCreate", "lCopy"} => cont = Absent
    /\ pc[p] \in {"lCreate", "lCopy"} => folder # Absent
    /\ pc[p] = "lCreate" => data \subseteq left[p]
    /\ pc[p] = "lCopy" =>
         /\ my[p] \in Uuids
         /\ tmp # Absent /\ tmp.uuid = my[p]
         /\ data \subseteq tmp.toc /\ tmp.toc \subseteq tmp.files \cup left[p]
    /\ Committing(p) /\ cmd[p] = "lock" =>
         /\ cont = Absent /\ folder # Absent
         /\ tmp # Absent /\ Whole(tmp) /\ data \subseteq tmp.toc
    /\ pc[p] \in {"lDelete", "lGuard"} => cont # Absent /\ my[p] \in Uuids

UnlockInv(p) ==
    /\ pc[p] \in {"auth", "uOpen", "uClean", "uMkdir", "uExtract"} => cont # Absent
    /\ pc[p] \in {"uClean", "uMkdir", "uExtract"} => folder = Absent
    /\ pc[p] \in {"uOpen", "uClean", "uMkdir"} => data \subseteq left[p]
    /\ pc[p] \in {"uOpen", "uClean", "uMkdir", "uExtract"} => my[p] \in Uuids
    /\ pc[p] = "uExtract" =>
         restoring # Absent /\ data \subseteq restoring \cup left[p]
    /\ Committing(p) /\ cmd[p] = "unlock" =>
         /\ folder = Absent /\ cont # Absent
         /\ restoring # Absent /\ data \subseteq restoring
    /\ pc[p] = "uRecycle" =>
         my[p] \in Uuids /\ folder # Absent /\ data \subseteq folder

(* What is preserved by every step of serial processes; implies NoDataLoss *)
(* and ReplayPremise.                                                      *)
IInv ==
    /\ DataSafe
    /\ UnlockRecordSafe
    /\ RecordsDoNotMix
    /\ \A p \in Procs :
         RecoverInv(p) /\ CommandInv(p) /\ LockInv(p) /\ UnlockInv(p)

-----------------------------------------------------------------------------
(* One process may lock while any number of others start, recover and end. *)
LockBesideRecovery ==
    /\ \A p \in Procs : Cmds[p] \subseteq {"lock", "inspect"}
    /\ \A p, q \in Procs : "lock" \in Cmds[p] \cap Cmds[q] => p = q

(* What a step of either has established.  A recovery may take the staging *)
(* file away under the lock, so nothing says that it is there.             *)
BesideStep(p) ==
    /\ cmd[p] \in {"lock", "inspect"}
    /\ cmd[p] = "lock" => "lock" \in Cmds[p]
    /\ pc[p] \in LockSteps \cup SharedSteps => cmd[p] = "lock"
    /\ pc[p] \notin {"auth", "dRecycle", "rUnlock", "rUnlockUnstage", "rUnlockFinish"}
                      \cup UnlockSteps
    /\ pc[p] \in {"lDelete", "rLockFinish"} => cont # Absent
    /\ pc[p] \in {"lClean", "lScan", "lCreate", "lCopy"} \/ Committing(p) => cont = Absent
    /\ pc[p] \in {"lCreate", "lCopy"} \/ Committing(p) => folder # Absent
    /\ pc[p] = "lCreate" => data \subseteq left[p]
    /\ pc[p] = "lCopy" /\ tmp # Absent =>
         /\ tmp.uuid = my[p]
         /\ data \subseteq tmp.toc /\ tmp.toc \subseteq tmp.files \cup left[p]
    /\ Committing(p) /\ tmp # Absent => Whole(tmp) /\ data \subseteq tmp.toc

(* What is preserved by every step of a lock and of the recoveries beside  *)
(* it; implies NoDataLoss and ReplayPremise.                               *)
BesideInv ==
    /\ DataSafe
    /\ \A u \in Uuids : journal[u] # "unlock"
    /\ \A p \in Procs : BesideStep(p)

-----------------------------------------------------------------------------
(* Serial processes whose recovery may be cut short or leave records: the  *)
(* journal may hold anything, so nothing is said of it, and data may be    *)
(* lost, so what a lock or an unlock has established is said of the copy   *)
(* it works from.                                                          *)

(* what a container lists is what it holds *)
Exact(c) == c.files = c.toc

SkipCommand(p) ==
    /\ pc[p] \in LockSteps => cmd[p] = "lock"
    /\ pc[p] \in UnlockSteps => cmd[p] = "unlock"
    /\ pc[p] \in SharedSteps => cmd[p] \in {"lock", "unlock"}

SkipLock(p) ==
    /\ pc[p] \in {"lClean", "lScan", "lCreate", "lCopy"} => cont = Absent
    /\ pc[p] = "lCreate" => folder # Absent /\ left[p] = folder
    /\ pc[p] = "lCopy" =>
         /\ folder # Absent /\ tmp # Absent
         /\ tmp.uuid = my[p] /\ tmp.toc = folder
         /\ tmp.files \subseteq folder /\ folder \subseteq tmp.files \cup left[p]
    /\ Committing(p) /\ cmd[p] = "lock" =>
         /\ cont = Absent /\ folder # Absent
         /\ tmp # Absent /\ Exact(tmp) /\ tmp.toc = folder
    /\ pc[p] \in {"lDelete", "rLockFinish"} => cont # Absent

SkipUnlock(p) ==
    /\ pc[p] \in {"auth", "uOpen", "uClean", "uMkdir", "uExtract"} => cont # Absent
    /\ pc[p] \in {"uClean", "uMkdir", "uExtract"} => folder = Absent
    /\ pc[p] \in {"uOpen", "uClean", "uMkdir", "uExtract"} => held[p] = cont.files
    /\ pc[p] \in {"uOpen", "uClean", "uMkdir"} => left[p] = cont.toc
    /\ pc[p] = "uExtract" =>
         /\ restoring # Absent
         /\ restoring \subseteq cont.files /\ cont.toc \subseteq restoring \cup left[p]
    /\ Committing(p) /\ cmd[p] = "unlock" =>
         /\ folder = Absent /\ cont # Absent
         /\ restoring # Absent /\ restoring = cont.toc
    /\ pc[p] = "uRecycle" => cont # Absent /\ folder # Absent /\ folder = cont.toc

(* What is preserved by every step of serial processes although recover()  *)
(* may skip and keep records: every container that appears is whole, and   *)
(* as long as nothing is lost the container is the copy to trust.          *)
SkipInv ==
    /\ cont # Absent => Exact(cont)
    /\ NoDataLoss => DataSafe
    /\ \A p \in Procs : SkipCommand(p) /\ SkipLock(p) /\ SkipUnlock(p)

=============================================================================

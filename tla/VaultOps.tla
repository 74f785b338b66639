------------------------------ MODULE VaultOps ------------------------------
(***************************************************************************)
(* Lock, unlock, delete and start-up recovery of ONE vault folder, as the  *)
(* processes of vault-cli and vault-app run them on a shared disk:         *)
(* vault-core's format.rs (lock_folder, unlock_container,                  *)
(* verify_and_delete), journal.rs (begin, complete, recover, replay) and   *)
(* trash.rs (recycle, set_readonly).                                       *)
(*                                                                         *)
(* Disk: the folder `Photos`, the container `Photos.fvlt`, the two staging *)
(* paths `Photos.fvlt.tmp` and `Photos.__restoring`, and one journal       *)
(* record file per container uuid.  A folder is the set of its files that  *)
(* are there and intact, so a half-deleted, half-wiped or half-restored    *)
(* folder is a proper subset.  A container is its manifest (`toc`), the    *)
(* files whose frames are in it and its read-only bit.                     *)
(*                                                                         *)
(* A process is a thread of system calls: every call that changes the disk *)
(* is a step, every call that can fail may fail, and a process may die     *)
(* between any two steps.                                                  *)
(***************************************************************************)
EXTENDS FiniteSets, Integers

CONSTANTS
    Procs,    \* process slots; one slot runs a process, dies, runs another
    Cmds,     \* Cmds[p]: the commands a process in slot p may be started with
    Files,    \* the files the user may keep in the folder
    Uuids,    \* container uuids (16 random bytes in the code)
    Absent,   \* nothing at this path
    NoUuid    \* no container chosen yet

Commands == {"lock", "unlock", "delete", "inspect"}

Container == [uuid: Uuids, toc: SUBSET Files, files: SUBSET Files, ro: BOOLEAN]

RecordKinds == {"none", "torn", "lock", "unlock"}

ASSUME CmdsAssumption == Cmds \in [Procs -> SUBSET Commands]
ASSUME AbsentAssumption ==
    /\ \A d \in SUBSET Files : d # Absent
    /\ \A c \in Container : c # Absent
ASSUME NoUuidAssumption == NoUuid \notin Uuids

VARIABLES
    folder,     \* Photos:              Absent, or its intact files
    tmp,        \* Photos.fvlt.tmp:     Absent, or a container being written
    cont,       \* Photos.fvlt:         Absent, or a container
    restoring,  \* Photos.__restoring:  Absent, or the files extracted so far
    journal,    \* journal[u]:          the record file <u>.jrec
    data,       \* the files the user has entrusted to the vault (history)
    pc,         \* per process: the next step
    cmd,        \* per process: the command it was started with
    my,         \* per process: uuid of the container or record it works on
    left,       \* per process: files still to copy or to extract
    held,       \* per process: files readable through its container handle
    wasRo,      \* per process: was_readonly of open_and_authorize
    todo        \* per process: records its recover() has not reached yet

disk == <<folder, tmp, cont, restoring, journal>>
locals == <<cmd, my, left, held, wasRo, todo>>
vars == <<disk, data, pc, locals>>

RecoverSteps == {"recover", "rLock", "rLockUnstage", "rLockFinish",
                 "rUnlock", "rUnlockUnstage", "rUnlockFinish", "rDrop"}
LockSteps    == {"lClean", "lScan", "lCreate", "lCopy", "lDelete", "lGuard"}
UnlockSteps  == {"uOpen", "uClean", "uMkdir", "uExtract", "uRecycle"}
SharedSteps  == {"begin", "beginWrite", "rename", "complete"}
Labels == {"off", "ready", "failed", "auth", "dRecycle"}
            \cup RecoverSteps \cup LockSteps \cup UnlockSteps \cup SharedSteps

-----------------------------------------------------------------------------
(* Helpers *)

FilesIn(dir) == IF dir = Absent THEN {} ELSE dir

Whole(c) == c.toc \subseteq c.files

Goto(p, from, to) == pc[p] = from /\ pc' = [pc EXCEPT ![p] = to]

(* `return Err(..)`: the process reports it and, in the dialog, may retry. *)
Fail(p, from) == Goto(p, from, "failed")

SetReadonly(c, b) == IF c = Absent THEN c ELSE [c EXCEPT !.ro = b]

(* The rearm closure: restore the read-only bit found on entry. *)
Rearm(p) == cont' = IF wasRo[p] THEN SetReadonly(cont, TRUE) ELSE cont

(* remove_dir_all, the zero-fill before it, or a move to the Recycle Bin:  *)
(* files go one by one or all at once, and the call may give up half-way.  *)
RemoveFolder(p, at, ok, err) ==
    /\ \/ folder # Absent /\ folder' = Absent /\ Goto(p, at, ok)
       \/ \E f \in FilesIn(folder) :
            folder' = folder \ {f} /\ Goto(p, at, at)
       \/ folder' = folder /\ Goto(p, at, err)
    /\ UNCHANGED <<tmp, cont, restoring, journal, data, locals>>

RemoveRestoring(p, at, ok, err) ==
    /\ \/ restoring' = Absent /\ Goto(p, at, ok)
       \/ \E f \in FilesIn(restoring) :
            restoring' = restoring \ {f} /\ Goto(p, at, at)
       \/ restoring # Absent /\ restoring' = restoring /\ Goto(p, at, err)
    /\ UNCHANGED <<folder, tmp, cont, journal, data, locals>>

(* Leave the process: its memory is gone, the disk stays as it is. *)
Leave(p) ==
    /\ pc'    = [pc EXCEPT ![p] = "off"]
    /\ cmd'   = [cmd EXCEPT ![p] = "inspect"]
    /\ my'    = [my EXCEPT ![p] = NoUuid]
    /\ left'  = [left EXCEPT ![p] = {}]
    /\ held'  = [held EXCEPT ![p] = {}]
    /\ wasRo' = [wasRo EXCEPT ![p] = FALSE]
    /\ todo'  = [todo EXCEPT ![p] = {}]

-----------------------------------------------------------------------------
(* A plain folder, or a folder that was locked some time ago. *)
Init ==
    /\ data \in (SUBSET Files) \ {{}}
    /\ \/ folder = data /\ cont = Absent
       \/ /\ folder = Absent
          /\ \E u \in Uuids, r \in BOOLEAN :
               cont = [uuid |-> u, toc |-> data, files |-> data, ro |-> r]
    /\ tmp = Absent /\ restoring = Absent
    /\ journal = [u \in Uuids |-> "none"]
    /\ pc = [p \in Procs |-> "off"]
    /\ cmd = [p \in Procs |-> "inspect"]
    /\ my = [p \in Procs |-> NoUuid]
    /\ left = [p \in Procs |-> {}]
    /\ held = [p \in Procs |-> {}]
    /\ wasRo = [p \in Procs |-> FALSE]
    /\ todo = [p \in Procs |-> {}]

(***************************************************************************)
(* Process start: Journal::open, then recover() over a directory snapshot, *)
(* before anything else.                                                   *)
(***************************************************************************)
(* mutant: recover() does not filter the directory by ".jrec" *)
StartUnfiltered(p) ==
    /\ Goto(p, "off", "recover")
    /\ \E c \in Cmds[p] : cmd' = [cmd EXCEPT ![p] = c]
    /\ todo' = [todo EXCEPT ![p] = {u \in Uuids : journal[u] # "none"} \cup {NoUuid}]
    /\ UNCHANGED <<disk, data, my, left, held, wasRo>>

Start(p) ==
    /\ Goto(p, "off", "recover")
    /\ \E c \in Cmds[p] : cmd' = [cmd EXCEPT ![p] = c]
    /\ todo' = [todo EXCEPT ![p] = {u \in Uuids : journal[u] # "none"}]
    /\ UNCHANGED <<disk, data, my, left, held, wasRo>>

(* mutant: recover() lists the directory anew for every record *)
RecoverRecordAgain(p) ==
    \E u \in todo[p] :
        /\ my' = [my EXCEPT ![p] = u]
        /\ \/ journal[u] = "none" /\ Goto(p, "recover", "recover")
           \/ journal[u] = "torn" /\ Goto(p, "recover", "rDrop")
           \/ journal[u] = "lock" /\ Goto(p, "recover", "rLock")
           \/ journal[u] = "unlock" /\ Goto(p, "recover", "rUnlock")
        /\ UNCHANGED <<disk, data, cmd, left, held, wasRo, todo>>

(* recover: read the next record; one that does not decode is dropped      *)
(* without a replay, and one that has vanished is skipped.                 *)
RecoverRecord(p) ==
    \E u \in todo[p] :
        /\ todo' = [todo EXCEPT ![p] = @ \ {u}]
        /\ my' = [my EXCEPT ![p] = u]
        /\ \/ journal[u] = "none" /\ Goto(p, "recover", "recover")
           \/ journal[u] = "torn" /\ Goto(p, "recover", "rDrop")
           \/ journal[u] = "lock" /\ Goto(p, "recover", "rLock")
           \/ journal[u] = "unlock" /\ Goto(p, "recover", "rUnlock")
        /\ UNCHANGED <<disk, data, cmd, left, held, wasRo>>

RecoverDone(p) ==
    /\ todo[p] = {}
    /\ Goto(p, "recover", "ready")
    /\ my' = [my EXCEPT ![p] = NoUuid]
    /\ UNCHANGED <<disk, data, cmd, left, held, wasRo, todo>>

(* Journal::open, read_dir or one of its items fails: recover() returns    *)
(* early and the front end goes on.  Not part of Next: see SkipSpec.       *)
SkipRecovery(p) ==
    /\ Goto(p, "recover", "ready")
    /\ my' = [my EXCEPT ![p] = NoUuid]
    /\ todo' = [todo EXCEPT ![p] = {}]
    /\ UNCHANGED <<disk, data, cmd, left, held, wasRo>>

(* verify_structure walks frames to EOF without the manifest: it accepts   *)
(* every whole container, and rejects a short one unless it happens to end *)
(* on a frame boundary.  VerifyStructure(c, ok): ok is a possible verdict. *)
VerifyStructure(c, ok) == ok \/ ~Whole(c)

(* mutant: the folder goes without a look at the container *)
ReplayLockUnverified(p) ==
    /\ Goto(p, "rLock", IF tmp # Absent THEN "rLockUnstage"
                        ELSE IF folder # Absent THEN "rLockFinish" ELSE "rDrop")
    /\ UNCHANGED <<disk, data, locals>>

(* replay, OpKind::Lock *)
ReplayLock(p) ==
    /\ IF tmp # Absent
       THEN Goto(p, "rLock", "rLockUnstage")
       ELSE \/ /\ folder # Absent /\ cont # Absent
               /\ VerifyStructure(cont, TRUE)
               /\ Goto(p, "rLock", "rLockFinish")
            \/ /\ folder = Absent \/ cont = Absent
               /\ Goto(p, "rLock", "rDrop")
            \/ /\ cont # Absent
               /\ VerifyStructure(cont, FALSE)
               /\ Goto(p, "rLock", "rDrop")
    /\ UNCHANGED <<disk, data, locals>>

RollBackLock(p) ==
    /\ Goto(p, "rLockUnstage", "rDrop")
    /\ tmp' \in {tmp, Absent}
    /\ UNCHANGED <<folder, cont, restoring, journal, data, locals>>

FinishLock(p) == RemoveFolder(p, "rLockFinish", "rDrop", "rDrop")

(* replay, OpKind::Unlock: nothing is verified before the container goes *)
ReplayUnlock(p) ==
    /\ IF restoring # Absent
       THEN Goto(p, "rUnlock", "rUnlockUnstage")
       ELSE IF folder # Absent /\ cont # Absent
            THEN Goto(p, "rUnlock", "rUnlockFinish")
            ELSE Goto(p, "rUnlock", "rDrop")
    /\ UNCHANGED <<disk, data, locals>>

RollBackUnlock(p) == RemoveRestoring(p, "rUnlockUnstage", "rDrop", "rDrop")

FinishUnlock(p) ==
    /\ Goto(p, "rUnlockFinish", "rDrop")
    /\ cont' \in {Absent, SetReadonly(cont, FALSE)}
    /\ UNCHANGED <<folder, tmp, restoring, journal, data, locals>>

(* whatever replay did or failed to do, the record goes; so does one that  *)
(* did not decode                                                          *)
DropRecord(p) ==
    /\ Goto(p, "rDrop", "recover")
    /\ journal' = [journal EXCEPT ![my[p]] = "none"]
    /\ UNCHANGED <<folder, tmp, cont, restoring, data, locals>>

(* A record that cannot be read, or cannot be removed, is passed over and  *)
(* stays.  Not part of Next: see SkipSpec.                                 *)
KeepRecord(p) ==
    \/ Goto(p, "rDrop", "recover") /\ UNCHANGED <<disk, data, locals>>
    \/ \E u \in todo[p] :
         /\ Goto(p, "recover", "recover")
         /\ todo' = [todo EXCEPT ![p] = @ \ {u}]
         /\ UNCHANGED <<disk, data, cmd, my, left, held, wasRo>>

-----------------------------------------------------------------------------
(* lock_folder *)

LockExists(p) ==
    /\ cmd[p] = "lock"
    /\ IF cont # Absent THEN Fail(p, "ready") ELSE Goto(p, "ready", "lClean")
    /\ UNCHANGED <<disk, data, locals>>

LockClean(p) ==
    /\ \/ tmp' = Absent /\ Goto(p, "lClean", "lScan")
       \/ tmp # Absent /\ tmp' = tmp /\ Fail(p, "lClean")
    /\ UNCHANGED <<folder, cont, restoring, journal, data, locals>>

LockScan(p) ==
    /\ \/ folder # Absent /\ Goto(p, "lScan", "lCreate")
       \/ Fail(p, "lScan")
    /\ left' = [left EXCEPT ![p] = FilesIn(folder)]
    /\ UNCHANGED <<disk, data, cmd, my, held, wasRo, todo>>

Fresh(u, p) ==
    /\ journal[u] = "none"
    /\ \A c \in {tmp, cont} \ {Absent} : c.uuid # u
    /\ \A q \in Procs \ {p} : my[q] # u

(* File::create truncates whatever is at the staging path *)
LockCreate(p) ==
    \E u \in Uuids :
        /\ Fresh(u, p)
        /\ Goto(p, "lCreate", "lCopy")
        /\ my' = [my EXCEPT ![p] = u]
        /\ tmp' = [uuid |-> u, toc |-> left[p], files |-> {}, ro |-> FALSE]
        /\ UNCHANGED <<folder, cont, restoring, journal, data,
                       cmd, left, held, wasRo, todo>>

(* Bytes go through the handle, so they follow the file if it was renamed  *)
(* meanwhile and are lost if it was removed.                               *)
AppendTo(c, p, f) ==
    IF c # Absent /\ c.uuid = my[p] THEN [c EXCEPT !.files = @ \cup {f}] ELSE c

LockCopy(p) ==
    \E f \in left[p] \cap FilesIn(folder) :
        /\ Goto(p, "lCopy", "lCopy")
        /\ left' = [left EXCEPT ![p] = @ \ {f}]
        /\ tmp' = AppendTo(tmp, p, f)
        /\ cont' = AppendTo(cont, p, f)
        /\ UNCHANGED <<folder, restoring, journal, data,
                       cmd, my, held, wasRo, todo>>

(* mutant: the container is taken for complete too early *)
LockSyncEarly(p) ==
    /\ Goto(p, "lCopy", "begin")
    /\ UNCHANGED <<disk, data, locals>>

(* flush + sync_all, at the end of write_container *)
LockSync(p) ==
    /\ left[p] = {}
    /\ Goto(p, "lCopy", "begin")
    /\ UNCHANGED <<disk, data, locals>>

(* any error of write_container (a file that shrank, grew or vanished, a   *)
(* full disk): best-effort removal of the staging file                     *)
LockWriteFails(p) ==
    /\ Fail(p, "lCopy") \/ Fail(p, "lCreate")
    /\ tmp' \in {tmp, Absent}
    /\ UNCHANGED <<folder, cont, restoring, journal, data, locals>>

(* fs::rename replaces a file at the destination *)
LockRename(p) ==
    /\ cmd[p] = "lock"
    /\ tmp # Absent
    /\ Goto(p, "rename", "lDelete")
    /\ cont' = tmp
    /\ tmp' = Absent
    /\ UNCHANGED <<folder, restoring, journal, data, locals>>

LockDelete(p) == RemoveFolder(p, "lDelete", "lGuard", "failed")

LockGuard(p) ==
    /\ Goto(p, "lGuard", "complete")
    /\ cont' \in {cont, SetReadonly(cont, TRUE)}
    /\ UNCHANGED <<folder, tmp, restoring, journal, data, locals>>

-----------------------------------------------------------------------------
(* Journal::begin and complete, shared by lock and unlock *)

(* File::create leaves an empty record until write_all + sync_all *)
JournalCreate(p) ==
    /\ Goto(p, "begin", "beginWrite")
    /\ journal' = [journal EXCEPT ![my[p]] = "torn"]
    /\ UNCHANGED <<folder, tmp, cont, restoring, data, locals>>

(* mutant: the two kinds are swapped *)
OpKindSwapped(c) == IF c = "lock" THEN "unlock" ELSE "lock"

OpKind(c) == IF c = "lock" THEN "lock" ELSE "unlock"

JournalWrite(p) ==
    /\ Goto(p, "beginWrite", "rename")
    /\ journal' = [journal EXCEPT ![my[p]] = OpKind(cmd[p])]
    /\ UNCHANGED <<folder, tmp, cont, restoring, data, locals>>

(* Journal::open failed for this command: it goes on without a record *)
Unjournaled(p) ==
    /\ Goto(p, "begin", "rename")
    /\ UNCHANGED <<disk, data, locals>>

(* begin or the rename fails: `?` leaves staging and record behind *)
CommitFails(p) ==
    /\ \E at \in {"begin", "beginWrite", "rename"} : Fail(p, at)
    /\ UNCHANGED <<disk, data, locals>>

(* complete ignores a failed remove_file; the command has succeeded *)
Complete(p) ==
    /\ pc[p] = "complete"
    /\ journal' \in {journal, [journal EXCEPT ![my[p]] = "none"]}
    /\ Leave(p)
    /\ UNCHANGED <<folder, tmp, cont, restoring, data>>

-----------------------------------------------------------------------------
(* open_and_authorize, shared by unlock and delete (its lockout counter is *)
(* the subject of module Lockout)                                          *)

OpenContainer(p) ==
    /\ cmd[p] \in {"unlock", "delete"}
    /\ cont # Absent
    /\ Goto(p, "ready", "auth")
    /\ wasRo' = [wasRo EXCEPT ![p] = cont.ro]
    /\ cont' = SetReadonly(cont, FALSE)
    /\ UNCHANGED <<folder, tmp, restoring, journal, data,
                   cmd, my, left, held, todo>>

OpenFails(p) ==
    /\ cmd[p] \in {"unlock", "delete"}
    /\ Fail(p, "ready")
    /\ UNCHANGED <<disk, data, locals>>

Authorized(p) ==
    /\ cont # Absent
    /\ Goto(p, "auth", IF cmd[p] = "unlock" THEN "uOpen" ELSE "dRecycle")
    /\ my' = [my EXCEPT ![p] = cont.uuid]
    /\ left' = [left EXCEPT ![p] = cont.toc]
    /\ held' = [held EXCEPT ![p] = cont.files]
    /\ UNCHANGED <<disk, data, cmd, wasRo, todo>>

(* locked out, wrong password, not enrolled or invalid recovery code *)
Denied(p) ==
    /\ Fail(p, "auth")
    /\ Rearm(p)
    /\ UNCHANGED <<folder, tmp, restoring, journal, data, locals>>

(* open, read, parse, key derivation or header rewrite fails: plain `?` *)
AuthorizeIoError(p) ==
    /\ Fail(p, "auth")
    /\ UNCHANGED <<disk, data, locals>>

(* verify_and_delete: the one way to give the data up.  What the folder    *)
(* still holds is all the user keeps.                                      *)
DeleteRecycle(p) ==
    /\ pc[p] = "dRecycle"
    /\ cont # Absent
    /\ cont' = Absent
    /\ data' = data \cap FilesIn(folder)
    /\ Leave(p)
    /\ UNCHANGED <<folder, tmp, restoring, journal>>

(* the guard is cleared once more before recycle, then put back as found *)
DeleteFails(p) ==
    /\ Fail(p, "dRecycle")
    /\ cont' = SetReadonly(cont, wasRo[p])
    /\ UNCHANGED <<folder, tmp, restoring, journal, data, locals>>

-----------------------------------------------------------------------------
(* unlock_container, after authorization *)

UnlockExists(p) ==
    /\ folder = Absent
    /\ Goto(p, "uOpen", "uClean")
    /\ UNCHANGED <<disk, data, locals>>

(* bail!: unreadable manifest, or the folder is already there *)
UnlockBails(p) ==
    /\ Fail(p, "uOpen")
    /\ Rearm(p)
    /\ UNCHANGED <<folder, tmp, restoring, journal, data, locals>>

UnlockClean(p) == RemoveRestoring(p, "uClean", "uMkdir", "failed")

UnlockMkdir(p) ==
    /\ \/ restoring = Absent /\ restoring' = {} /\ Goto(p, "uMkdir", "uExtract")
       \/ restoring' = restoring /\ Fail(p, "uMkdir")
    /\ UNCHANGED <<folder, tmp, cont, journal, data, locals>>

(* create_dir_all of the parent re-creates a staging folder that vanished *)
UnlockExtract(p) ==
    \E f \in left[p] \cap held[p] :
        /\ Goto(p, "uExtract", "uExtract")
        /\ left' = [left EXCEPT ![p] = @ \ {f}]
        /\ restoring' = FilesIn(restoring) \cup {f}
        /\ UNCHANGED <<folder, tmp, cont, journal, data,
                       cmd, my, held, wasRo, todo>>

(* mutant: the error of extract_entries is ignored *)
UnlockExtractFailsUnseen(p) ==
    /\ Goto(p, "uExtract", "begin")
    /\ UNCHANGED <<disk, data, locals>>

(* a bad frame or a full disk: best-effort removal of the staging folder *)
UnlockExtractFails(p) ==
    /\ Fail(p, "uExtract")
    /\ restoring' \in {Absent} \cup (SUBSET FilesIn(restoring))
    /\ Rearm(p)
    /\ UNCHANGED <<folder, tmp, journal, data, locals>>

(* mutant: the record is written, and the folder renamed, too early *)
UnlockExtractedEarly(p) ==
    /\ Goto(p, "uExtract", "begin")
    /\ UNCHANGED <<disk, data, locals>>

(* mutant: the container is recycled before the rename *)
UnlockExtractedDeleteFirst(p) ==
    /\ left[p] = {}
    /\ Goto(p, "uExtract", "uRecycle")
    /\ UNCHANGED <<disk, data, locals>>

UnlockExtracted(p) ==
    /\ left[p] = {}
    /\ Goto(p, "uExtract", "begin")
    /\ UNCHANGED <<disk, data, locals>>

(* a directory is never replaced by a rename *)
UnlockRename(p) ==
    /\ cmd[p] = "unlock"
    /\ restoring # Absent /\ folder = Absent
    /\ Goto(p, "rename", "uRecycle")
    /\ folder' = restoring
    /\ restoring' = Absent
    /\ UNCHANGED <<tmp, cont, journal, data, locals>>

UnlockRecycle(p) ==
    /\ \/ cont # Absent /\ cont' = Absent /\ Goto(p, "uRecycle", "complete")
       \/ cont' = SetReadonly(cont, FALSE) /\ Fail(p, "uRecycle")
    /\ UNCHANGED <<folder, tmp, restoring, journal, data, locals>>

-----------------------------------------------------------------------------
(* After an error the dialog lets the user try the same command again; a   *)
(* process may be closed while idle and may die at any step.               *)

Retry(p) ==
    /\ Goto(p, "failed", "ready")
    /\ my' = [my EXCEPT ![p] = NoUuid]
    /\ left' = [left EXCEPT ![p] = {}]
    /\ held' = [held EXCEPT ![p] = {}]
    /\ wasRo' = [wasRo EXCEPT ![p] = FALSE]
    /\ UNCHANGED <<disk, data, cmd, todo>>

Exit(p) ==
    /\ pc[p] \in {"ready", "failed"}
    /\ Leave(p)
    /\ UNCHANGED <<disk, data>>

Crash(p) ==
    /\ pc[p] \notin {"off", "ready", "failed"}
    /\ Leave(p)
    /\ UNCHANGED <<disk, data>>

(* The user, with no FolderVault process running, makes a folder of that   *)
(* name where neither a folder nor a container is.                         *)
NewFolder ==
    /\ \A p \in Procs : pc[p] = "off"
    /\ folder = Absent /\ cont = Absent
    /\ data' \in (SUBSET Files) \ {{}}
    /\ folder' = data'
    /\ UNCHANGED <<tmp, cont, restoring, journal, pc, locals>>

Recover(p) ==
    \/ RecoverRecord(p) \/ RecoverDone(p)
    \/ ReplayLock(p) \/ RollBackLock(p) \/ FinishLock(p)
    \/ ReplayUnlock(p) \/ RollBackUnlock(p) \/ FinishUnlock(p)
    \/ DropRecord(p)

Lock(p) ==
    \/ LockExists(p) \/ LockClean(p) \/ LockScan(p) \/ LockCreate(p)
    \/ LockCopy(p) \/ LockSync(p) \/ LockWriteFails(p)
    \/ LockRename(p) \/ LockDelete(p) \/ LockGuard(p)

Unlock(p) ==
    \/ UnlockExists(p) \/ UnlockBails(p) \/ UnlockClean(p) \/ UnlockMkdir(p)
    \/ UnlockExtract(p) \/ UnlockExtractFails(p) \/ UnlockExtracted(p)
    \/ UnlockRename(p) \/ UnlockRecycle(p)

Authorize(p) ==
    \/ OpenContainer(p) \/ OpenFails(p) \/ Authorized(p)
    \/ Denied(p) \/ AuthorizeIoError(p)

Delete(p) == DeleteRecycle(p) \/ DeleteFails(p)

Journaling(p) ==
    \/ JournalCreate(p) \/ JournalWrite(p) \/ Unjournaled(p)
    \/ CommitFails(p) \/ Complete(p)

(* one step of a command that is under way *)
Step(p) ==
    \/ Recover(p) \/ Lock(p) \/ Authorize(p) \/ Unlock(p) \/ Delete(p)
    \/ Journaling(p)

(* recover() gets to list the journal directory, to read every record and  *)
(* to remove it; SkipSpec drops this.                                      *)
Next ==
    \/ \E p \in Procs : Start(p) \/ Step(p) \/ Retry(p) \/ Exit(p) \/ Crash(p)
    \/ NewFolder

Spec == Init /\ [][Next]_vars

(* The same, when these calls too may fail, and their errors are ignored:  *)
(* recovery may be cut short and may leave records behind.                 *)
SkipNext == Next \/ \E p \in Procs : SkipRecovery(p) \/ KeepRecord(p)

SkipSpec == Init /\ [][SkipNext]_vars

(* A command that has been started is not left half-way by the scheduler:  *)
(* the worker thread runs on until it returns, fails or dies.  Nobody is   *)
(* obliged to start a process, to press the button or to try again.        *)
Work(p) == pc[p] # "ready" /\ Step(p)

FairSpec == Spec /\ \A p \in Procs : WF_vars(Work(p))

-----------------------------------------------------------------------------
(* Properties *)

(* Every path, record and local of lock_folder, unlock_container,          *)
(* verify_and_delete and recover() holds a value of its kind.              *)
TypeOK ==
    /\ folder \in {Absent} \cup (SUBSET Files)
    /\ restoring \in {Absent} \cup (SUBSET Files)
    /\ tmp \in {Absent} \cup Container
    /\ cont \in {Absent} \cup Container
    /\ journal \in [Uuids -> RecordKinds]
    /\ data \in SUBSET Files
    /\ pc \in [Procs -> Labels]
    /\ cmd \in [Procs -> Commands]
    /\ my \in [Procs -> Uuids \cup {NoUuid}]
    /\ left \in [Procs -> SUBSET Files]
    /\ held \in [Procs -> SUBSET Files]
    /\ wasRo \in [Procs -> BOOLEAN]
    /\ todo \in [Procs -> SUBSET Uuids]

(* "At no point can both copies be gone": everything the user entrusted to *)
(* the vault, and did not delete with the password, is all in the folder   *)
(* or all in the container, at every instant of lock, unlock, delete and   *)
(* recovery, whatever call failed and wherever a process died.             *)
NoDataLoss ==
    \/ data \subseteq FilesIn(folder)
    \/ cont # Absent /\ data \subseteq cont.files

(* The premise replay states and relies on: once a record's staging path   *)
(* is gone and both copies are there, the copy that replay would keep      *)
(* holds everything.                                                       *)
ReplayPremise ==
    \A u \in Uuids :
        folder # Absent /\ cont # Absent =>
            /\ journal[u] = "lock" /\ tmp = Absent => data \subseteq cont.files
            /\ journal[u] = "unlock" /\ restoring = Absent => data \subseteq folder

(* unlock_container: "a failure never leaves a half-restored folder".      *)
(* A folder that appears at the path is complete when it appears.          *)
NeverHalfRestored ==
    [][folder = Absent /\ folder' # Absent => data' \subseteq folder']_vars

(* Of all the calls whose error the program ignores, those of recover() on *)
(* the journal included, and wherever processes die: the one step that can *)
(* take the last complete copy is recover()'s replay of an unlock record,  *)
(* which recycles the container without a look at the folder.  No stale    *)
(* lock record, no cut-short recovery, no retry and no delete does.        *)
LossNeedsUnlockReplay ==
    [][NoDataLoss /\ ~NoDataLoss' =>
         \E p \in Procs : pc[p] = "rUnlockFinish" /\ pc'[p] = "rDrop"]_vars

(* lock, unlock, delete and recovery always come to an end: recovery does  *)
(* not go round in circles over records it cannot finish.                  *)
Idle(p) == pc[p] \in {"off", "ready", "failed"}
CommandEnds == \A p \in Procs : ~Idle(p) ~> Idle(p)

=============================================================================

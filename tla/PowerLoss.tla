------------------------------ MODULE PowerLoss ------------------------------
(***************************************************************************)
(* VaultOps on a machine whose power may fail.  A process that dies leaves *)
(* the disk as the system calls made it; a power failure also takes what   *)
(* the system had not written yet.                                         *)
(*                                                                         *)
(* The file system is a journalling one (NTFS): names are logged in order, *)
(* lazily, and a sync of any file writes the log out; so after a failure   *)
(* the names are those of the last flush, `platter`.  The bytes of a file  *)
(* are written back in any order, before or after the log.                 *)
(***************************************************************************)
EXTENDS VaultOps

CONSTANT SecureDelete   \* may lock run with --secure-delete?

ASSUME SecureDeleteAssumption == SecureDelete \in BOOLEAN

VARIABLES
    platter,  \* the names as they are on the medium
    synced,   \* containers whose bytes sync_all has written
    softR,    \* files of `restoring` whose bytes may not be written yet
    softF,    \* files of `folder`, likewise
    wiped,    \* files of `folder` whose zeros may or may not be written
    exposed   \* history: a copy was given up on the word of unwritten bytes

medium == <<platter, synced, softR, softF, wiped, exposed>>
pvars  == <<vars, medium>>

Names == [folder |-> folder, tmp |-> tmp, cont |-> cont, restoring |-> restoring,
          journal |-> journal, softR |-> softR, softF |-> softF]

PInit ==
    /\ Init
    /\ synced = Uuids
    /\ softR = {} /\ softF = {} /\ wiped = {}
    /\ platter = Names
    /\ exposed = FALSE

-----------------------------------------------------------------------------
(* The steps of VaultOps that decide what is written when. *)

(* a fresh uuid is also unlike those still on the medium *)
Create(p) ==
    /\ LockCreate(p)
    /\ \A c \in {platter.tmp, platter.cont} \ {Absent} : c.uuid # my'[p]
    /\ platter.journal[my'[p]] = "none"
    /\ synced' = synced \ {my'[p]}
    /\ UNCHANGED <<platter, softR, softF, wiped, exposed>>

(* mutant: no sync_all at the end of write_container *)
NoSync(p) == LockSync(p) /\ wiped' = {} /\ UNCHANGED <<platter, synced, softR, softF, exposed>>

(* w.flush, then sync_all: the bytes, and with them the log *)
Sync(p) ==
    /\ LockSync(p)
    /\ synced' = synced \cup {my[p]}
    /\ wiped' = {}
    /\ UNCHANGED <<softR, softF, exposed>>
    /\ platter' = Names'

(* Journal::begin syncs the record *)
SyncRecord(p) ==
    /\ JournalWrite(p)
    /\ UNCHANGED <<synced, softR, softF, wiped, exposed>>
    /\ platter' = Names'

(* wipe_tree writes zeros over the files while the rename of the container *)
(* need not have been written                                              *)
DeleteOriginal(p) ==
    /\ LockDelete(p)
    /\ wiped' = IF SecureDelete /\ folder' # Absent
                THEN wiped \cup (FilesIn(folder) \ FilesIn(folder')) ELSE wiped
    /\ exposed' = (exposed \/ (wiped' # {} /\ platter.cont = Absent))
    /\ UNCHANGED <<platter, synced, softR, softF>>

Mkdir(p) ==
    /\ UnlockMkdir(p)
    /\ softR' = IF restoring' = restoring THEN softR ELSE {}
    /\ UNCHANGED <<platter, synced, softF, wiped, exposed>>

(* extract_entries flushes its own buffers and syncs nothing *)
Extract(p) ==
    /\ UnlockExtract(p)
    /\ softR' = softR \cup (restoring' \ FilesIn(restoring))
    /\ UNCHANGED <<platter, synced, softF, wiped, exposed>>

(* the folder is put in place with its bytes still unwritten *)
Rename(p) ==
    /\ UnlockRename(p)
    /\ softF' = softR
    /\ softR' = {}
    /\ wiped' = {}
    /\ exposed' = (exposed \/ softR # {})
    /\ UNCHANGED <<platter, synced>>

Plain(p) ==
    /\ \/ Start(p) \/ Recover(p) \/ Authorize(p) \/ Delete(p)
       \/ LockExists(p) \/ LockClean(p) \/ LockScan(p) \/ LockCopy(p)
       \/ LockWriteFails(p) \/ LockRename(p) \/ LockGuard(p)
       \/ UnlockExists(p) \/ UnlockBails(p) \/ UnlockClean(p)
       \/ UnlockExtractFails(p) \/ UnlockExtracted(p) \/ UnlockRecycle(p)
       \/ JournalCreate(p) \/ Unjournaled(p) \/ CommitFails(p) \/ Complete(p)
       \/ Retry(p) \/ Exit(p) \/ Crash(p)
    /\ UNCHANGED medium

(* what the user makes is taken to be written *)
UserFolder ==
    /\ NewFolder
    /\ softF' = {} /\ wiped' = {}
    /\ UNCHANGED <<synced, softR, exposed>>
    /\ platter' = Names'

-----------------------------------------------------------------------------
(* The system writes its log, or everything. *)

FlushLog ==
    /\ platter # Names
    /\ platter' = Names
    /\ UNCHANGED <<vars, synced, softR, softF, wiped, exposed>>

WriteBack ==
    /\ softR' = {} /\ softF' = {} /\ wiped' = {}
    /\ synced' = Uuids \ {u \in Uuids : \E p \in Procs : pc[p] = "lCopy" /\ my[p] = u}
    /\ UNCHANGED vars
    /\ platter' = Names'
    /\ exposed' = (exposed /\ ~(NoDataLoss /\ ReplayPremise))

(* the bytes of a container, as much of them as was written *)
Survives(c) ==
    IF c = Absent \/ c.uuid \in synced THEN {c}
    ELSE {[c EXCEPT !.files = s] : s \in SUBSET c.files}

PowerFail ==
    /\ platter # Names \/ softR # {} \/ softF # {} \/ wiped # {} \/ synced # Uuids
    /\ cont' \in Survives(platter.cont)
    /\ tmp' \in Survives(platter.tmp)
    /\ \E lost \in SUBSET (platter.softF \cup wiped) :
         folder' = IF platter.folder = Absent THEN Absent ELSE platter.folder \ lost
    /\ \E lost \in SUBSET platter.softR :
         restoring' = IF platter.restoring = Absent THEN Absent ELSE platter.restoring \ lost
    /\ journal' = platter.journal
    /\ pc' = [p \in Procs |-> "off"]
    /\ cmd' = [p \in Procs |-> "inspect"]
    /\ my' = [p \in Procs |-> NoUuid]
    /\ left' = [p \in Procs |-> {}]
    /\ held' = [p \in Procs |-> {}]
    /\ wasRo' = [p \in Procs |-> FALSE]
    /\ todo' = [p \in Procs |-> {}]
    /\ softR' = {} /\ softF' = {} /\ wiped' = {}
    /\ synced' = Uuids
    /\ UNCHANGED <<data, exposed>>
    /\ platter' = Names'

PNext ==
    \/ \E p \in Procs : \/ Plain(p) \/ Create(p) \/ Sync(p) \/ SyncRecord(p)
                        \/ DeleteOriginal(p) \/ Mkdir(p) \/ Extract(p) \/ Rename(p)
    \/ UserFolder \/ FlushLog \/ WriteBack \/ PowerFail

PSpec == PInit /\ [][PNext]_pvars

-----------------------------------------------------------------------------
(* Properties *)

(* Power failures included, lock, recovery and delete lose nothing: data   *)
(* can go only with an unlock whose extracted files were never synced, or  *)
(* with a --secure-delete that overwrote files before the container's name *)
(* was on the medium.  sync_all before the rename is what this rests on.   *)
LossNeedsExposure == NoDataLoss \/ exposed

=============================================================================

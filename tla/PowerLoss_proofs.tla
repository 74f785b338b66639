-------------------------- MODULE PowerLoss_proofs ---------------------------
(***************************************************************************)
(* Proof that FolderVault processes that run one after another lose data   *)
(* to a power failure only after an exposure.                              *)
(*                                                                         *)
(* IInv of VaultInv speaks of the user's data and does not survive a loss; *)
(* but the system may write everything back and be sound again.  So the    *)
(* invariant has two layers.  Shape never mentions the data: it says how   *)
(* paths, records and steps fit together and holds whatever was lost.      *)
(* With Shape, NoDataLoss and ReplayPremise give IInv back.  Sound says    *)
(* that, without exposure, IInv holds of the disk as processes see it and  *)
(* its counterpart of every disk a power failure may leave.                *)
(***************************************************************************)
EXTENDS PowerLoss, VaultOps_proofs

-----------------------------------------------------------------------------
(* Shape: the disk as processes see it *)

Closed(c) == c.toc \subseteq c.files /\ c.files \subseteq c.toc

(* A container is whole and lists all that is in the folder beside it. *)
ContainerFits ==
    cont # Absent => Closed(cont) /\ FilesIn(folder) \subseteq cont.toc

(* Under an unlock record, a staging folder means the rename is to come. *)
StagedUnlock ==
    \A u \in Uuids : journal[u] = "unlock" /\ restoring # Absent
                        => folder = Absent /\ cont # Absent

LockShape(p) ==
    /\ pc[p] \in {"lClean", "lScan", "lCreate", "lCopy"} => cont = Absent
    /\ pc[p] \in {"lCreate", "lCopy"} => folder # Absent
    /\ pc[p] = "lCreate" => FilesIn(folder) \subseteq left[p]
    /\ pc[p] = "lCopy" =>
         /\ my[p] \in Uuids
         /\ tmp # Absent /\ tmp.uuid = my[p]
         /\ FilesIn(folder) \subseteq tmp.toc
         /\ tmp.toc \subseteq tmp.files \cup left[p]
         /\ tmp.files \cup left[p] \subseteq tmp.toc
    /\ Committing(p) /\ cmd[p] = "lock" =>
         /\ cont = Absent /\ folder # Absent
         /\ tmp # Absent /\ tmp.uuid = my[p] /\ Closed(tmp)
         /\ FilesIn(folder) \subseteq tmp.toc
    /\ pc[p] \in {"lDelete", "lGuard"} => cont # Absent /\ my[p] \in Uuids

UnlockShape(p) ==
    /\ pc[p] = "rUnlockFinish" => restoring = Absent
    /\ pc[p] \in {"auth", "uOpen", "uClean", "uMkdir", "uExtract"} => cont # Absent
    /\ pc[p] \in {"uClean", "uMkdir", "uExtract"} => folder = Absent
    /\ pc[p] \in {"uOpen", "uClean", "uMkdir"} => left[p] = cont.toc
    /\ pc[p] \in {"uOpen", "uClean", "uMkdir", "uExtract"} => my[p] \in Uuids
    /\ pc[p] = "uExtract" => restoring # Absent /\ restoring \cup left[p] = cont.toc
    /\ Committing(p) /\ cmd[p] = "unlock" =>
         folder = Absent /\ cont # Absent /\ restoring # Absent /\ restoring = cont.toc
    /\ pc[p] = "uRecycle" =>
         /\ my[p] \in Uuids /\ restoring = Absent
         /\ cont # Absent /\ folder # Absent /\ folder = cont.toc

Shape ==
    /\ ContainerFits
    /\ StagedUnlock
    /\ RecordsDoNotMix
    /\ \A p \in Procs :
         RecoverInv(p) /\ CommandInv(p) /\ LockShape(p) /\ UnlockShape(p)

-----------------------------------------------------------------------------
(* The medium *)

Media == [folder: {Absent} \cup SUBSET Files, tmp: {Absent} \cup Container,
          cont: {Absent} \cup Container, restoring: {Absent} \cup SUBSET Files,
          journal: [Uuids -> RecordKinds], softR: SUBSET Files, softF: SUBSET Files]

MediumOK ==
    /\ platter \in Media
    /\ synced \subseteq Uuids
    /\ softR \subseteq Files /\ softF \subseteq Files /\ wiped \subseteq Files
    /\ exposed \in BOOLEAN

LockCommits(p) == Committing(p) /\ cmd[p] = "lock"

(* The bytes of a container that has its name are on the medium. *)
Persisted ==
    /\ cont # Absent => cont.uuid \in synced
    /\ platter.cont # Absent => platter.cont.uuid \in synced
    /\ \A p \in Procs : LockCommits(p) => my[p] \in synced

(* Shape, of the names on the medium; and since sync_all of a lock no      *)
(* unlock record is left there.                                            *)
PlatterShape ==
    /\ platter.cont # Absent =>
         Closed(platter.cont) /\ FilesIn(platter.folder) \subseteq platter.cont.toc
    /\ \A u \in Uuids : platter.journal[u] = "unlock" /\ platter.restoring # Absent
                          => platter.folder = Absent /\ platter.cont # Absent
    /\ \A u, v \in Uuids : ~(platter.journal[u] = "lock" /\ platter.journal[v] = "unlock")
    /\ \A p \in Procs : pc[p] = "lDelete" \/ LockCommits(p)
                          => \A u \in Uuids : platter.journal[u] # "unlock"

(* What is being zeroed has left the folder. *)
WipedIsGone == wiped \cap FilesIn(folder) = {}

MediumShape == Persisted /\ PlatterShape /\ WipedIsGone

-----------------------------------------------------------------------------
(* Sound: nothing is lost now, and nothing with the power *)

PlatterSafe ==
    /\ IF platter.cont # Absent THEN data \subseteq platter.cont.toc
                                ELSE data \subseteq FilesIn(platter.folder) \ wiped
    /\ \A u \in Uuids : platter.journal[u] = "unlock" =>
         platter.folder = Absent \/ data \subseteq platter.folder \ wiped

Sound == IInv /\ PlatterSafe /\ softF = {} /\ platter.softF = {}

PInv == TypeOK /\ MediumOK /\ Shape /\ MediumShape /\ (~exposed => Sound)

-----------------------------------------------------------------------------
(* With Shape, NoDataLoss and ReplayPremise give back all of IInv. *)

LEMMA ShapeIsSound ==
    ASSUME TypeOK, Shape, NoDataLoss, ReplayPremise
    PROVE  IInv
  <1> USE DEF Shape
  <1>1. cont # Absent => data \subseteq cont.toc /\ Whole(cont)
    BY DEF ContainerFits, Closed, NoDataLoss, Whole
  <1>2. cont = Absent => data \subseteq FilesIn(folder)
    BY DEF NoDataLoss
  <1>3. DataSafe
    BY <1>1, <1>2 DEF DataSafe
  <1>4. UnlockRecordSafe
    BY <1>2 DEF StagedUnlock, ReplayPremise, UnlockRecordSafe, FilesIn
  <1>5. ASSUME NEW p \in Procs PROVE LockInv(p)
    BY <1>2 DEF LockShape, LockInv, Committing, Closed, Whole
  <1>6. ASSUME NEW p \in Procs PROVE UnlockInv(p)
    BY <1>1 DEF UnlockShape, UnlockInv, Committing
  <1> QED BY <1>3, <1>4, <1>5, <1>6 DEF IInv

-----------------------------------------------------------------------------
(* Shape is preserved by every step of VaultOps. *)

LEMMA LeaveShape ==
    ASSUME Serial, TypeOK, NEW p \in Procs, Leave(p),
           ContainerFits', StagedUnlock', RecordsDoNotMix'
    PROVE  Shape'
  BY DEF Serial, TypeOK, Leave, Shape, RecoverInv, CommandInv, LockShape, UnlockShape,
         Committing, RecoverSteps, LockSteps, UnlockSteps, SharedSteps

LEMMA RecoverShape ==
    ASSUME Serial, TypeOK, Shape, NEW p \in Procs, Recover(p)
    PROVE  Shape'
  <1> USE DEF Serial, TypeOK, Shape, ContainerFits, StagedUnlock, RecordsDoNotMix,
              RecoverInv, CommandInv, LockShape, UnlockShape, Committing,
              RecoverSteps, LockSteps, UnlockSteps, SharedSteps, Goto, Fail
  <1>1. CASE RecoverRecord(p)
    BY <1>1 DEF RecoverRecord, FilesIn, disk
  <1>2. CASE RecoverDone(p)
    BY <1>2 DEF RecoverDone, disk
  <1>3. CASE ReplayLock(p)
    <2>1. pc[p] = "rLock" /\ UNCHANGED <<disk, data, locals>>
      BY <1>3 DEF ReplayLock
    <2>2. CASE Goto(p, "rLock", "rLockUnstage")
      BY <2>1, <2>2 DEF disk, locals
    <2>3. CASE Goto(p, "rLock", "rLockFinish") /\ cont # Absent
      BY <2>1, <2>3 DEF disk, locals
    <2>4. CASE Goto(p, "rLock", "rDrop")
      BY <2>1, <2>4 DEF disk, locals
    <2> HIDE DEF Goto
    <2> QED BY <1>3, <2>2, <2>3, <2>4 DEF ReplayLock
  <1>4. CASE RollBackLock(p)
    BY <1>4 DEF RollBackLock, locals
  <1>5. CASE FinishLock(p)
    BY <1>5, AbsentAssumption DEF FinishLock, RemoveFolder, FilesIn, locals
  <1>6. CASE ReplayUnlock(p)
    BY <1>6 DEF ReplayUnlock, disk, locals
  <1>7. CASE RollBackUnlock(p)
    BY <1>7, AbsentAssumption DEF RollBackUnlock, RemoveRestoring, FilesIn, locals
  <1>8. CASE FinishUnlock(p)
    <2>1. CASE cont' = Absent
      BY <1>8, <2>1 DEF FinishUnlock, locals
    <2>2. CASE cont' = SetReadonly(cont, FALSE)
      <3>1. SameContainer BY <2>2, SetReadonlySame
      <3> QED BY <1>8, <3>1 DEF FinishUnlock, SameContainer, Closed, locals
    <2> QED BY <1>8, <2>1, <2>2 DEF FinishUnlock
  <1>9. CASE DropRecord(p)
    BY <1>9 DEF DropRecord, locals
  <1> QED BY <1>1, <1>2, <1>3, <1>4, <1>5, <1>6, <1>7, <1>8, <1>9 DEF Recover

LEMMA LockKeepsShape ==
    ASSUME Serial, TypeOK, Shape, NEW p \in Procs, Lock(p)
    PROVE  Shape'
  <1> USE DEF Serial, TypeOK, Shape, ContainerFits, StagedUnlock, RecordsDoNotMix,
              RecoverInv, CommandInv, LockShape, UnlockShape, Committing,
              RecoverSteps, LockSteps, UnlockSteps, SharedSteps, Goto, Fail
  <1>1. CASE LockExists(p)
    BY <1>1 DEF LockExists, disk, locals
  <1>2. CASE LockClean(p)
    BY <1>2 DEF LockClean, locals
  <1>3. CASE LockScan(p)
    BY <1>3 DEF LockScan, disk
  <1>4. CASE LockCreate(p)
    <2> PICK u \in Uuids : LockCreate(p)!(u)
      BY <1>4 DEF LockCreate
    <2>1. left[p] \in SUBSET Files
      OBVIOUS
    <2>2. tmp' \in Container
      BY <2>1 DEF Container
    <2>3. tmp' # Absent
      BY <2>2, AbsentAssumption
    <2> QED BY <2>3
  <1>5. CASE LockCopy(p)
    <2> PICK f \in left[p] \cap FilesIn(folder) : LockCopy(p)!(f)
      BY <1>5 DEF LockCopy
    <2>1. cont = Absent /\ cont' = Absent
      BY DEF AppendTo
    <2>2. tmp' = [tmp EXCEPT !.files = @ \cup {f}] /\ tmp \in Container
      BY DEF AppendTo
    <2>3. tmp' \in Container /\ tmp'.uuid = tmp.uuid /\ tmp'.toc = tmp.toc
          /\ tmp'.files = tmp.files \cup {f}
      BY <2>2 DEF Container
    <2>4. tmp' # Absent
      BY <2>3, AbsentAssumption
    <2> QED BY <2>1, <2>3, <2>4
  <1>6. CASE LockSync(p)
    BY <1>6 DEF LockSync, Closed, disk, locals
  <1>7. CASE LockWriteFails(p)
    BY <1>7 DEF LockWriteFails, locals
  <1>8. CASE LockRename(p)
    BY <1>8 DEF LockRename, locals
  <1>9. CASE LockDelete(p)
    BY <1>9, AbsentAssumption DEF LockDelete, RemoveFolder, FilesIn, locals
  <1>10. CASE LockGuard(p)
    <2>1. SameContainer
      BY <1>10, SetReadonlySame DEF LockGuard, SameContainer
    <2> QED BY <1>10, <2>1 DEF LockGuard, SameContainer, Closed, locals
  <1> QED
    BY <1>1, <1>2, <1>3, <1>4, <1>5, <1>6, <1>7, <1>8, <1>9, <1>10 DEF Lock

LEMMA AuthorizeKeepsShape ==
    ASSUME Serial, TypeOK, Shape, NEW p \in Procs, Authorize(p)
    PROVE  Shape'
  <1> USE DEF Serial, TypeOK, Shape, ContainerFits, StagedUnlock, RecordsDoNotMix,
              RecoverInv, CommandInv, LockShape, UnlockShape, Committing,
              RecoverSteps, LockSteps, UnlockSteps, SharedSteps, Goto, Fail
  <1>1. CASE OpenContainer(p)
    <2>1. SameContainer
      BY <1>1, SetReadonlySame DEF OpenContainer
    <2>2. ContainerFits'
      BY <1>1, <2>1 DEF OpenContainer, SameContainer, Closed
    <2>3. /\ pc' = [pc EXCEPT ![p] = "auth"]
          /\ cont' # Absent
          /\ UNCHANGED <<folder, restoring, journal, data, cmd>>
      BY <1>1, <2>1 DEF OpenContainer, SameContainer
    <2>4. cmd[p] \in {"unlock", "delete"}
          /\ \A u \in Uuids : journal[u] \in {"none", "torn", cmd[p]}
      BY <1>1 DEF OpenContainer
    <2> QED BY <2>2, <2>3, <2>4
  <1>2. CASE OpenFails(p)
    BY <1>2 DEF OpenFails, disk, locals
  <1>3. CASE Authorized(p)
    <2>1. cont.uuid \in Uuids
      BY <1>3 DEF Container, Authorized
    <2>2. my'[p] \in Uuids
      BY <1>3, <2>1 DEF Authorized
    <2>3. CASE cmd[p] = "unlock"
      <3>1. pc'[p] = "uOpen" /\ left'[p] = cont.toc
        BY <1>3, <2>3 DEF Authorized
      <3> QED BY <1>3, <2>2, <2>3, <3>1 DEF Authorized, disk
    <2>4. CASE cmd[p] # "unlock"
      BY <1>3, <2>2, <2>4 DEF Authorized, disk
    <2> QED BY <2>3, <2>4
  <1>4. CASE Denied(p)
    <2>1. SameContainer
      BY <1>4, RearmSame DEF Denied
    <2> QED BY <1>4, <2>1 DEF Denied, SameContainer, Closed, locals
  <1>5. CASE AuthorizeIoError(p)
    BY <1>5 DEF AuthorizeIoError, disk, locals
  <1> QED BY <1>1, <1>2, <1>3, <1>4, <1>5 DEF Authorize

LEMMA UnlockKeepsShape ==
    ASSUME Serial, TypeOK, Shape, NEW p \in Procs, Unlock(p)
    PROVE  Shape'
  <1> USE DEF Serial, TypeOK, Shape, ContainerFits, StagedUnlock, RecordsDoNotMix,
              RecoverInv, CommandInv, LockShape, UnlockShape, Committing,
              RecoverSteps, LockSteps, UnlockSteps, SharedSteps, Goto, Fail
  <1>1. CASE UnlockExists(p)
    BY <1>1 DEF UnlockExists, disk, locals
  <1>2. CASE UnlockBails(p)
    <2>1. SameContainer
      BY <1>2, RearmSame DEF UnlockBails
    <2> QED BY <1>2, <2>1 DEF UnlockBails, SameContainer, Closed, locals
  <1>3. CASE UnlockClean(p)
    BY <1>3, AbsentAssumption DEF UnlockClean, RemoveRestoring, FilesIn, locals
  <1>4. CASE UnlockMkdir(p)
    BY <1>4, AbsentAssumption DEF UnlockMkdir, locals
  <1>5. CASE UnlockExtract(p)
    <2> PICK f \in left[p] \cap held[p] : UnlockExtract(p)!(f)
      BY <1>5 DEF UnlockExtract
    <2>1. restoring' = restoring \cup {f} /\ restoring' \in SUBSET Files
      BY DEF FilesIn
    <2>2. restoring' # Absent
      BY <2>1, AbsentAssumption
    <2>3. restoring' \cup left'[p] = cont.toc
      BY <2>1
    <2> QED BY <2>2, <2>3
  <1>6. CASE UnlockExtractFails(p)
    <2>1. SameContainer
      BY <1>6, RearmSame DEF UnlockExtractFails
    <2> QED BY <1>6, <2>1 DEF UnlockExtractFails, SameContainer, Closed, locals
  <1>7. CASE UnlockExtracted(p)
    <2>1. left[p] = {} /\ restoring # Absent /\ restoring \cup left[p] = cont.toc
          /\ folder = Absent /\ cont # Absent /\ my[p] \in Uuids /\ cmd[p] = "unlock"
      BY <1>7 DEF UnlockExtracted
    <2>2. restoring = cont.toc
      BY <2>1
    <2>3. pc' = [pc EXCEPT ![p] = "begin"] /\ UNCHANGED <<disk, data, locals>>
      BY <1>7 DEF UnlockExtracted
    <2>4. pc'[p] = "begin" /\ \A q \in Procs : q = p
      BY <2>3
    <2>5. UNCHANGED <<folder, tmp, cont, restoring, journal, data, cmd, my, left, todo>>
      BY <2>3 DEF disk, locals
    <2>6. ContainerFits' /\ StagedUnlock' /\ RecordsDoNotMix'
      BY <2>5
    <2>7. RecoverInv(p)' /\ CommandInv(p)'
      BY <2>1, <2>4, <2>5, <1>7 DEF UnlockExtracted
    <2>8. LockShape(p)' /\ UnlockShape(p)'
      BY <2>1, <2>2, <2>4, <2>5
    <2> HIDE DEF ContainerFits, StagedUnlock, RecordsDoNotMix, RecoverInv, CommandInv,
                 LockShape, UnlockShape
    <2> QED BY <2>4, <2>6, <2>7, <2>8
  <1>8. CASE UnlockRename(p)
    BY <1>8 DEF UnlockRename, FilesIn, locals
  <1>9. CASE UnlockRecycle(p)
    <2>1. CASE cont # Absent /\ cont' = Absent /\ Goto(p, "uRecycle", "complete")
      BY <1>9, <2>1 DEF UnlockRecycle, locals
    <2>2. CASE cont' = SetReadonly(cont, FALSE) /\ Fail(p, "uRecycle")
      <3>1. SameContainer BY <2>2, SetReadonlySame
      <3>2. /\ Fail(p, "uRecycle")
            /\ UNCHANGED <<folder, tmp, restoring, journal, data, locals>>
        BY <1>9, <2>2 DEF UnlockRecycle
      <3>3. ContainerFits' /\ StagedUnlock'
        BY <3>1, <3>2 DEF SameContainer, Closed
      <3> QED BY <3>2, <3>3 DEF locals
    <2> QED BY <1>9, <2>1, <2>2 DEF UnlockRecycle
  <1> QED
    BY <1>1, <1>2, <1>3, <1>4, <1>5, <1>6, <1>7, <1>8, <1>9 DEF Unlock

LEMMA DeleteKeepsShape ==
    ASSUME Serial, TypeOK, Shape, NEW p \in Procs, Delete(p)
    PROVE  Shape'
  <1> USE DEF Serial, TypeOK, Shape, ContainerFits, StagedUnlock, RecordsDoNotMix,
              RecoverInv, CommandInv, LockShape, UnlockShape, Committing,
              RecoverSteps, LockSteps, UnlockSteps, SharedSteps, Goto, Fail
  <1>1. CASE DeleteRecycle(p)
    <2>1. ContainerFits' /\ StagedUnlock' /\ RecordsDoNotMix'
      BY <1>1 DEF DeleteRecycle
    <2> QED BY <1>1, <2>1, LeaveShape DEF DeleteRecycle
  <1>2. CASE DeleteFails(p)
    <2>1. SameContainer
      BY <1>2, SetReadonlySame DEF DeleteFails
    <2> QED BY <1>2, <2>1 DEF DeleteFails, SameContainer, Closed, locals
  <1> QED BY <1>1, <1>2 DEF Delete

LEMMA JournalingKeepsShape ==
    ASSUME Serial, TypeOK, Shape, NEW p \in Procs, Journaling(p)
    PROVE  Shape'
  <1> USE DEF Serial, TypeOK, Shape, ContainerFits, StagedUnlock, RecordsDoNotMix,
              RecoverInv, CommandInv, LockShape, UnlockShape, Committing,
              RecoverSteps, LockSteps, UnlockSteps, SharedSteps, Goto, Fail
  <1>1. CASE JournalCreate(p)
    BY <1>1 DEF JournalCreate, locals
  <1>2. CASE JournalWrite(p)
    BY <1>2 DEF JournalWrite, OpKind, locals
  <1>3. CASE CommitFails(p)
    BY <1>3 DEF CommitFails, disk, locals
  <1>4. CASE Complete(p)
    <2>1. ContainerFits' /\ StagedUnlock' /\ RecordsDoNotMix'
      BY <1>4 DEF Complete
    <2> QED BY <1>4, <2>1, LeaveShape DEF Complete
  <1>5. CASE Unjournaled(p)
    BY <1>5 DEF Unjournaled, disk, locals
  <1> QED BY <1>1, <1>2, <1>3, <1>4, <1>5 DEF Journaling

LEMMA NextShape ==
    ASSUME Serial, TypeOK, Shape, [Next]_vars
    PROVE  Shape'
  <1> USE DEF Serial, TypeOK, Shape, ContainerFits, StagedUnlock, RecordsDoNotMix,
              RecoverInv, CommandInv, LockShape, UnlockShape, Committing,
              RecoverSteps, LockSteps, UnlockSteps, SharedSteps, Goto, Fail
  <1>1. ASSUME NEW p \in Procs, Start(p) PROVE Shape'
    BY <1>1 DEF Start, disk
  <1>2. ASSUME NEW p \in Procs, Step(p) PROVE Shape'
    BY <1>2, RecoverShape, LockKeepsShape, AuthorizeKeepsShape, UnlockKeepsShape,
       DeleteKeepsShape, JournalingKeepsShape DEF Step
  <1>3. ASSUME NEW p \in Procs, Retry(p) PROVE Shape'
    BY <1>3 DEF Retry, disk
  <1>4. ASSUME NEW p \in Procs, Exit(p) \/ Crash(p) PROVE Shape'
    <2>1. UNCHANGED <<disk, data>> /\ Leave(p)
      BY <1>4 DEF Exit, Crash
    <2>2. ContainerFits' /\ StagedUnlock' /\ RecordsDoNotMix'
      BY <2>1 DEF disk
    <2> QED BY <2>1, <2>2, LeaveShape
  <1>5. CASE NewFolder
    BY <1>5 DEF NewFolder, locals
  <1>6. CASE UNCHANGED vars
    BY <1>6 DEF vars, disk, locals
  <1> QED BY <1>1, <1>2, <1>3, <1>4, <1>5, <1>6 DEF Next

LEMMA InitShape == Init => Shape
  BY AbsentAssumption
  DEF Init, Shape, ContainerFits, StagedUnlock, RecordsDoNotMix, RecoverInv, CommandInv,
      LockShape, UnlockShape, Committing, RecoverSteps, LockSteps, UnlockSteps, SharedSteps,
      Closed, FilesIn

-----------------------------------------------------------------------------
(* What the steps of a command carry over that the medium depends on. *)

Carries(p) ==
    /\ data' \subseteq data
    /\ cont' # Absent => \/ cont # Absent /\ cont'.uuid = cont.uuid
                         \/ LockCommits(p) /\ cont'.uuid = my[p]
    /\ \A q \in Procs : LockCommits(q)' => LockCommits(q) /\ my'[q] = my[q]
    /\ \A q \in Procs : pc'[q] = "lDelete" => pc[q] = "lDelete" \/ LockCommits(q)

LEMMA SameContainerCarries ==
    ASSUME SameContainer
    PROVE  cont' # Absent => cont # Absent /\ cont'.uuid = cont.uuid
  BY DEF SameContainer

LEMMA RecoverCarries ==
    ASSUME TypeOK, Serial, NEW p \in Procs, Recover(p)
    PROVE  Carries(p) /\ FilesIn(folder') \subseteq FilesIn(folder)
  <1> USE DEF Serial, TypeOK, Carries, LockCommits, Committing, Goto
  <1>1. CASE FinishUnlock(p)
    <2>1. cont' = Absent \/ SameContainer
      BY <1>1, SetReadonlySame DEF FinishUnlock
    <2> QED BY <1>1, <2>1, SameContainerCarries DEF FinishUnlock, locals
  <1>2. CASE FinishLock(p)
    BY <1>2 DEF FinishLock, RemoveFolder, FilesIn, locals
  <1>3. CASE RollBackUnlock(p)
    BY <1>3 DEF RollBackUnlock, RemoveRestoring, locals
  <1>4. CASE RecoverRecord(p) \/ RecoverDone(p)
    BY <1>4 DEF RecoverRecord, RecoverDone, disk
  <1>5. CASE ReplayLock(p)
    <2>1. \E l \in {"rLockUnstage", "rLockFinish", "rDrop"} : Goto(p, "rLock", l)
      BY <1>5 DEF ReplayLock
    <2> QED BY <1>5, <2>1 DEF ReplayLock, disk, locals
  <1>6. CASE RollBackLock(p) \/ ReplayUnlock(p) \/ DropRecord(p)
    BY <1>6 DEF RollBackLock, ReplayUnlock, DropRecord, disk, locals
  <1> QED BY <1>1, <1>2, <1>3, <1>4, <1>5, <1>6 DEF Recover

LEMMA LockCarries ==
    ASSUME TypeOK, Shape, Serial, NEW p \in Procs, Lock(p), ~LockSync(p)
    PROVE  Carries(p) /\ FilesIn(folder') \subseteq FilesIn(folder)
  <1> USE DEF Serial, TypeOK, Carries, LockCommits, Committing, Goto, Fail
  <1>1. CASE LockExists(p) \/ LockClean(p) \/ LockScan(p) \/ LockCreate(p) \/ LockWriteFails(p)
    BY <1>1 DEF LockExists, LockClean, LockScan, LockCreate, LockWriteFails, disk, locals
  <1>2. CASE LockCopy(p)
    <2>1. cont = Absent /\ cont' = Absent
      BY <1>2 DEF LockCopy, Shape, LockShape, AppendTo
    <2> QED BY <1>2, <2>1 DEF LockCopy
  <1>3. CASE LockRename(p)
    BY <1>3 DEF LockRename, Shape, LockShape, locals
  <1>4. CASE LockDelete(p)
    BY <1>4 DEF LockDelete, RemoveFolder, FilesIn, locals
  <1>5. CASE LockGuard(p)
    <2>1. SameContainer
      BY <1>5, SetReadonlySame DEF LockGuard, SameContainer
    <2> QED BY <1>5, <2>1, SameContainerCarries DEF LockGuard, locals
  <1> QED BY <1>1, <1>2, <1>3, <1>4, <1>5 DEF Lock

LEMMA AuthorizeCarries ==
    ASSUME TypeOK, Serial, NEW p \in Procs, Authorize(p)
    PROVE  Carries(p) /\ FilesIn(folder') \subseteq FilesIn(folder)
  <1> USE DEF Serial, TypeOK, Carries, LockCommits, Committing, Goto, Fail
  <1>1. CASE OpenContainer(p)
    <2>1. SameContainer
      BY <1>1, SetReadonlySame DEF OpenContainer
    <2> QED BY <1>1, <2>1, SameContainerCarries DEF OpenContainer
  <1>2. CASE Denied(p)
    <2>1. SameContainer
      BY <1>2, RearmSame DEF Denied
    <2> QED BY <1>2, <2>1, SameContainerCarries DEF Denied, locals
  <1>3. CASE OpenFails(p) \/ Authorized(p) \/ AuthorizeIoError(p)
    BY <1>3 DEF OpenFails, Authorized, AuthorizeIoError, disk, locals
  <1> QED BY <1>1, <1>2, <1>3 DEF Authorize

LEMMA UnlockCarries ==
    ASSUME TypeOK, Shape, Serial, NEW p \in Procs, Unlock(p)
    PROVE  /\ Carries(p)
           /\ UnlockRename(p) \/ FilesIn(folder') \subseteq FilesIn(folder)
  <1> USE DEF Serial, TypeOK, Carries, LockCommits, Committing, Goto, Fail
  <1>1. CASE UnlockExists(p) \/ UnlockClean(p) \/ UnlockMkdir(p) \/ UnlockExtract(p)
    BY <1>1 DEF UnlockExists, UnlockClean, RemoveRestoring, UnlockMkdir, UnlockExtract, disk, locals
  <1>2. CASE UnlockExtracted(p)
    <2>1. cmd[p] = "unlock" /\ UNCHANGED <<disk, data, locals>>
      BY <1>2 DEF UnlockExtracted, Shape, CommandInv, UnlockSteps
    <2> QED BY <1>2, <2>1 DEF UnlockExtracted, disk, locals
  <1>3. CASE UnlockBails(p) \/ UnlockExtractFails(p)
    <2>1. SameContainer
      BY <1>3, RearmSame DEF UnlockBails, UnlockExtractFails
    <2> QED BY <1>3, <2>1, SameContainerCarries DEF UnlockBails, UnlockExtractFails, locals
  <1>4. CASE UnlockRename(p)
    BY <1>4 DEF UnlockRename, locals
  <1>5. CASE UnlockRecycle(p)
    <2>1. cont' = Absent \/ SameContainer
      BY <1>5, SetReadonlySame DEF UnlockRecycle
    <2> QED BY <1>5, <2>1, SameContainerCarries DEF UnlockRecycle, locals
  <1> QED BY <1>1, <1>2, <1>3, <1>4, <1>5 DEF Unlock

LEMMA LeaveCarries ==
    ASSUME TypeOK, Serial, NEW p \in Procs, Leave(p), data' \subseteq data,
           cont' # Absent => cont' = cont
    PROVE  Carries(p)
  BY DEF Serial, TypeOK, Carries, LockCommits, Committing, Leave

LEMMA OtherCarries ==
    ASSUME TypeOK, Serial, NEW p \in Procs,
           \/ Delete(p) \/ Journaling(p) \/ Start(p) \/ Retry(p) \/ Exit(p) \/ Crash(p)
    PROVE  Carries(p) /\ FilesIn(folder') \subseteq FilesIn(folder)
  <1> USE DEF Serial, TypeOK, Goto, Fail
  <1>1. CASE DeleteRecycle(p) \/ Complete(p) \/ Exit(p) \/ Crash(p)
    BY <1>1, LeaveCarries DEF DeleteRecycle, Complete, Exit, Crash, disk
  <1>2. CASE DeleteFails(p)
    <2>1. SameContainer
      BY <1>2, SetReadonlySame DEF DeleteFails
    <2> QED BY <1>2, <2>1, SameContainerCarries
            DEF DeleteFails, Carries, LockCommits, Committing, locals
  <1>3. CASE JournalCreate(p) \/ JournalWrite(p) \/ Unjournaled(p) \/ CommitFails(p)
    BY <1>3 DEF JournalCreate, JournalWrite, Unjournaled, CommitFails,
       Carries, LockCommits, Committing, disk, locals
  <1>4. CASE Start(p) \/ Retry(p)
    BY <1>4 DEF Start, Retry, Carries, LockCommits, Committing, disk
  <1> QED BY <1>1, <1>2, <1>3, <1>4 DEF Delete, Journaling

-----------------------------------------------------------------------------
(* The medium after a flush, and while it is left alone *)

LEMMA FlushedShape ==
    ASSUME TypeOK', Shape', softR' \subseteq Files, softF' \subseteq Files, platter' = Names'
    PROVE  platter' \in Media /\ PlatterShape'
  <1>1. /\ platter'.folder = folder' /\ platter'.tmp = tmp' /\ platter'.cont = cont'
        /\ platter'.restoring = restoring' /\ platter'.journal = journal'
        /\ platter'.softR = softR' /\ platter'.softF = softF'
    BY DEF Names
  <1>2. platter' \in Media
    BY DEF Names, Media, TypeOK
  <1>3. /\ ContainerFits' /\ StagedUnlock' /\ RecordsDoNotMix'
        /\ \A p \in Procs : CommandInv(p)'
    BY DEF Shape
  <1>4. ASSUME NEW p \in Procs, (pc[p] = "lDelete" \/ LockCommits(p))', NEW u \in Uuids
        PROVE  journal'[u] # "unlock"
    <2>1. pc'[p] \notin {"off"} \cup RecoverSteps /\ cmd'[p] = "lock"
      BY <1>3, <1>4 DEF LockCommits, Committing, CommandInv, LockSteps, RecoverSteps
    <2> QED BY <1>3, <2>1 DEF CommandInv
  <1>5. PlatterShape'
    BY <1>1, <1>3, <1>4 DEF PlatterShape, ContainerFits, StagedUnlock, RecordsDoNotMix, FilesIn
  <1> QED BY <1>2, <1>5

LEMMA FlushedSafe ==
    ASSUME IInv', WipedIsGone', softF' = {}, platter' = Names'
    PROVE  PlatterSafe' /\ platter'.softF = {}
  <1>1. /\ platter'.folder = folder' /\ platter'.cont = cont' /\ platter'.journal = journal'
        /\ platter'.softF = softF'
    BY DEF Names
  <1>2. DataSafe' /\ UnlockRecordSafe'
    BY DEF IInv
  <1> QED BY <1>1, <1>2 DEF PlatterSafe, DataSafe, UnlockRecordSafe, WipedIsGone, FilesIn

(* A step of a command during which neither the names nor the bytes on the *)
(* medium change.                                                          *)
LEMMA QuietStep ==
    ASSUME PInv, TypeOK', Shape', NEW p \in Procs, Carries(p),
           FilesIn(folder') \subseteq FilesIn(folder), UNCHANGED <<platter, synced, wiped>>
    PROVE  /\ MediumShape'
           /\ PlatterSafe => PlatterSafe'
  <1>1. Persisted'
    BY DEF PInv, MediumShape, Persisted, Carries
  <1>2. PlatterShape'
    BY DEF PInv, MediumShape, PlatterShape, Carries
  <1>3. WipedIsGone'
    BY DEF PInv, MediumShape, WipedIsGone
  <1>4. PlatterSafe => PlatterSafe'
    BY DEF PlatterSafe, Carries
  <1> QED BY <1>1, <1>2, <1>3, <1>4 DEF MediumShape

(* From the parts to the whole: a step of VaultOps that exposes nothing. *)
LEMMA VaultStep ==
    ASSUME Serial, PInv, [Next]_vars
    PROVE  TypeOK' /\ Shape' /\ (IInv => IInv')
  <1>1. TypeOK /\ Shape
    BY DEF PInv
  <1>2. TypeOK' /\ Shape'
    BY <1>1, NextTypes, NextShape
  <1>3. IInv => IInv'
    BY <1>1, NextKeeps
  <1> QED BY <1>2, <1>3

LEMMA PlainKeeps ==
    ASSUME Serial, PInv, NEW p \in Procs, Plain(p)
    PROVE  PInv'
  <1>1. [Next]_vars
    BY DEF Plain, Next, Step, Lock, Unlock, Journaling
  <1>2. Carries(p) /\ FilesIn(folder') \subseteq FilesIn(folder)
    <2> USE DEF PInv
    <2>0. TypeOK /\ Shape
      OBVIOUS
    <2>1. CASE Recover(p)
      BY <2>0, <2>1, RecoverCarries
    <2>2. CASE Authorize(p)
      BY <2>0, <2>2, AuthorizeCarries
    <2>3. CASE \/ LockExists(p) \/ LockClean(p) \/ LockScan(p) \/ LockCopy(p)
               \/ LockWriteFails(p) \/ LockRename(p) \/ LockGuard(p)
      <3>1. ~LockSync(p)
        BY <2>0, <2>3 DEF TypeOK, LockExists, LockClean, LockScan, LockCopy, LockWriteFails,
           LockRename, LockGuard, LockSync, Goto, Fail
      <3> QED BY <2>0, <2>3, <3>1, LockCarries DEF Lock
    <2>4. CASE \/ UnlockExists(p) \/ UnlockBails(p) \/ UnlockClean(p)
               \/ UnlockExtractFails(p) \/ UnlockExtracted(p) \/ UnlockRecycle(p)
      <3>1. ~UnlockRename(p)
        BY <2>0, <2>4 DEF TypeOK, UnlockExists, UnlockBails, UnlockClean, RemoveRestoring,
           UnlockExtractFails, UnlockExtracted, UnlockRecycle, UnlockRename, Goto, Fail
      <3> QED BY <2>0, <2>4, <3>1, UnlockCarries DEF Unlock
    <2>5. CASE \/ Delete(p) \/ JournalCreate(p) \/ Unjournaled(p) \/ CommitFails(p)
               \/ Complete(p) \/ Start(p) \/ Retry(p) \/ Exit(p) \/ Crash(p)
      BY <2>0, <2>5, OtherCarries DEF Journaling
    <2> QED BY <2>1, <2>2, <2>3, <2>4, <2>5 DEF Plain
  <1>3. UNCHANGED medium
    BY DEF Plain
  <1>4. TypeOK' /\ Shape' /\ (IInv => IInv')
    BY <1>1, VaultStep
  <1>5. MediumShape' /\ (PlatterSafe => PlatterSafe')
    BY <1>2, <1>3, <1>4, QuietStep DEF medium
  <1>6. MediumOK' /\ (~exposed' => Sound')
    BY <1>3, <1>4, <1>5 DEF PInv, MediumOK, Sound, medium
  <1> QED BY <1>4, <1>5, <1>6 DEF PInv

-----------------------------------------------------------------------------
(* The steps that decide what is written when *)

LEMMA CreateKeeps ==
    ASSUME Serial, PInv, NEW p \in Procs, Create(p)
    PROVE  PInv'
  <1>1. TypeOK /\ Shape /\ MediumOK /\ MediumShape
    BY DEF PInv
  <1>2. LockCreate(p) /\ [Next]_vars
    BY DEF Create, Next, Step, Lock
  <1>3. TypeOK' /\ Shape' /\ (IInv => IInv')
    BY <1>2, VaultStep
  <1>4. ~LockSync(p)
    BY <1>1, <1>2 DEF LockCreate, LockSync, Goto, TypeOK
  <1>5. Carries(p) /\ FilesIn(folder') \subseteq FilesIn(folder)
    BY <1>1, <1>2, <1>4, LockCarries DEF Lock
  <1>6. cont = Absent /\ cont' = Absent /\ pc'[p] = "lCopy"
    BY <1>1, <1>2 DEF LockCreate, Shape, LockShape, Goto, TypeOK
  <1>7. synced' = synced \ {my'[p]} /\ UNCHANGED <<platter, softR, softF, wiped, exposed>>
    BY DEF Create
  <1>8. platter.cont # Absent => platter.cont.uuid # my'[p]
    BY DEF Create
  <1>9. Persisted'
    <2>1. \A q \in Procs : ~LockCommits(q)'
      BY <1>6 DEF Serial, LockCommits, Committing
    <2> QED BY <1>1, <1>6, <1>7, <1>8, <2>1 DEF MediumShape, Persisted
  <1>10. PlatterShape' /\ WipedIsGone' /\ (PlatterSafe => PlatterSafe')
    BY <1>1, <1>5, <1>7 DEF MediumShape, PlatterShape, WipedIsGone, PlatterSafe, Carries
  <1>11. MediumOK' /\ (~exposed' => Sound')
    BY <1>1, <1>3, <1>7, <1>10 DEF PInv, MediumOK, Sound
  <1> QED BY <1>3, <1>9, <1>10, <1>11 DEF PInv, MediumShape

LEMMA SyncKeeps ==
    ASSUME Serial, PInv, NEW p \in Procs, Sync(p)
    PROVE  PInv'
  <1>1. TypeOK /\ Shape /\ MediumOK /\ MediumShape
    BY DEF PInv
  <1>2. LockSync(p) /\ [Next]_vars
    BY DEF Sync, Next, Step, Lock
  <1>3. TypeOK' /\ Shape' /\ (IInv => IInv')
    BY <1>2, VaultStep
  <1>4. /\ synced' = synced \cup {my[p]} /\ wiped' = {} /\ UNCHANGED <<softR, softF, exposed>>
        /\ platter' = Names'
    BY DEF Sync
  <1>5. /\ pc[p] = "lCopy" /\ my[p] \in Uuids /\ cont = Absent /\ cont' = Absent
        /\ UNCHANGED my
    BY <1>1, <1>2 DEF LockSync, Shape, LockShape, Goto, disk, locals
  <1>6. platter' \in Media /\ PlatterShape'
    BY <1>1, <1>3, <1>4, FlushedShape DEF MediumOK
  <1>7. Persisted'
    <2>1. platter'.cont = Absent
      BY <1>4, <1>5 DEF Names
    <2>2. \A q \in Procs : q = p
      BY DEF Serial
    <2> QED BY <1>4, <1>5, <2>1, <2>2 DEF Persisted
  <1>8. WipedIsGone'
    BY <1>4 DEF WipedIsGone
  <1>9. MediumOK'
    BY <1>1, <1>4, <1>5, <1>6 DEF MediumOK
  <1>10. ASSUME ~exposed' PROVE Sound'
    <2>1. IInv' /\ softF' = {}
      BY <1>3, <1>4, <1>10 DEF PInv, Sound
    <2> QED BY <2>1, <1>4, <1>8, FlushedSafe DEF Sound
  <1> QED BY <1>3, <1>6, <1>7, <1>8, <1>9, <1>10 DEF PInv, MediumShape

LEMMA SyncRecordKeeps ==
    ASSUME Serial, PInv, NEW p \in Procs, SyncRecord(p)
    PROVE  PInv'
  <1>1. TypeOK /\ Shape /\ MediumOK /\ MediumShape
    BY DEF PInv
  <1>2. JournalWrite(p) /\ [Next]_vars
    BY DEF SyncRecord, Next, Step, Journaling
  <1>3. TypeOK' /\ Shape' /\ (IInv => IInv')
    BY <1>2, VaultStep
  <1>4. UNCHANGED <<synced, softR, softF, wiped, exposed>> /\ platter' = Names'
    BY DEF SyncRecord
  <1>5. Carries(p) /\ FilesIn(folder') \subseteq FilesIn(folder)
    BY <1>1, <1>2, OtherCarries DEF Journaling
  <1>6. platter' \in Media /\ PlatterShape'
    BY <1>1, <1>3, <1>4, FlushedShape DEF MediumOK
  <1>7. Persisted'
    <2>1. platter'.cont = cont'
      BY <1>4 DEF Names
    <2> QED BY <1>1, <1>4, <1>5, <2>1 DEF MediumShape, Persisted, Carries
  <1>8. WipedIsGone'
    BY <1>1, <1>4, <1>5 DEF MediumShape, WipedIsGone
  <1>9. MediumOK'
    BY <1>1, <1>4, <1>6 DEF MediumOK
  <1>10. ASSUME ~exposed' PROVE Sound'
    <2>1. IInv' /\ softF' = {}
      BY <1>3, <1>4, <1>10 DEF PInv, Sound
    <2> QED BY <2>1, <1>4, <1>8, FlushedSafe DEF Sound
  <1> QED BY <1>3, <1>6, <1>7, <1>8, <1>9, <1>10 DEF PInv, MediumShape

(* Zeros are written over files: without exposure the container's name is  *)
(* on the medium, and no unlock record is.                                 *)
LEMMA DeleteOriginalKeeps ==
    ASSUME Serial, PInv, NEW p \in Procs, DeleteOriginal(p)
    PROVE  PInv'
  <1>1. TypeOK /\ Shape /\ MediumOK /\ MediumShape
    BY DEF PInv
  <1>2. LockDelete(p) /\ [Next]_vars
    BY DEF DeleteOriginal, Next, Step, Lock
  <1>3. TypeOK' /\ Shape' /\ (IInv => IInv')
    BY <1>2, VaultStep
  <1>4. ~LockSync(p) /\ pc[p] = "lDelete"
    BY <1>1, <1>2 DEF LockDelete, RemoveFolder, LockSync, Goto, TypeOK
  <1>5. Carries(p) /\ FilesIn(folder') \subseteq FilesIn(folder)
    BY <1>1, <1>2, <1>4, LockCarries DEF Lock
  <1>6. /\ UNCHANGED <<platter, synced, softR, softF>>
        /\ wiped' = IF SecureDelete /\ folder' # Absent
                    THEN wiped \cup (FilesIn(folder) \ FilesIn(folder')) ELSE wiped
    BY DEF DeleteOriginal
  <1>7. exposed' \in BOOLEAN
        /\ (~exposed' => ~exposed /\ (wiped' = {} \/ platter.cont # Absent))
    BY <1>1 DEF DeleteOriginal, MediumOK
  <1>8. FilesIn(folder) \subseteq Files
    BY <1>1 DEF TypeOK, FilesIn
  <1>9. MediumOK'
    BY <1>1, <1>6, <1>7, <1>8 DEF MediumOK
  <1>10. WipedIsGone'
    BY <1>1, <1>5, <1>6 DEF MediumShape, WipedIsGone
  <1>11. Persisted' /\ PlatterShape'
    BY <1>1, <1>5, <1>6 DEF MediumShape, Persisted, PlatterShape, Carries
  <1>12. ASSUME ~exposed' PROVE Sound'
    <2>1. IInv' /\ softF' = {} /\ platter'.softF = {} /\ PlatterSafe
      BY <1>3, <1>6, <1>7, <1>12 DEF PInv, Sound
    <2>2. \A u \in Uuids : platter.journal[u] # "unlock"
      BY <1>1, <1>4 DEF MediumShape, PlatterShape
    <2>3. data' \subseteq data
      BY <1>5 DEF Carries
    <2>4. wiped' = {} \/ platter.cont # Absent
      BY <1>7, <1>12
    <2>5. PlatterSafe'
      BY <2>1, <2>2, <2>3, <2>4, <1>6 DEF PlatterSafe
    <2> QED BY <2>1, <2>5 DEF Sound
  <1> QED BY <1>3, <1>9, <1>10, <1>11, <1>12 DEF PInv, MediumShape

LEMMA StagingKeeps ==
    ASSUME Serial, PInv, NEW p \in Procs, Mkdir(p) \/ Extract(p)
    PROVE  PInv'
  <1>1. TypeOK /\ Shape /\ MediumOK /\ MediumShape
    BY DEF PInv
  <1>2. (UnlockMkdir(p) \/ UnlockExtract(p)) /\ [Next]_vars
    BY DEF Mkdir, Extract, Next, Step, Unlock
  <1>3. TypeOK' /\ Shape' /\ (IInv => IInv')
    BY <1>2, VaultStep
  <1>4. ~UnlockRename(p)
    BY <1>1, <1>2 DEF UnlockMkdir, UnlockExtract, UnlockRename, Goto, Fail, TypeOK
  <1>5. Carries(p) /\ FilesIn(folder') \subseteq FilesIn(folder)
    BY <1>1, <1>2, <1>4, UnlockCarries DEF Unlock
  <1>6. UNCHANGED <<platter, synced, softF, wiped, exposed>>
    BY DEF Mkdir, Extract
  <1>7. softR' \subseteq Files
    BY <1>1, <1>3, AbsentAssumption DEF Mkdir, Extract, UnlockExtract, MediumOK, TypeOK, FilesIn
  <1>8. MediumShape' /\ (PlatterSafe => PlatterSafe')
    BY <1>3, <1>5, <1>6, QuietStep
  <1>9. MediumOK' /\ (~exposed' => Sound')
    BY <1>1, <1>3, <1>6, <1>7, <1>8 DEF PInv, MediumOK, Sound
  <1> QED BY <1>3, <1>8, <1>9 DEF PInv

(* The folder is put in place: without exposure all its bytes are written. *)
LEMMA RenameKeeps ==
    ASSUME Serial, PInv, NEW p \in Procs, Rename(p)
    PROVE  PInv'
  <1>1. TypeOK /\ Shape /\ MediumOK /\ MediumShape
    BY DEF PInv
  <1>2. UnlockRename(p) /\ [Next]_vars
    BY DEF Rename, Next, Step, Unlock
  <1>3. TypeOK' /\ Shape' /\ (IInv => IInv')
    BY <1>2, VaultStep
  <1>4. Carries(p)
    BY <1>1, <1>2, UnlockCarries DEF Unlock
  <1>5. UNCHANGED <<platter, synced>> /\ wiped' = {} /\ softF' = softR /\ softR' = {}
    BY DEF Rename
  <1>6. exposed' \in BOOLEAN /\ (~exposed' => ~exposed /\ softR = {})
    BY <1>1 DEF Rename, MediumOK
  <1>7. MediumOK'
    BY <1>1, <1>5, <1>6 DEF MediumOK
  <1>8. MediumShape'
    BY <1>1, <1>4, <1>5 DEF MediumShape, Persisted, PlatterShape, WipedIsGone, Carries
  <1>9. ASSUME ~exposed' PROVE Sound'
    <2>1. PlatterSafe => PlatterSafe'
      BY <1>4, <1>5 DEF PlatterSafe, Carries
    <2> QED BY <2>1, <1>3, <1>5, <1>6, <1>9 DEF PInv, Sound
  <1> QED BY <1>3, <1>7, <1>8, <1>9 DEF PInv

LEMMA UserFolderKeeps ==
    ASSUME Serial, PInv, UserFolder
    PROVE  PInv'
  <1>1. TypeOK /\ Shape /\ MediumOK /\ MediumShape
    BY DEF PInv
  <1>2. NewFolder /\ [Next]_vars
    BY DEF UserFolder, Next
  <1>3. TypeOK' /\ Shape' /\ (IInv => IInv')
    BY <1>2, VaultStep
  <1>4. /\ UNCHANGED <<synced, softR, exposed>> /\ softF' = {} /\ wiped' = {}
        /\ platter' = Names'
    BY DEF UserFolder
  <1>5. cont' = Absent /\ pc' = pc /\ \A q \in Procs : pc[q] = "off"
    BY <1>2 DEF NewFolder
  <1>6. platter' \in Media /\ PlatterShape'
    BY <1>1, <1>3, <1>4, FlushedShape DEF MediumOK
  <1>7. Persisted'
    <2>1. platter'.cont = Absent
      BY <1>4, <1>5 DEF Names
    <2> QED BY <1>5, <2>1 DEF Persisted, LockCommits, Committing
  <1>8. WipedIsGone' /\ MediumOK'
    BY <1>1, <1>4, <1>6 DEF WipedIsGone, MediumOK
  <1>9. ASSUME ~exposed' PROVE Sound'
    <2>1. IInv' /\ softF' = {}
      BY <1>3, <1>4, <1>9 DEF PInv, Sound
    <2> QED BY <2>1, <1>4, <1>8, FlushedSafe DEF Sound
  <1> QED BY <1>3, <1>6, <1>7, <1>8, <1>9 DEF PInv, MediumShape

-----------------------------------------------------------------------------
(* The system writes, or the power fails *)

LEMMA FlushLogKeeps ==
    ASSUME Serial, PInv, FlushLog
    PROVE  PInv'
  <1>1. TypeOK /\ Shape /\ MediumOK /\ MediumShape
    BY DEF PInv
  <1>2. /\ UNCHANGED vars /\ UNCHANGED <<synced, softR, softF, wiped, exposed>>
        /\ platter' = Names'
    BY DEF FlushLog, Names, vars, disk
  <1>3. TypeOK' /\ Shape' /\ (IInv => IInv')
    BY <1>2, VaultStep
  <1>4. platter' \in Media /\ PlatterShape'
    BY <1>1, <1>2, <1>3, FlushedShape DEF MediumOK
  <1>5. WipedIsGone' /\ MediumOK'
    BY <1>1, <1>2, <1>4 DEF MediumShape, WipedIsGone, MediumOK, vars, disk
  <1>6. Persisted'
    <2>1. platter'.cont = cont'
      BY <1>2 DEF Names
    <2> QED BY <1>1, <1>2, <2>1
            DEF MediumShape, Persisted, LockCommits, Committing, vars, disk, locals
  <1>7. ASSUME ~exposed' PROVE Sound'
    <2>1. IInv' /\ softF' = {}
      BY <1>2, <1>3, <1>7 DEF PInv, Sound
    <2> QED BY <2>1, <1>2, <1>5, FlushedSafe DEF Sound
  <1> QED BY <1>3, <1>4, <1>5, <1>6, <1>7 DEF PInv, MediumShape

(* Here an exposure may end: Shape makes up for what was not known of the  *)
(* data meanwhile.                                                         *)
LEMMA WriteBackKeeps ==
    ASSUME Serial, PInv, WriteBack
    PROVE  PInv'
  <1>1. TypeOK /\ Shape /\ MediumOK /\ MediumShape
    BY DEF PInv
  <1>2. /\ UNCHANGED vars /\ softR' = {} /\ softF' = {} /\ wiped' = {}
        /\ platter' = Names'
        /\ synced' = Uuids \ {u \in Uuids : \E p \in Procs : pc[p] = "lCopy" /\ my[p] = u}
    BY DEF WriteBack
  <1>3. exposed' \in BOOLEAN /\ (~exposed' => ~exposed \/ (NoDataLoss /\ ReplayPremise))
    BY <1>1 DEF WriteBack, MediumOK
  <1>4. TypeOK' /\ Shape' /\ (IInv => IInv')
    BY <1>2, VaultStep
  <1>5. platter' \in Media /\ PlatterShape'
    BY <1>2, <1>4, FlushedShape
  <1>6. WipedIsGone' /\ MediumOK'
    BY <1>2, <1>3, <1>5 DEF WipedIsGone, MediumOK
  <1>7. Persisted'
    <2>1. platter'.cont = cont' /\ UNCHANGED <<cont, pc, cmd, my>>
      BY <1>2 DEF Names, vars, disk, locals
    <2>2. cont # Absent => cont.uuid \in Uuids /\ \A p \in Procs : pc[p] # "lCopy"
      BY <1>1 DEF TypeOK, Container, Shape, LockShape
    <2>3. \A p \in Procs : LockCommits(p) =>
            my[p] \in Uuids /\ \A q \in Procs : pc[q] # "lCopy"
      BY <1>1 DEF Serial, LockCommits, Committing, Shape, CommandInv, SharedSteps
    <2> QED BY <1>2, <2>1, <2>2, <2>3 DEF Persisted, LockCommits, Committing
  <1>8. ASSUME ~exposed' PROVE Sound'
    <2>1. CASE ~exposed
      BY <2>1, <1>2, <1>4, <1>6, FlushedSafe DEF PInv, Sound
    <2>2. CASE NoDataLoss /\ ReplayPremise
      <3>1. IInv
        BY <1>1, <2>2, ShapeIsSound
      <3> QED BY <3>1, <1>2, <1>4, <1>6, FlushedSafe DEF Sound
    <2> QED BY <1>3, <1>8, <2>1, <2>2
  <1> QED BY <1>4, <1>5, <1>6, <1>7, <1>8 DEF PInv, MediumShape

LEMMA PowerFailKeeps ==
    ASSUME Serial, PInv, PowerFail
    PROVE  PInv'
  <1>1. TypeOK /\ Shape /\ MediumOK /\ MediumShape
    BY DEF PInv
  <1>2. PlatterShape /\ Persisted /\ platter \in Media
    BY <1>1 DEF MediumShape, MediumOK
  <1>3. cont' = platter.cont
    BY <1>2 DEF PowerFail, Survives, Persisted
  <1>4. tmp' \in {Absent} \cup Container
    <2>1. platter.tmp \in {Absent} \cup Container
      BY <1>2 DEF Media
    <2>2. ASSUME platter.tmp # Absent, NEW s \in SUBSET platter.tmp.files
          PROVE  [platter.tmp EXCEPT !.files = s] \in Container
      BY <2>1, <2>2 DEF Container
    <2> QED BY <2>1, <2>2 DEF PowerFail, Survives
  <1>5. PICK lostF \in SUBSET (platter.softF \cup wiped) :
          folder' = IF platter.folder = Absent THEN Absent ELSE platter.folder \ lostF
    BY DEF PowerFail
  <1>6. PICK lostR \in SUBSET platter.softR :
          restoring' = IF platter.restoring = Absent THEN Absent ELSE platter.restoring \ lostR
    BY DEF PowerFail
  <1>7. /\ journal' = platter.journal
        /\ pc' = [p \in Procs |-> "off"] /\ cmd' = [p \in Procs |-> "inspect"]
        /\ my' = [p \in Procs |-> NoUuid] /\ left' = [p \in Procs |-> {}]
        /\ held' = [p \in Procs |-> {}] /\ wasRo' = [p \in Procs |-> FALSE]
        /\ todo' = [p \in Procs |-> {}]
        /\ UNCHANGED <<data, exposed>>
    BY DEF PowerFail
  <1>8. /\ softR' = {} /\ softF' = {} /\ wiped' = {} /\ synced' = Uuids
        /\ platter' = Names'
    BY DEF PowerFail
  <1>9. /\ platter.folder \in {Absent} \cup SUBSET Files
        /\ platter.restoring \in {Absent} \cup SUBSET Files
        /\ platter.cont \in {Absent} \cup Container
        /\ platter.journal \in [Uuids -> RecordKinds]
    BY <1>2 DEF Media
  <1>10. /\ folder' = Absent <=> platter.folder = Absent
         /\ restoring' = Absent <=> platter.restoring = Absent
         /\ folder' \in {Absent} \cup SUBSET Files
         /\ restoring' \in {Absent} \cup SUBSET Files
    BY <1>5, <1>6, <1>9, AbsentAssumption
  <1>11. TypeOK'
    BY <1>1, <1>3, <1>4, <1>7, <1>9, <1>10 DEF TypeOK, Labels, Commands
  <1>12. FilesIn(folder') \subseteq FilesIn(platter.folder)
    BY <1>5, <1>10 DEF FilesIn
  <1>13. Shape'
    <2>1. ContainerFits' /\ StagedUnlock' /\ RecordsDoNotMix'
      BY <1>2, <1>3, <1>7, <1>10, <1>12
         DEF PlatterShape, ContainerFits, StagedUnlock, RecordsDoNotMix, Closed
    <2> QED BY <2>1, <1>7 DEF Shape, RecoverInv, CommandInv, LockShape, UnlockShape,
            Committing, RecoverSteps, LockSteps, UnlockSteps, SharedSteps
  <1>14. platter' \in Media /\ PlatterShape'
    BY <1>8, <1>11, <1>13, FlushedShape
  <1>15. WipedIsGone' /\ MediumOK'
    BY <1>1, <1>7, <1>8, <1>14 DEF WipedIsGone, MediumOK
  <1>16. Persisted'
    <2>1. platter'.cont = cont' /\ (cont' # Absent => cont'.uuid \in Uuids)
      BY <1>8, <1>11 DEF Names, TypeOK, Container
    <2> QED BY <2>1, <1>7, <1>8 DEF Persisted, LockCommits, Committing
  <1>17. ASSUME ~exposed' PROVE Sound'
    <2>1. PlatterSafe /\ platter.softF = {}
      BY <1>7, <1>17 DEF PInv, Sound
    <2>2. lostF \subseteq wiped
      BY <1>5, <2>1
    <2>3. DataSafe'
      BY <1>2, <1>3, <1>5, <1>7, <1>10, <2>1, <2>2
         DEF PlatterSafe, PlatterShape, DataSafe, Closed, Whole, FilesIn
    <2>4. UnlockRecordSafe' /\ RecordsDoNotMix'
      BY <1>2, <1>5, <1>7, <1>10, <2>1, <2>2
         DEF PlatterSafe, PlatterShape, UnlockRecordSafe, RecordsDoNotMix
    <2>5. IInv'
      BY <2>3, <2>4, <1>7 DEF IInv, RecoverInv, CommandInv, LockInv, UnlockInv,
         Committing, RecoverSteps, LockSteps, UnlockSteps, SharedSteps
    <2> QED BY <2>5, <1>8, <1>15, FlushedSafe DEF Sound
  <1> QED BY <1>11, <1>13, <1>14, <1>15, <1>16, <1>17 DEF PInv, MediumShape

LEMMA PInitKeeps == PInit => PInv
  <1> SUFFICES ASSUME PInit PROVE PInv
    OBVIOUS
  <1>1. TypeOK /\ Shape /\ IInv
    <2>1. Init
      BY DEF PInit
    <2>2. TypeOK
      BY <2>1 DEF Init, TypeOK, Container, Commands, Labels, RecordKinds
    <2> QED BY <2>1, <2>2, InitShape, InitKeeps
  <1>2. /\ platter = Names /\ softR = {} /\ softF = {} /\ wiped = {} /\ synced = Uuids
        /\ exposed = FALSE
    BY DEF PInit
  <1>3. /\ platter.folder = folder /\ platter.tmp = tmp /\ platter.cont = cont
        /\ platter.restoring = restoring /\ platter.journal = journal
        /\ platter.softR = {} /\ platter.softF = {}
    BY <1>2 DEF Names
  <1>4. MediumOK
    BY <1>1, <1>2 DEF MediumOK, Media, Names, TypeOK
  <1>5. \A p \in Procs : pc[p] = "off"
    BY DEF PInit, Init
  <1>6. Persisted
    BY <1>1, <1>2, <1>3, <1>5 DEF Persisted, LockCommits, Committing, TypeOK, Container
  <1>7. PlatterShape
    BY <1>1, <1>3, <1>5 DEF PlatterShape, Shape, ContainerFits, StagedUnlock, RecordsDoNotMix,
       LockCommits, Committing
  <1>8. WipedIsGone
    BY <1>2 DEF WipedIsGone
  <1>9. PlatterSafe
    BY <1>1, <1>2, <1>3 DEF PlatterSafe, IInv, DataSafe, UnlockRecordSafe, FilesIn
  <1> QED BY <1>1, <1>2, <1>3, <1>4, <1>6, <1>7, <1>8, <1>9 DEF PInv, MediumShape, Sound

LEMMA PNextKeeps ==
    ASSUME Serial, PInv, [PNext]_pvars
    PROVE  PInv'
  <1>1. CASE UNCHANGED pvars
    BY <1>1 DEF pvars, vars, medium, disk, locals, PInv, TypeOK, MediumOK, Shape, MediumShape,
       Sound, ContainerFits, StagedUnlock, RecordsDoNotMix, RecoverInv, CommandInv,
       LockShape, UnlockShape, Committing, Persisted, PlatterShape, WipedIsGone, LockCommits,
       IInv, DataSafe, UnlockRecordSafe, LockInv, UnlockInv, PlatterSafe
  <1>2. CASE PNext
    BY <1>2, PlainKeeps, CreateKeeps, SyncKeeps, SyncRecordKeeps, DeleteOriginalKeeps,
       StagingKeeps, RenameKeeps, UserFolderKeeps, FlushLogKeeps, WriteBackKeeps,
       PowerFailKeeps DEF PNext
  <1> QED BY <1>1, <1>2

(* Through every crash and power failure, processes that run one after     *)
(* another keep the layered invariant: the shape of disk and medium        *)
(* always, and, unless exposed, a sound copy on both.                      *)
THEOREM PowerInvariant ==
    ASSUME Serial
    PROVE  PSpec => []PInv
  <1>1. PInv /\ [PNext]_pvars => PInv'
    BY PNextKeeps
  <1> QED BY <1>1, PInitKeeps, PTL DEF PSpec

(* lock_folder, recover() and verify_and_delete lose nothing when the      *)
(* power fails at any moment: data goes only with an unlock whose          *)
(* extracted files were not synced, or with a --secure-delete that ran     *)
(* ahead of the container's name; for any files and any uuids.             *)
THEOREM PowerLossNeedsExposure ==
    ASSUME Serial
    PROVE  PSpec => []LossNeedsExposure
  <1>1. IInv => NoDataLoss
    BY DEF IInv, DataSafe, NoDataLoss, Whole
  <1>2. PInv => LossNeedsExposure
    BY <1>1 DEF PInv, Sound, LossNeedsExposure
  <1> QED BY <1>2, PowerInvariant, PTL

=============================================================================
